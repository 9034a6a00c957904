----------------------------- MODULE LoopProofs -----------------------------
(***************************************************************************)
(* Theorems about the main loop, for any tasks, timers, descriptors,       *)
(* signals, delays and bounds: the lists stay consistent, the loop never   *)
(* sleeps over something to do, signals keep their order, and what fires   *)
(* is what was armed.                                                      *)
(***************************************************************************)
EXTENDS Loop, SequenceTheorems, FiniteSetTheorems, WellFoundedInduction, TLAPS

(* Dates, of which some is the first. *)

(* A set of naturals which is not empty has a smallest element. *)
LEMMA Smallest ==
    ASSUME NEW T \in SUBSET Nat, T # {}
    PROVE  \E x \in T : \A y \in T : x <= y
<1> DEFINE R == {p \in Nat \X Nat : p[1] < p[2]}
<1>1. R = OpToRel(<, Nat)
  BY Zenon DEF OpToRel
<1>2. IsWellFoundedOn(R, Nat)
  BY <1>1, NatLessThanWellFounded, Zenon
<1> HIDE DEF R
<1>3. PICK x \in T : \A y \in T : ~ (<<y, x>> \in R)
  BY <1>2, WFMin, Zenon
<1> USE DEF R
<1>4. \A y \in T : ~ (y < x)
  BY <1>3
<1> QED  BY <1>4

-----------------------------------------------------------------------------
Dates == Nat \cup {NoDate}
Entry == [owner : Timers \cup Tasks, due : Dates]

\* Every timer that is armed is booked once: at its date, or among those firing.
EventsOk(e) ==
  /\ e = [dates |-> e.dates, at |-> e.at]
  /\ e.dates \in Seq(Nat)
  /\ e.at \in [DOMAIN e.at -> SUBSET Entry] /\ DOMAIN e.at \subseteq Nat
  /\ \A i, j \in 1 .. Len(e.dates) : i <= j => e.dates[i] <= e.dates[j]
  /\ \A d \in DOMAIN e.at : \E i \in 1 .. Len(e.dates) : e.dates[i] = d

FiringOk ==
  /\ firing \in [date : Dates, left : SUBSET Entry, seen : Nat] /\ firing.seen <= now
  /\ firing.left # {} => pc = "fire" /\ firing.date # NoDate
  /\ pc = "fire" => firing.date <= firing.seen /\ EntriesAt(events, firing.date) = {}

Booked(timer, d) == Registered(events, timer, d) \/ (firing.date = d /\ timer \in firing.left)

TimersOk ==
  /\ nd = armed /\ armed \in [Timers -> Dates]
  /\ \A y \in Timers :
       /\ armed[y] # NoDate => Booked(Client(y), armed[y])
       /\ \A d \in DOMAIN events.at : Registered(events, Client(y), d) => armed[y] = d
       /\ Client(y) \in firing.left => armed[y] = firing.date

Waits == \A t \in Tasks : tasks[t].st = "waiting" /\ tasks[t].due # NoDate
                            => Booked(Timeout(t, tasks[t].due), tasks[t].due)

Events == RW \cup {"posixsignal", "timeout", "closed", None}
Task == [st : {"ready", "waiting", "dead"}, em : Fds \cup {0}, rw : RW \cup {"posixsignal", None},
         due : Dates, event : Events]

\* The ready tasks k are in the list r, once, unless they run.
TasksHold(k, r, run) ==
  /\ k \in [Tasks -> Task] /\ r \in Seq(Tasks) /\ run \in Tasks \cup {None}
  /\ \A i, j \in 1 .. Len(r) : r[i] = r[j] => i = j
  /\ \A i \in 1 .. Len(r) : k[r[i]].st = "ready" /\ r[i] # run
  /\ \A t \in Tasks :
       /\ k[t].st = "waiting" => k[t].event = None /\ t # run
       /\ \/ k[t].st = "waiting"
          \/ \E i \in 1 .. Len(r) : r[i] = t
          \/ k[t].due = NoDate /\ k[t].rw = None /\ k[t].event = None

TasksOk == TasksHold(tasks, ready, running)

WatchOk(w) ==
  /\ w \in [list : [RW -> Seq(Fds)], index : [RW -> [Fds -> Nat]], func : [RW -> SUBSET Fds]]
  /\ \A rw \in RW, fd \in Fds :
       /\ w.index[rw][fd] # 0 => /\ w.index[rw][fd] \in 1 .. Len(w.list[rw])
                                 /\ w.list[rw][w.index[rw][fd]] = fd
       /\ fd \in w.func[rw] => w.index[rw][fd] # 0
  /\ \A rw \in RW : \A i \in 1 .. Len(w.list[rw]) : w.index[rw][w.list[rw][i]] = i

\* A descriptor that a task waits for, or was woken for, is watched by it alone.
Watchers ==
  \A t \in Tasks : tasks[t].rw \in RW =>
    /\ tasks[t].em \in Fds
    /\ tasks[t].em \in open =>
         /\ Watched(watch, tasks[t].rw, tasks[t].em)
         /\ tasks[t].em \notin watch.func[tasks[t].rw]
         /\ \A u \in Tasks : tasks[u].rw = tasks[t].rw /\ tasks[u].em = tasks[t].em => u = t
    /\ tasks[t].st = "waiting" =>
         /\ tasks[t].em \in open
         /\ tasks[t].rw = "read" => tasks[t].em \notin dirty

\* The ring b holds the signals u, in order.
RingHolds(b, u) ==
  /\ u \in Seq(Signals)
  /\ b \in [lastI : -1 .. MAX_SIGNALS - 1, nSig : 0 .. MAX_SIGNALS,
            sigs : [0 .. MAX_SIGNALS - 1 -> Signals \cup {0}]]
  /\ b.lastI = -1 => b.nSig = 0
  /\ b.nSig = Len(u)
  /\ \A k \in 1 .. Len(u) : b.sigs[(b.lastI - b.nSig + k) % MAX_SIGNALS] = u[k]

RingOk ==
  /\ RingHolds(sigBuffer, unheard) /\ raised \subseteq Signals /\ handlers \subseteq Signals
  /\ pc = "deliver" /\ unheard # <<>>
       => sel.at = (sigBuffer.lastI - sigBuffer.nSig + 1) % MAX_SIGNALS

\* What the loop computed before it delivers signals, if it is to sleep.
SleepOk ==
  /\ pc = "deliver" =>
       /\ sel \in [seen : Nat, timeout : Nat \cup {NoTimeout}, received : BOOLEAN, at : Nat,
                   since : {0}, deadline : {0}, dirty : {<<>>}, rset : {{}}, wset : {{}},
                   read : {<<>>}, write : {<<>>}]
       /\ ~sel.received =>
            /\ ready = <<>> /\ sigBuffer.nSig = 0
            /\ \A d \in DOMAIN events.at : sel.timeout # NoTimeout
                                           /\ (sel.timeout = 0 \/ sel.seen + sel.timeout <= d)
  /\ SleepsSafely

\* A callback cancels no timer that fires with its own, and no task is deprived
\* of the watch it waits with.
NoCorner == "cancel when due" \notin Corners /\ "dropped watch" \notin Corners

\* The clock and the timers, the descriptors.
Clock == EventsOk(events) /\ FiringOk /\ TimersOk
Descriptors == WatchOk(watch) /\ Watchers

Sound ==
  /\ use \in Instances
  /\ pc \in {"timers", "fire", "tasks", "deliver", "asleep", "unmask", "notify", "stopped"}
  /\ now \in Nat /\ open \subseteq Fds /\ dirty \subseteq Fds
  /\ pc # "tasks" => running = None
  /\ Clock /\ Waits /\ TasksOk /\ Descriptors /\ RingOk /\ SleepOk

-----------------------------------------------------------------------------
(* Timers *)

(* Inserting a date in a list of dates. *)
LEMMA Inserted ==
  ASSUME NEW s \in Seq(Nat), NEW n \in 1 .. Len(s) + 1, NEW d \in Nat
  PROVE  /\ InsertAt(s, n, d) \in Seq(Nat) /\ Len(InsertAt(s, n, d)) = Len(s) + 1
         /\ InsertAt(s, n, d)[n] = d
         /\ \A i \in 1 .. Len(s) :
              IF i < n THEN InsertAt(s, n, d)[i] = s[i] ELSE InsertAt(s, n, d)[i + 1] = s[i]
<1> DEFINE a == SubSeq(s, 1, n - 1)
           b == SubSeq(s, n, Len(s))
<1>1. Len(s) \in Nat /\ n \in Nat /\ \A i \in 1 .. Len(s) : s[i] \in Nat
  BY LenProperties, ElementOfSeq
<1>2. /\ a \in Seq(Nat) /\ Len(a) = n - 1 /\ \A i \in 1 .. n - 1 : a[i] = s[i]
  <2>1. /\ a \in Seq(Nat) /\ Len(a) = IF 1 <= n - 1 THEN n - 1 - 1 + 1 ELSE 0
        /\ \A i \in 1 .. n - 1 - 1 + 1 : a[i] = s[1 + i - 1]
    <3>1. \A i \in 1 .. n - 1 : s[i] \in Nat  BY <1>1
    <3>2. n - 1 \in Int /\ 1 \in Int  BY <1>1
    <3> QED  BY <3>1, <3>2, SubSeqProperties
  <2> QED  BY <2>1, <1>1
<1>3. /\ b \in Seq(Nat) /\ Len(b) = Len(s) - n + 1
      /\ \A i \in 1 .. Len(s) - n + 1 : b[i] = s[n + i - 1]
  <2>1. /\ b \in Seq(Nat) /\ Len(b) = IF n <= Len(s) THEN Len(s) - n + 1 ELSE 0
        /\ \A i \in 1 .. Len(s) - n + 1 : b[i] = s[n + i - 1]
    <3>1. \A i \in n .. Len(s) : s[i] \in Nat  BY <1>1
    <3>2. n \in Int /\ Len(s) \in Int  BY <1>1
    <3> QED  BY <3>1, <3>2, SubSeqProperties
  <2> QED  BY <2>1, <1>1
<1> HIDE DEF a, b
<1>4. <<d>> \in Seq(Nat) /\ Len(<<d>>) = 1 /\ <<d>>[1] = d  OBVIOUS
<1> DEFINE c == a \o <<d>>
<1>5. /\ c \in Seq(Nat) /\ Len(c) = n
      /\ c[n] = d /\ \A i \in 1 .. n - 1 : c[i] = s[i]
  <2>1. /\ c \in Seq(Nat) /\ Len(c) = Len(a) + Len(<<d>>)
        /\ \A i \in 1 .. Len(a) + Len(<<d>>) :
             c[i] = IF i <= Len(a) THEN a[i] ELSE <<d>>[i - Len(a)]
    BY <1>2, <1>4, ConcatProperties
  <2>2. Len(c) = n  BY <2>1, <1>1, <1>2, <1>4
  <2>3. c[n] = d
    <3>1. n \in 1 .. Len(a) + Len(<<d>>) /\ ~(n <= Len(a)) /\ n - Len(a) = 1  BY <1>1, <1>2, <1>4
    <3>2. c[n] = <<d>>[n - Len(a)]  BY <2>1, <3>1
    <3> QED  BY <1>4, <3>1, <3>2
  <2>4. ASSUME NEW i \in 1 .. n - 1
        PROVE  c[i] = s[i]
    <3>1. i \in 1 .. Len(a) + Len(<<d>>) /\ i <= Len(a)  BY <1>1, <1>2, <1>4
    <3> QED  BY <1>2, <2>1, <3>1
  <2> QED  BY <2>1, <2>2, <2>3, <2>4
<1> HIDE DEF c
<1>6. /\ c \o b \in Seq(Nat) /\ Len(c \o b) = Len(c) + Len(b)
      /\ \A i \in 1 .. Len(c) + Len(b) : (c \o b)[i] = IF i <= Len(c) THEN c[i] ELSE b[i - Len(c)]
  BY <1>3, <1>5, ConcatProperties
<1>7. InsertAt(s, n, d) = c \o b  BY DEF InsertAt, a, b, c
<1>8. Len(c) + Len(b) = Len(s) + 1  BY <1>1, <1>3, <1>5
<1>9. ASSUME NEW i \in 1 .. Len(s)
      PROVE  IF i < n THEN (c \o b)[i] = s[i] ELSE (c \o b)[i + 1] = s[i]
  <2>1. CASE i < n
    <3>1. i \in 1 .. Len(c) + Len(b) /\ i <= Len(c) /\ i \in 1 .. n - 1  BY <1>1, <1>5, <1>8, <2>1
    <3> QED  BY <1>5, <1>6, <2>1, <3>1
  <2>2. CASE ~(i < n)
    <3>1. /\ i + 1 \in 1 .. Len(c) + Len(b) /\ ~(i + 1 <= Len(c))
          /\ i + 1 - Len(c) \in 1 .. Len(s) - n + 1 /\ n + (i + 1 - Len(c)) - 1 = i
      BY <1>1, <1>5, <1>8, <2>2
    <3>2. (c \o b)[i + 1] = b[i + 1 - Len(c)]  BY <1>6, <3>1
    <3> QED  BY <1>3, <2>2, <3>1, <3>2
  <2> QED  BY <2>1, <2>2
<1>10. (c \o b)[n] = d
  <2>1. n \in 1 .. Len(c) + Len(b) /\ n <= Len(c)  BY <1>1, <1>5, <1>8
  <2> QED  BY <1>5, <1>6, <2>1
<1> QED  BY <1>6, <1>7, <1>8, <1>9, <1>10

(* The place of a date: after those that are not later. *)
LEMMA Place ==
  ASSUME NEW s \in Seq(Nat), NEW d \in Nat,
         \A i, j \in 1 .. Len(s) : i <= j => s[i] <= s[j]
  PROVE  LET n == Min({i \in DOMAIN s : s[i] > d} \cup {Len(s) + 1})
         IN /\ n \in 1 .. Len(s) + 1
            /\ \A i \in 1 .. Len(s) : IF i < n THEN s[i] <= d ELSE s[i] > d
<1> DEFINE T == {i \in DOMAIN s : s[i] > d} \cup {Len(s) + 1}
           n == Min(T)
<1>1. Len(s) \in Nat /\ DOMAIN s = 1 .. Len(s) /\ \A i \in 1 .. Len(s) : s[i] \in Nat
  BY LenProperties, ElementOfSeq
<1>2. T \in SUBSET Nat /\ T # {} /\ T \subseteq 1 .. Len(s) + 1 /\ Len(s) + 1 \in T  BY <1>1
<1>3. \E x \in T : \A y \in T : x <= y  BY <1>2, Smallest
<1>4. n \in T /\ \A y \in T : n <= y  BY <1>3 DEF Min
<1> HIDE DEF n
<1>5. n \in 1 .. Len(s) + 1  BY <1>2, <1>4
<1>6. ASSUME NEW i \in 1 .. Len(s)
      PROVE  IF i < n THEN s[i] <= d ELSE s[i] > d
  <2>1. CASE i < n
    <3>1. i \notin T  BY <1>1, <1>4, <1>5, <2>1
    <3> QED  BY <1>1, <3>1, <2>1
  <2>2. CASE ~(i < n)
    <3>1. n \in 1 .. Len(s) /\ n <= i /\ s[n] > d  BY <1>1, <1>4, <1>5, <2>2
    <3>2. s[n] <= s[i]  BY <3>1
    <3> QED  BY <1>1, <3>1, <3>2, <2>2
  <2> QED  BY <2>1, <2>2
<1> QED  BY <1>5, <1>6 DEF n

(* addevent keeps the list sorted, and books the timer at its date. *)
LEMMA AddEventOk ==
  ASSUME NEW e, EventsOk(e), NEW timer \in Entry, NEW d \in Nat
  PROVE  LET f == AddEvent(e, timer, d)
         IN /\ EventsOk(f) /\ DOMAIN f.at = DOMAIN e.at \cup {d}
            /\ \A x \in DOMAIN f.at :
                 f.at[x] = IF x = d THEN EntriesAt(e, d) \cup {timer} ELSE e.at[x]
<1> DEFINE n == Min({i \in DOMAIN e.dates : e.dates[i] > d} \cup {Len(e.dates) + 1})
           f == AddEvent(e, timer, d)
           s == e.dates
           t == InsertAt(s, n, d)
<1>1. /\ s \in Seq(Nat) /\ \A i, j \in 1 .. Len(s) : i <= j => s[i] <= s[j]
      /\ DOMAIN e.at \subseteq Nat /\ e.at \in [DOMAIN e.at -> SUBSET Entry]
      /\ \A x \in DOMAIN e.at : \E i \in 1 .. Len(s) : s[i] = x
  BY DEF EventsOk
<1>2. /\ f = [dates |-> f.dates, at |-> f.at] /\ f.dates = IF d \in DOMAIN e.at THEN s ELSE t
      /\ f.at = [x \in DOMAIN e.at \cup {d} |->
                   IF x = d THEN EntriesAt(e, d) \cup {timer} ELSE e.at[x]]
  BY DEF AddEvent
<1>3. EntriesAt(e, d) \in SUBSET Entry  BY <1>1 DEF EntriesAt
<1>4. f.at \in [DOMAIN f.at -> SUBSET Entry] /\ DOMAIN f.at = DOMAIN e.at \cup {d}
      /\ \A x \in DOMAIN f.at :
                 f.at[x] = IF x = d THEN EntriesAt(e, d) \cup {timer} ELSE e.at[x]
  BY <1>1, <1>2, <1>3
<1>5. CASE d \in DOMAIN e.at  BY <1>1, <1>2, <1>4, <1>5 DEF EventsOk
<1>6. CASE d \notin DOMAIN e.at
  <2>1. /\ n \in 1 .. Len(s) + 1
        /\ \A i \in 1 .. Len(s) : IF i < n THEN s[i] <= d ELSE s[i] > d
    BY <1>1, Place
  <2> HIDE DEF n
  <2>2. /\ t \in Seq(Nat) /\ Len(t) = Len(s) + 1
        /\ t[n] = d /\ \A i \in 1 .. Len(s) : IF i < n THEN t[i] = s[i] ELSE t[i + 1] = s[i]
    <3>1. ASSUME NEW q \in Seq(Nat), NEW m \in 1 .. Len(q) + 1, NEW r, r = InsertAt(q, m, d)
          PROVE  /\ r \in Seq(Nat) /\ Len(r) = Len(q) + 1
                 /\ r[m] = d /\ \A i \in 1 .. Len(q) : IF i < m THEN r[i] = q[i] ELSE r[i + 1] = q[i]
      BY <3>1, Inserted
    <3>2. s \in Seq(Nat) /\ n \in 1 .. Len(s) + 1 /\ t = InsertAt(s, n, d)  BY <1>1, <2>1
    <3> HIDE DEF s, t
    <3> QED  BY <3>1, <3>2, SMTT(40)
  <2> HIDE DEF t
  <2>3. Len(s) \in Nat /\ n \in Nat /\ \A i \in 1 .. Len(s) : s[i] \in Nat
    BY <1>1, <2>1, LenProperties, ElementOfSeq
  <2>a. ASSUME NEW i \in 1 .. Len(t)
        PROVE  /\ i < n => i \in 1 .. Len(s) /\ t[i] = s[i] /\ s[i] <= d
               /\ i > n => i - 1 \in 1 .. Len(s) /\ t[i] = s[i - 1] /\ s[i - 1] > d
    <3>1. CASE i < n
      <4>1. i \in 1 .. Len(s)  BY <2>1, <2>2, <2>3, <3>1
      <4> QED  BY <2>1, <2>2, <2>3, <3>1, <4>1, SMTT(40)
    <3>2. CASE i > n
      <4>1. i - 1 \in 1 .. Len(s) /\ ~(i - 1 < n) /\ (i - 1) + 1 = i  BY <2>1, <2>2, <2>3, <3>2
      <4>2. t[(i - 1) + 1] = s[i - 1] /\ s[i - 1] > d  BY <2>1, <2>2, <4>1
      <4> QED  BY <2>3, <3>2, <4>1, <4>2
    <3> QED  BY <3>1, <3>2
  <2>4. ASSUME NEW i \in 1 .. Len(t), NEW j \in 1 .. Len(t), i <= j
        PROVE  t[i] <= t[j]
    <3> SUFFICES ASSUME ~(t[i] <= t[j]) PROVE FALSE  OBVIOUS
    <3>0. n \in Nat  BY <2>3
    <3>1. i \in Nat /\ j \in Nat /\ t[n] = d /\ i <= j  BY <2>2, <2>3, <2>4
    <3>2. \/ (i < n /\ j < n) \/ (i < n /\ j = n) \/ (i < n /\ j > n)
          \/ (i = n /\ j = n) \/ (i = n /\ j > n) \/ (i > n /\ j > n)
      BY <3>0, <3>1
    <3>3. CASE i < n /\ j < n  BY <1>1, <2>a, <2>4, <3>3
    <3>4. CASE i < n /\ j = n  BY <2>a, <3>1, <3>4
    <3>5. CASE i < n /\ j > n
      <4>1. t[i] \in Nat /\ t[j] \in Nat /\ t[i] <= d /\ t[j] > d  BY <2>a, <2>3, <3>5
      <4> QED  BY <4>1
    <3>6. CASE i = n /\ j = n  BY <3>1, <3>6
    <3>7. CASE i = n /\ j > n
      <4>1. t[j] \in Nat /\ t[j] > d  BY <2>a, <2>3, <3>7
      <4> QED  BY <3>1, <3>7, <4>1
    <3>8. CASE i > n /\ j > n
      <4>1. i - 1 \in 1 .. Len(s) /\ j - 1 \in 1 .. Len(s) /\ t[i] = s[i - 1] /\ t[j] = s[j - 1]
        BY <2>a, <3>8
      <4>2. i - 1 <= j - 1  BY <2>4, <3>1
      <4> QED  BY <1>1, <4>1, <4>2
    <3> QED  BY <3>2, <3>3, <3>4, <3>5, <3>6, <3>7, <3>8
  <2>5. ASSUME NEW x \in DOMAIN e.at \cup {d}
        PROVE  \E i \in 1 .. Len(t) : t[i] = x
    <3>1. CASE x = d
      <4>1. n \in 1 .. Len(t) /\ t[n] = x  BY <2>1, <2>2, <2>3, <3>1
      <4> QED  BY <4>1
    <3>2. CASE x \in DOMAIN e.at
      <4>1. PICK i \in 1 .. Len(s) : s[i] = x  BY <1>1, <3>2
      <4>2. CASE i < n
        <5>1. i \in 1 .. Len(t) /\ t[i] = x  BY <2>2, <2>3, <4>1, <4>2, SMTT(40)
        <5> QED  BY <5>1
      <4>3. CASE ~(i < n)
        <5>1. i + 1 \in 1 .. Len(t)  BY <2>2, <2>3, <4>1
        <5>2. t[i + 1] = x  BY <2>2, <4>1, <4>3
        <5> QED  BY <5>1, <5>2
      <4> QED  BY <4>2, <4>3
    <3> QED  BY <3>1, <3>2
  <2>6. f.dates = t  BY <1>2, <1>6
  <2> QED  BY <1>1, <1>2, <1>4, <2>2, <2>4, <2>5, <2>6 DEF EventsOk
<1> QED  BY <1>4, <1>5, <1>6

(* removetimer keeps it too: it only takes timers out. *)
LEMMA RemoveTimersOk ==
  ASSUME NEW e, EventsOk(e), NEW gone
  PROVE  LET f == RemoveTimers(e, gone)
         IN /\ EventsOk(f) /\ DOMAIN f.at \subseteq DOMAIN e.at
            /\ \A x \in DOMAIN f.at : f.at[x] \subseteq e.at[x]
            /\ \A x \in DOMAIN e.at, timer \in Entry :
                 timer \in e.at[x] /\ <<timer, x>> \notin gone
                   => x \in DOMAIN f.at /\ timer \in f.at[x]
            /\ \A x \in DOMAIN f.at, timer \in Entry : timer \in f.at[x] => <<timer, x>> \notin gone
<1> DEFINE f == RemoveTimers(e, gone)
           left(d) == {timer \in e.at[d] : <<timer, d>> \notin gone}
<1>1. /\ f = [dates |-> e.dates, at |-> f.at]
      /\ f.at = [d \in {x \in DOMAIN e.at : left(x) # {}} |-> left(d)]
  BY DEF RemoveTimers, EventsOk
<1> HIDE DEF f
<1>2. DOMAIN f.at = {x \in DOMAIN e.at : left(x) # {}} /\ \A d \in DOMAIN f.at : f.at[d] = left(d)
  BY <1>1
<1>3. e.at \in [DOMAIN e.at -> SUBSET Entry] /\ DOMAIN e.at \subseteq Nat /\ f.dates = e.dates
  BY <1>1 DEF EventsOk
<1>4. f.at \in [DOMAIN f.at -> SUBSET Entry]  BY <1>1, <1>2, <1>3
<1>5. EventsOk(f)  BY <1>1, <1>2, <1>3, <1>4 DEF EventsOk
<1> QED  BY <1>2, <1>3, <1>5 DEF f

(* step takes the first date, the earliest one. *)
LEMMA TakeDateOk ==
  ASSUME NEW e, EventsOk(e), e.dates # <<>>
  PROVE  LET f == TakeDate(e)
         IN /\ EventsOk(f) /\ DOMAIN f.at = DOMAIN e.at \ {Head(e.dates)}
            /\ \A x \in DOMAIN f.at : f.at[x] = e.at[x]
            /\ EntriesAt(e, Head(e.dates)) \in SUBSET Entry
<1> DEFINE s == e.dates
           f == TakeDate(e)
<1>1. /\ s \in Seq(Nat) /\ \A i, j \in 1 .. Len(s) : i <= j => s[i] <= s[j]
      /\ DOMAIN e.at \subseteq Nat /\ e.at \in [DOMAIN e.at -> SUBSET Entry]
      /\ \A x \in DOMAIN e.at : \E i \in 1 .. Len(s) : s[i] = x
  BY DEF EventsOk
<1>2. /\ Len(s) \in Nat \ {0} /\ Tail(s) \in Seq(Nat) /\ Len(Tail(s)) = Len(s) - 1
      /\ \A i \in 1 .. Len(s) - 1 : Tail(s)[i] = s[i + 1]
      /\ Head(s) = s[1] /\ \A i \in 1 .. Len(s) : s[i] \in Nat
  BY <1>1, HeadTailProperties, EmptySeq, ElementOfSeq
<1>3. /\ f = [dates |-> Tail(s), at |-> f.at] /\ f.dates = Tail(s)
      /\ f.at = [x \in DOMAIN e.at \ {Head(s)} |-> e.at[x]]
  BY DEF TakeDate, Restrict
<1>4. EntriesAt(e, Head(e.dates)) \in SUBSET Entry  BY <1>1 DEF EntriesAt
<1>5. ASSUME NEW x \in DOMAIN f.at
      PROVE  \E i \in 1 .. Len(Tail(s)) : Tail(s)[i] = x
  <2>1. PICK i \in 1 .. Len(s) : s[i] = x  BY <1>1, <1>3
  <2>2. i # 1  BY <1>2, <1>3, <2>1
  <2>3. i - 1 \in 1 .. Len(s) - 1 /\ (i - 1) + 1 = i  BY <1>2, <2>1, <2>2
  <2> QED  BY <1>2, <2>1, <2>3
<1>6. ASSUME NEW i \in 1 .. Len(Tail(s)), NEW j \in 1 .. Len(Tail(s)), i <= j
      PROVE  Tail(s)[i] <= Tail(s)[j]
  <2>1. i + 1 \in 1 .. Len(s) /\ j + 1 \in 1 .. Len(s) /\ i + 1 <= j + 1  BY <1>2, <1>6
  <2> QED  BY <1>1, <1>2, <2>1
<1>7. f.at \in [DOMAIN f.at -> SUBSET Entry] /\ DOMAIN f.at = DOMAIN e.at \ {Head(s)}
      /\ \A x \in DOMAIN f.at : f.at[x] = e.at[x]
  BY <1>1, <1>3
<1> HIDE DEF f
<1>8. EventsOk(f)  BY <1>1, <1>2, <1>3, <1>5, <1>6, <1>7 DEF EventsOk
<1> QED  BY <1>4, <1>7, <1>8 DEF f

-----------------------------------------------------------------------------
(* Watch lists *)

(* add_watch keeps the list and the index in agreement. *)
LEMMA AddWatchOk ==
  ASSUME NEW w, WatchOk(w), NEW rw \in RW, NEW fd \in Fds, ~Watched(w, rw, fd), NEW func \in BOOLEAN
  PROVE  LET v == AddWatch(w, rw, fd, func)
         IN /\ WatchOk(v)
            /\ \A x \in RW, g \in Fds : Watched(v, x, g) <=> Watched(w, x, g) \/ (x = rw /\ g = fd)
            /\ \A x \in RW : v.func[x] = w.func[x] \cup (IF func /\ x = rw THEN {fd} ELSE {})
<1> DEFINE v == AddWatch(w, rw, fd, func)
           s == w.list[rw]
           t == Append(s, fd)
<1>1. /\ w \in [list : [RW -> Seq(Fds)], index : [RW -> [Fds -> Nat]], func : [RW -> SUBSET Fds]]
      /\ s \in Seq(Fds)
  BY DEF WatchOk
<1>2. /\ Len(s) \in Nat /\ t \in Seq(Fds) /\ Len(t) = Len(s) + 1 /\ t[Len(s) + 1] = fd
      /\ \A i \in 1 .. Len(s) : t[i] = s[i] /\ s[i] \in Fds
  BY <1>1, AppendProperties, LenProperties, ElementOfSeq
<1> HIDE DEF t
<1>3. /\ v.list = [w.list EXCEPT ![rw] = t] /\ v.func = [w.func EXCEPT ![rw] = IF func THEN @ \cup {fd} ELSE @]
      /\ v.index = [w.index EXCEPT ![rw][fd] = Len(s) + 1]
      /\ v = [list |-> v.list, index |-> v.index, func |-> v.func]
  BY DEF AddWatch, t
<1> HIDE DEF v
<1>4. /\ v.list[rw] = t /\ \A x \in RW : x # rw => v.list[x] = w.list[x]
      /\ \A x \in RW, g \in Fds : v.index[x][g] = IF x = rw /\ g = fd THEN Len(s) + 1 ELSE w.index[x][g]
      /\ \A x \in RW : v.func[x] = w.func[x] \cup (IF func /\ x = rw THEN {fd} ELSE {})
      /\ v \in [list : [RW -> Seq(Fds)], index : [RW -> [Fds -> Nat]], func : [RW -> SUBSET Fds]]
  <2>1. v.list[rw] = t /\ \A x \in RW : x # rw => v.list[x] = w.list[x]  BY <1>1, <1>3
  <2>2. \A x \in RW, g \in Fds : v.index[x][g] = IF x = rw /\ g = fd THEN Len(s) + 1 ELSE w.index[x][g]
    BY <1>1, <1>3
  <2>3. \A x \in RW : v.func[x] = w.func[x] \cup (IF func /\ x = rw THEN {fd} ELSE {})
    BY <1>1, <1>3
  <2>4. /\ v.list \in [RW -> Seq(Fds)] /\ v.index \in [RW -> [Fds -> Nat]]
        /\ v.func \in [RW -> SUBSET Fds]
    <3>1. v.list \in [RW -> Seq(Fds)]  BY <1>1, <1>2, <1>3
    <3>2. v.index \in [RW -> [Fds -> Nat]]  BY <1>1, <1>2, <1>3
    <3>3. v.func \in [RW -> SUBSET Fds]  BY <1>1, <1>3
    <3> QED  BY <3>1, <3>2, <3>3
  <2> QED  BY <1>3, <2>1, <2>2, <2>3, <2>4
<1>5. ASSUME NEW x \in RW, NEW g \in Fds
      PROVE  /\ v.index[x][g] # 0 => /\ v.index[x][g] \in 1 .. Len(v.list[x])
                                     /\ v.list[x][v.index[x][g]] = g
             /\ g \in v.func[x] => v.index[x][g] # 0
             /\ Watched(v, x, g) <=> Watched(w, x, g) \/ (x = rw /\ g = fd)
  <2>1. /\ w.index[x][g] # 0 => w.index[x][g] \in 1 .. Len(w.list[x]) /\ w.list[x][w.index[x][g]] = g
        /\ g \in w.func[x] => w.index[x][g] # 0
    BY DEF WatchOk
  <2>2. CASE x = rw /\ g = fd  BY <1>2, <1>4, <2>2 DEF Watched
  <2>3. CASE x = rw /\ g # fd  BY <1>2, <1>4, <2>1, <2>3, SMTT(40) DEF Watched
  <2>4. CASE x # rw  BY <1>4, <2>1, <2>4 DEF Watched
  <2> QED  BY <2>2, <2>3, <2>4
<1>6. ASSUME NEW x \in RW, NEW i \in 1 .. Len(v.list[x])
      PROVE  v.index[x][v.list[x][i]] = i
  <2>1. ASSUME NEW j \in 1 .. Len(w.list[x])
        PROVE  w.index[x][w.list[x][j]] = j /\ w.list[x][j] \in Fds
    BY <1>1, ElementOfSeq DEF WatchOk
  <2>2. CASE x # rw
    <3>1. v.list[x] = w.list[x]  BY <1>4, <2>2
    <3>2. w.index[x][w.list[x][i]] = i /\ w.list[x][i] \in Fds  BY <2>1, <3>1
    <3>3. \A g \in Fds : v.index[x][g] = w.index[x][g]  BY <1>4, <2>2
    <3> QED  BY <3>1, <3>2, <3>3
  <2>3. CASE x = rw /\ i = Len(s) + 1  BY <1>2, <1>4, <2>3
  <2>4. CASE x = rw /\ i # Len(s) + 1
    <3>1. i \in 1 .. Len(s)  BY <1>2, <1>4, <2>4
    <3>2. s[i] # fd
      <4>1. w.index[rw][s[i]] = i /\ i # 0  BY <2>1, <2>4, <3>1
      <4> QED  BY <4>1 DEF Watched
    <3>3. v.list[x][i] = s[i] /\ s[i] \in Fds /\ w.index[x][s[i]] = i  BY <1>2, <1>4, <2>1, <2>4, <3>1
    <3>4. \A g \in Fds : g # fd => v.index[x][g] = w.index[x][g]  BY <1>4
    <3> QED  BY <3>2, <3>3, <3>4
  <2> QED  BY <2>2, <2>3, <2>4
<1> QED  BY <1>4, <1>5, <1>6 DEF WatchOk, v

(* The last one moves to the place of the one removed. *)
LEMMA RemoveWatchOk ==
  ASSUME NEW w, WatchOk(w), NEW rw \in RW, NEW fd \in Fds
  PROVE  LET v == RemoveWatch(w, rw, fd)
         IN /\ WatchOk(v)
            /\ \A x \in RW, g \in Fds : Watched(v, x, g) <=> Watched(w, x, g) /\ ~(x = rw /\ g = fd)
            /\ \A x \in RW : v.func[x] = w.func[x] \ (IF x = rw THEN {fd} ELSE {})
<1> DEFINE v == RemoveWatch(w, rw, fd)
           s == w.list[rw]
           n == Len(s)
           i == w.index[rw][fd]
           last == Last(s)
           t == Front([s EXCEPT ![i] = last])
<1>1. /\ w \in [list : [RW -> Seq(Fds)], index : [RW -> [Fds -> Nat]], func : [RW -> SUBSET Fds]]
      /\ s \in Seq(Fds) /\ n \in Nat /\ \A j \in 1 .. n : s[j] \in Fds /\ w.index[rw][s[j]] = j
      /\ \A g \in Fds : w.index[rw][g] # 0 => w.index[rw][g] \in 1 .. n /\ s[w.index[rw][g]] = g
  <2>1. w \in [list : [RW -> Seq(Fds)], index : [RW -> [Fds -> Nat]], func : [RW -> SUBSET Fds]]
    BY DEF WatchOk
  <2>2. s \in Seq(Fds)  BY <2>1
  <2>3. n \in Nat /\ \A j \in 1 .. n : s[j] \in Fds  BY <2>2, LenProperties, ElementOfSeq
  <2> QED  BY <2>1, <2>2, <2>3 DEF WatchOk
<1>2. CASE ~Watched(w, rw, fd)
  <2>1. v = w  BY <1>2 DEF RemoveWatch
  <2>2. \A x \in RW : w.func[x] = w.func[x] \ (IF x = rw THEN {fd} ELSE {})
    BY <1>2 DEF WatchOk, Watched
  <2> QED  BY <1>2, <2>1, <2>2
<1>3. CASE Watched(w, rw, fd)
  <2>1. i \in 1 .. n /\ s[i] = fd /\ last = s[n] /\ n \in 1 .. n /\ last \in Fds
    BY <1>1, <1>3 DEF Watched, Last
  <2>2. /\ t \in Seq(Fds) /\ Len(t) = n - 1
        /\ \A j \in 1 .. n - 1 : t[j] = IF j = i THEN last ELSE s[j]
    <3> DEFINE r == [s EXCEPT ![i] = last]
    <3>1. /\ r \in Seq(Fds) /\ Len(r) = n /\ \A j \in 1 .. n : r[j] = IF j = i THEN last ELSE s[j]
      BY <1>1, <2>1, ExceptSeq
    <3> HIDE DEF r
    <3>2. t = SubSeq(r, 1, n - 1)  BY <3>1 DEF Front, r
    <3>3. 1 \in Int /\ n - 1 \in Int /\ \A j \in 1 .. n - 1 : r[j] \in Fds  BY <1>1, <2>1, <3>1
    <3>4. /\ SubSeq(r, 1, n - 1) \in Seq(Fds)
          /\ Len(SubSeq(r, 1, n - 1)) = IF 1 <= n - 1 THEN n - 1 - 1 + 1 ELSE 0
          /\ \A j \in 1 .. n - 1 - 1 + 1 : SubSeq(r, 1, n - 1)[j] = r[1 + j - 1]
      BY <3>3, SubSeqProperties
    <3> HIDE DEF t, n
    <3> QED  BY <1>1, <2>1, <3>1, <3>2, <3>4
  <2> DEFINE k == [w.index[rw] EXCEPT ![last] = i, ![fd] = 0]
  <2>3. k \in [Fds -> Nat] /\ \A g \in Fds : k[g] = IF g = fd THEN 0 ELSE IF g = last THEN i
                                                   ELSE w.index[rw][g]
    BY <1>1, <2>1
  <2>4. /\ v.list = [w.list EXCEPT ![rw] = t] /\ v.index = [w.index EXCEPT ![rw] = k]
        /\ v.func = [w.func EXCEPT ![rw] = @ \ {fd}]
        /\ v = [list |-> v.list, index |-> v.index, func |-> v.func]
    BY <1>1, <1>3 DEF RemoveWatch
  <2> HIDE DEF v, k, t, last
  <2>5. /\ v.list[rw] = t /\ v.index[rw] = k
        /\ \A x \in RW : x # rw => v.list[x] = w.list[x] /\ v.index[x] = w.index[x]
        /\ \A x \in RW : v.func[x] = w.func[x] \ (IF x = rw THEN {fd} ELSE {})
        /\ v \in [list : [RW -> Seq(Fds)], index : [RW -> [Fds -> Nat]], func : [RW -> SUBSET Fds]]
    <3>1. v.list[rw] = t /\ v.index[rw] = k  BY <1>1, <2>4
    <3>2. \A x \in RW : x # rw => v.list[x] = w.list[x] /\ v.index[x] = w.index[x]  BY <1>1, <2>4
    <3>3. \A x \in RW : v.func[x] = w.func[x] \ (IF x = rw THEN {fd} ELSE {})  BY <1>1, <2>4
    <3>4. v.list \in [RW -> Seq(Fds)]  BY <1>1, <2>2, <2>4
    <3>5. v.index \in [RW -> [Fds -> Nat]]  BY <1>1, <2>3, <2>4
    <3>6. v.func \in [RW -> SUBSET Fds]  BY <1>1, <2>4
    <3> QED  BY <2>4, <3>1, <3>2, <3>3, <3>4, <3>5, <3>6
  <2>6. ASSUME NEW g \in Fds, k[g] # 0
        PROVE  k[g] \in 1 .. n - 1 /\ t[k[g]] = g
    <3>0. g # fd  BY <2>3, <2>6
    <3>1. CASE g = last
      <4>1. i # n /\ k[g] = i  BY <2>1, <2>3, <3>0, <3>1
      <4>2. i \in 1 .. n - 1  BY <1>1, <2>1, <4>1
      <4> QED  BY <2>2, <3>1, <4>1, <4>2
    <3>2. CASE g # last
      <4>1. k[g] = w.index[rw][g] /\ k[g] \in 1 .. n /\ s[k[g]] = g  BY <1>1, <2>3, <2>6, <3>0, <3>2
      <4>2. k[g] # n /\ k[g] # i  BY <2>1, <3>0, <3>2, <4>1
      <4>3. k[g] \in 1 .. n - 1  BY <1>1, <4>1, <4>2
      <4> QED  BY <2>2, <4>1, <4>2, <4>3
    <3> QED  BY <3>1, <3>2
  <2>7. ASSUME NEW j \in 1 .. n - 1
        PROVE  k[t[j]] = j
    <3>0. j \in 1 .. n /\ j # n  BY <1>1
    <3>1. w.index[rw][fd] = i /\ w.index[rw][last] = n  BY <1>1, <2>1
    <3>2. CASE j = i
      <4>1. t[j] = last /\ last # fd  BY <2>2, <3>0, <3>1, <3>2
      <4> QED  BY <2>1, <2>3, <3>2, <4>1
    <3>3. CASE j # i
      <4>1. t[j] = s[j] /\ w.index[rw][s[j]] = j /\ s[j] \in Fds  BY <1>1, <2>2, <3>0, <3>3
      <4>2. s[j] # fd /\ s[j] # last  BY <3>0, <3>1, <3>3, <4>1
      <4> QED  BY <2>3, <4>1, <4>2
    <3> QED  BY <3>2, <3>3
  <2>8. ASSUME NEW x \in RW, NEW g \in Fds
        PROVE  /\ v.index[x][g] # 0 => /\ v.index[x][g] \in 1 .. Len(v.list[x])
                                       /\ v.list[x][v.index[x][g]] = g
               /\ g \in v.func[x] => v.index[x][g] # 0
               /\ Watched(v, x, g) <=> Watched(w, x, g) /\ ~(x = rw /\ g = fd)
    <3>1. /\ w.index[x][g] # 0 => w.index[x][g] \in 1 .. Len(w.list[x]) /\ w.list[x][w.index[x][g]] = g
          /\ g \in w.func[x] => w.index[x][g] # 0
      BY DEF WatchOk
    <3>2. CASE x # rw  BY <2>5, <3>1, <3>2 DEF Watched
    <3>3. CASE x = rw
      <4>1. k[g] # 0 <=> w.index[rw][g] # 0 /\ g # fd
        <5>1. i # 0 /\ w.index[rw][last] # 0
          <6>1. i \in 1 .. n /\ n \in 1 .. n /\ w.index[rw][last] = n  BY <1>1, <2>1
          <6> HIDE DEF i, n
          <6> QED  BY <1>1, <6>1
        <5> QED  BY <2>3, <5>1
      <4>2. k[g] # 0 => k[g] \in 1 .. Len(t) /\ t[k[g]] = g  BY <2>2, <2>6
      <4>3. v.func[x] = w.func[x] \ {fd}  BY <2>5, <3>3
      <4> QED  BY <2>5, <3>1, <3>3, <4>1, <4>2, <4>3 DEF Watched
    <3> QED  BY <3>2, <3>3
  <2>9. ASSUME NEW x \in RW, NEW j \in 1 .. Len(v.list[x])
        PROVE  v.index[x][v.list[x][j]] = j
    <3>1. CASE x # rw  BY <2>5, <3>1, SMTT(40) DEF WatchOk
    <3>2. CASE x = rw  BY <2>2, <2>5, <2>7, <3>2
    <3> QED  BY <3>1, <3>2
  <2>10. WatchOk(v)  BY <2>5, <2>8, <2>9 DEF WatchOk
  <2> QED  BY <2>5, <2>8, <2>10 DEF v
<1> QED  BY <1>2, <1>3

(* unwatch takes the descriptor out of both lists. *)
LEMMA UnwatchOk ==
  ASSUME NEW w, WatchOk(w), NEW fd \in Fds
  PROVE  LET v == Unwatch(w, fd)
         IN /\ WatchOk(v)
            /\ \A x \in RW, g \in Fds : Watched(v, x, g) <=> Watched(w, x, g) /\ g # fd
            /\ \A x \in RW : v.func[x] = w.func[x] \ {fd}
<1> DEFINE u == RemoveWatch(w, "read", fd)
           v == RemoveWatch(u, "write", fd)
<1>1. "read" \in RW /\ "write" \in RW /\ \A x \in RW : x = "read" \/ x = "write"  BY DEF RW
<1>2. /\ WatchOk(u)
      /\ \A x \in RW, g \in Fds : Watched(u, x, g) <=> Watched(w, x, g) /\ ~(x = "read" /\ g = fd)
      /\ \A x \in RW : u.func[x] = w.func[x] \ (IF x = "read" THEN {fd} ELSE {})
  BY <1>1, RemoveWatchOk
<1> HIDE DEF u
<1>3. /\ WatchOk(v)
      /\ \A x \in RW, g \in Fds : Watched(v, x, g) <=> Watched(u, x, g) /\ ~(x = "write" /\ g = fd)
      /\ \A x \in RW : v.func[x] = u.func[x] \ (IF x = "write" THEN {fd} ELSE {})
  BY <1>1, <1>2, RemoveWatchOk
<1> HIDE DEF v
<1>4. Unwatch(w, fd) = v  BY DEF Unwatch, u, v
<1>5. \A x \in RW, g \in Fds : Watched(v, x, g) <=> Watched(w, x, g) /\ g # fd  BY <1>1, <1>2, <1>3
<1>6. ASSUME NEW x \in RW PROVE v.func[x] = w.func[x] \ {fd}  BY <1>1, <1>2, <1>3
<1> QED  BY <1>3, <1>4, <1>5, <1>6

-----------------------------------------------------------------------------
(* The ring of signals *)

(* An index of the ring, for a number less than its length away from it. *)
LEMMA RingIndex ==
  ASSUME NEW n \in Nat \ {0}, NEW a \in -n .. n
  PROVE  a % n = (IF a < 0 THEN a + n ELSE IF a = n THEN 0 ELSE a) /\ a % n \in 0 .. n - 1
<1>1. CASE a < 0
  <2>1. a \in -n .. -1  BY <1>1
  <2>2. a % n = a + n  BY <2>1
  <2> QED  BY <1>1, <2>1, <2>2
<1>2. CASE a = n
  <2>1. n % n = 0  OBVIOUS
  <2> QED  BY <1>2, <2>1
<1>3. CASE a >= 0 /\ a # n
  <2>1. a \in 0 .. n - 1  BY <1>3
  <2>2. a % n = a  BY <2>1
  <2> QED  BY <1>3, <2>1, <2>2
<1> QED  BY <1>1, <1>2, <1>3

(* The signal handler adds a signal, and loses the oldest one when the ring is full. *)
LEMMA SignalHandlerOk ==
  ASSUME NEW b, NEW u, RingHolds(b, u), NEW sig \in Signals
  PROVE  RingHolds(SignalHandler(b, sig),
                   LET v == Append(u, sig) IN IF Len(v) > MAX_SIGNALS THEN Tail(v) ELSE v)
<1> DEFINE n == MAX_SIGNALS
           l == b.lastI
           c == b.nSig
           i == (l + 1) % n
           v == Append(u, sig)
           z == IF Len(v) > n THEN Tail(v) ELSE v
           h == SignalHandler(b, sig)
<1>1. /\ n \in Nat \ {0} /\ l \in -1 .. n - 1 /\ c \in 0 .. n /\ (l = -1 => c = 0) /\ c = Len(u)
      /\ b.sigs \in [0 .. n - 1 -> Signals \cup {0}] /\ u \in Seq(Signals)
      /\ \A k \in 1 .. c : b.sigs[(l - c + k) % n] = u[k]
  BY SignalConstants DEF RingHolds
<1>2. i \in 0 .. n - 1 /\ i = IF l + 1 = n THEN 0 ELSE l + 1
  <2>1. l + 1 \in -n .. n /\ ~(l + 1 < 0)  BY <1>1
  <2> QED  BY <1>1, <2>1, RingIndex
<1>3. /\ h = [lastI |-> i, nSig |-> IF c + 1 >= n THEN n ELSE c + 1, sigs |-> [b.sigs EXCEPT ![i] = sig]]
      /\ h.lastI = i /\ h.nSig = (IF c + 1 >= n THEN n ELSE c + 1)
      /\ h.sigs = [b.sigs EXCEPT ![i] = sig]
  BY DEF SignalHandler
<1> HIDE DEF h, i, l, c
<1>4. /\ v \in Seq(Signals) /\ Len(v) = c + 1 /\ v[c + 1] = sig /\ \A k \in 1 .. c : v[k] = u[k]
      /\ v # <<>>
  BY <1>1, AppendProperties
<1> HIDE DEF v
<1>5. /\ h.sigs \in [0 .. n - 1 -> Signals \cup {0}]
      /\ \A k \in 0 .. n - 1 : h.sigs[k] = IF k = i THEN sig ELSE b.sigs[k]
  BY <1>1, <1>2, <1>3
<1>6. CASE c = n
  <2>1. /\ z \in Seq(Signals) /\ Len(z) = n /\ \A k \in 1 .. n : z[k] = v[k + 1]
    <3>1. z = Tail(v)  BY <1>1, <1>4, <1>6
    <3>2. /\ Tail(v) \in Seq(Signals) /\ Len(Tail(v)) = Len(v) - 1
          /\ \A k \in 1 .. Len(Tail(v)) : Tail(v)[k] = v[k + 1]
      BY <1>4, HeadTailProperties
    <3> QED  BY <1>1, <1>4, <1>6, <3>1, <3>2
  <2>2. h.nSig = n  BY <1>1, <1>3, <1>6
  <2> HIDE DEF z
  <2>3. ASSUME NEW k \in 1 .. n
        PROVE  h.sigs[(i - n + k) % n] = z[k]
    <3>1. k \in Nat /\ k <= n /\ k >= 1 /\ i - n + k \in -n .. n  BY <1>1, <1>2
    <3>2. (i - n + k) % n \in 0 .. n - 1
          /\ (i - n + k) % n = IF i - n + k < 0 THEN i - n + k + n ELSE IF i - n + k = n THEN 0 ELSE i - n + k
      BY <1>1, <1>2, <3>1, RingIndex
    <3>3. CASE k = n
      <4>1. (i - n + k) % n = i  BY <1>1, <1>2, <3>2, <3>3
      <4> QED  BY <1>2, <1>4, <1>5, <1>6, <2>1, <3>3, <4>1
    <3>4. CASE k # n
      <4>1. k + 1 \in 1 .. n /\ l - n + (k + 1) \in -n .. n  BY <1>1, <3>1, <3>4
      <4>2. (l - n + (k + 1)) % n = IF l - n + (k + 1) < 0 THEN l - n + (k + 1) + n
                                    ELSE IF l - n + (k + 1) = n THEN 0 ELSE l - n + (k + 1)
        BY <1>1, <4>1, RingIndex
      <4>3. (i - n + k) % n = (l - n + (k + 1)) % n /\ (i - n + k) % n # i
        BY <1>1, <1>2, <3>1, <3>2, <3>4, <4>2
      <4>4. h.sigs[(i - n + k) % n] = u[k + 1]  BY <1>1, <1>5, <1>6, <3>2, <4>1, <4>3
      <4>5. z[k] = u[k + 1]  BY <1>4, <1>6, <2>1, <4>1
      <4> QED  BY <4>4, <4>5
    <3> QED  BY <3>3, <3>4
  <2>4. h.nSig = Len(z) /\ h.lastI # -1  BY <1>2, <1>3, <2>1, <2>2
  <2>5. h \in [lastI : -1 .. n - 1, nSig : 0 .. n, sigs : [0 .. n - 1 -> Signals \cup {0}]]
    BY <1>1, <1>2, <1>3, <1>5, <2>2
  <2>6. \A k \in 1 .. Len(z) : h.sigs[(h.lastI - h.nSig + k) % n] = z[k]
    BY <1>3, <2>1, <2>2, <2>3
  <2>7. RingHolds(h, z)  BY <2>1, <2>4, <2>5, <2>6 DEF RingHolds
  <2> QED  BY <2>7 DEF h, z, v
<1>7. CASE c # n
  <2>1. z = v /\ Len(z) = c + 1 /\ h.nSig = c + 1 /\ c + 1 \in 1 .. n  BY <1>1, <1>3, <1>4, <1>7
  <2> HIDE DEF z
  <2>3. ASSUME NEW k \in 1 .. c + 1
        PROVE  h.sigs[(i - (c + 1) + k) % n] = v[k]
    <3>1. k \in Nat /\ k <= c + 1 /\ k >= 1 /\ i - (c + 1) + k \in -n .. n  BY <1>1, <1>2, <2>1
    <3>2. (i - (c + 1) + k) % n \in 0 .. n - 1
          /\ (i - (c + 1) + k) % n = IF i - (c + 1) + k < 0 THEN i - (c + 1) + k + n
                                     ELSE IF i - (c + 1) + k = n THEN 0 ELSE i - (c + 1) + k
      BY <1>1, <1>2, <3>1, RingIndex
    <3>3. CASE k = c + 1
      <4>1. (i - (c + 1) + k) % n = i  BY <1>1, <1>2, <3>2, <3>3
      <4> QED  BY <1>2, <1>4, <1>5, <3>3, <4>1
    <3>4. CASE k # c + 1
      <4>1. k \in 1 .. c /\ l - c + k \in -n .. n  BY <1>1, <3>1, <3>4, SMTT(40)
      <4>2. (l - c + k) % n = IF l - c + k < 0 THEN l - c + k + n ELSE IF l - c + k = n THEN 0 ELSE l - c + k
        BY <1>1, <4>1, RingIndex
      <4>3. (i - (c + 1) + k) % n = (l - c + k) % n /\ (i - (c + 1) + k) % n # i
        <5>1. CASE l + 1 = n
          <6>1. i = 0  BY <1>2, <5>1
          <6>2. c \in Int /\ k \in Int /\ n \in Int /\ k < c + 1 /\ c + 1 <= n /\ 1 <= k  BY <1>1, <2>1, <4>1
          <6>3. (i - (c + 1) + k) % n = k - c - 1 + n  BY <3>2, <6>1, <6>2
          <6>4. l = n - 1  BY <1>1, <5>1
          <6>5. (l - c + k) % n = k - c - 1 + n  BY <4>2, <6>2, <6>4
          <6> QED  BY <6>1, <6>2, <6>3, <6>5
        <5>2. CASE l + 1 # n
          <6>1. i = l + 1  BY <1>2, <5>2
          <6>2. i - (c + 1) + k = l - c + k  BY <1>1, <3>1, <6>1
          <6>3. (i - (c + 1) + k) % n = (l - c + k) % n  BY <6>2
          <6>4. (l - c + k) % n # l + 1  BY <1>1, <2>1, <4>1, <4>2, <5>2
          <6> QED  BY <6>1, <6>3, <6>4
        <5> QED  BY <5>1, <5>2
      <4> QED  BY <1>1, <1>4, <1>5, <3>2, <4>1, <4>3
    <3> QED  BY <3>3, <3>4
  <2>4. h.nSig = Len(z) /\ h.lastI # -1  BY <1>2, <1>3, <2>1
  <2>5. h \in [lastI : -1 .. n - 1, nSig : 0 .. n, sigs : [0 .. n - 1 -> Signals \cup {0}]]
    BY <1>1, <1>2, <1>3, <1>5, <2>1
  <2>6. \A k \in 1 .. Len(z) : h.sigs[(h.lastI - h.nSig + k) % n] = z[k]
    BY <1>3, <2>1, <2>3
  <2>7. RingHolds(h, z)  BY <1>4, <2>1, <2>4, <2>5, <2>6 DEF RingHolds
  <2> QED  BY <2>7 DEF h, z, v
<1> QED  BY <1>6, <1>7

(* The index computed before the delivery is that of the oldest signal. *)
LEMMA FirstPendingOk ==
  ASSUME NEW b, NEW u, RingHolds(b, u), u # <<>>
  PROVE  FirstPending(b) = (b.lastI - b.nSig + 1) % MAX_SIGNALS
<1>1. /\ MAX_SIGNALS \in Nat \ {0} /\ b.lastI \in -1 .. MAX_SIGNALS - 1 /\ b.nSig \in 1 .. MAX_SIGNALS
      /\ b.lastI # -1
  BY SignalConstants, EmptySeq DEF RingHolds
<1>2. b.lastI - b.nSig + 1 \in -MAX_SIGNALS .. MAX_SIGNALS - 1  BY <1>1
<1> QED  BY <1>1, <1>2, RingIndex, SMTT(40) DEF FirstPending

(* A delivery takes the oldest signal, and the next index is that of the next one. *)
LEMMA DeliverOk ==
  ASSUME NEW b, NEW u, RingHolds(b, u), b.nSig > 0
  PROVE  /\ RingHolds(Deliver(b), Tail(u)) /\ u # <<>>
         /\ b.sigs[(b.lastI - b.nSig + 1) % MAX_SIGNALS] = Head(u)
         /\ (((b.lastI - b.nSig + 1) % MAX_SIGNALS) + 1) % MAX_SIGNALS
              = (Deliver(b).lastI - Deliver(b).nSig + 1) % MAX_SIGNALS
<1> DEFINE n == MAX_SIGNALS
           l == b.lastI
           c == b.nSig
           z == Tail(u)
           h == Deliver(b)
<1>1. /\ n \in Nat \ {0} /\ l \in 0 .. n - 1 /\ c \in 1 .. n /\ c = Len(u) /\ u \in Seq(Signals)
      /\ \A k \in 1 .. c : b.sigs[(l - c + k) % n] = u[k]
      /\ b \in [lastI : -1 .. n - 1, nSig : 0 .. n, sigs : [0 .. n - 1 -> Signals \cup {0}]]
  BY SignalConstants DEF RingHolds
<1>2. u # <<>>  BY <1>1, EmptySeq
<1>3. /\ z \in Seq(Signals) /\ Len(z) = c - 1 /\ \A k \in 1 .. c - 1 : z[k] = u[k + 1]
      /\ Head(u) = u[1]
  BY <1>1, <1>2, HeadTailProperties
<1>4. /\ h.lastI = l /\ h.nSig = c - 1 /\ h.sigs = b.sigs
      /\ h \in [lastI : -1 .. n - 1, nSig : 0 .. n, sigs : [0 .. n - 1 -> Signals \cup {0}]]
  <2>1. h.lastI = l /\ h.nSig = c - 1 /\ h.sigs = b.sigs /\ h = [lastI |-> h.lastI, nSig |-> h.nSig, sigs |-> h.sigs]
    BY <1>1 DEF Deliver
  <2>2. b.sigs \in [0 .. n - 1 -> Signals \cup {0}] /\ c - 1 \in 0 .. n /\ l \in -1 .. n - 1  BY <1>1
  <2> HIDE DEF h, l, c
  <2> QED  BY <2>1, <2>2
<1> HIDE DEF h, z, l, c
<1>5. ASSUME NEW k \in 1 .. Len(z)
      PROVE  h.sigs[(h.lastI - h.nSig + k) % n] = z[k]
  <2>1. k + 1 \in 1 .. c /\ h.lastI - h.nSig + k = l - c + (k + 1) /\ k \in 1 .. c - 1  BY <1>1, <1>3, <1>4
  <2> QED  BY <1>1, <1>3, <1>4, <2>1
<1>6. RingHolds(h, z)  BY <1>1, <1>3, <1>4, <1>5 DEF RingHolds
<1>7. b.sigs[(l - c + 1) % n] = Head(u)  BY <1>1, <1>3
<1>8. (((l - c + 1) % n) + 1) % n = (l - (c - 1) + 1) % n
  <2>1. l - c + 1 \in -n .. n - 1 /\ l - (c - 1) + 1 \in -n .. n  BY <1>1
  <2>2. (l - c + 1) % n = IF l - c + 1 < 0 THEN l - c + 1 + n
                         ELSE IF l - c + 1 = n THEN 0 ELSE l - c + 1
    <3>1. l - c + 1 \in -n .. n  BY <1>1, <2>1
    <3> QED  BY <1>1, <3>1, RingIndex
  <2>3. (l - (c - 1) + 1) % n = IF l - (c - 1) + 1 < 0 THEN l - (c - 1) + 1 + n
                                ELSE IF l - (c - 1) + 1 = n THEN 0 ELSE l - (c - 1) + 1
    BY <1>1, <2>1, RingIndex
  <2> DEFINE m == ((l - c + 1) % n) + 1
  <2>4. m \in -n .. n  BY <1>1, <2>1, <2>2, SMTT(40)
  <2>5. m % n = IF m < 0 THEN m + n ELSE IF m = n THEN 0 ELSE m  BY <1>1, <2>4, RingIndex
  <2>6. l - (c - 1) + 1 = l - c + 1 + 1  BY <1>1
  <2>7. CASE l - c + 1 < 0
    <3>1. m = l - c + 1 + n + 1  BY <1>1, <2>1, <2>2, <2>7
    <3>2. CASE l - c + 1 = -1
      <4>1. m = n /\ m % n = 0  BY <1>1, <2>1, <2>4, <2>5, <3>1, <3>2, SMTT(40)
      <4>2. (l - (c - 1) + 1) % n = 0  BY <1>1, <2>1, <2>3, <2>6, <3>2
      <4> QED  BY <4>1, <4>2
    <3>3. CASE l - c + 1 # -1
      <4>1. m % n = m  BY <1>1, <2>1, <2>4, <2>5, <2>7, <3>1, <3>3, SMTT(40)
      <4>2. (l - (c - 1) + 1) % n = m  BY <1>1, <2>1, <2>3, <2>6, <2>7, <3>1, <3>3
      <4> QED  BY <4>1, <4>2
    <3> QED  BY <3>2, <3>3
  <2>8. CASE ~(l - c + 1 < 0)
    <3>1. m = l - (c - 1) + 1  BY <1>1, <2>1, <2>2, <2>6, <2>8, SMTT(40)
    <3> QED  BY <3>1
  <2> QED  BY <2>7, <2>8
<1> QED  BY <1>2, <1>4, <1>6, <1>7, <1>8 DEF h, z, l, c

-----------------------------------------------------------------------------
(* Tasks *)

(* An order of a finite set has each of its elements once. *)
LEMMA OrderOk ==
  ASSUME NEW S, IsFiniteSet(S), NEW o \in SetToSeqs(S)
  PROVE  /\ o \in Seq(S) /\ \A i, j \in 1 .. Len(o) : o[i] = o[j] => i = j
         /\ \A x \in S : \E i \in 1 .. Len(o) : o[i] = x
<1> DEFINE n == Cardinality(S)
           D == 1 .. n
<1>1. n \in Nat /\ ExistsBijection(D, S)  BY FS_CardinalityType
<1>2. o \in [D -> S] /\ \A i, j \in D : i # j => o[i] # o[j]  BY DEF SetToSeqs
<1>3. o \in Seq(S) /\ Len(o) = n  BY <1>1, <1>2
<1>4. IsFiniteSet(D) /\ Cardinality(D) = n
  <2>1. IsFiniteSet(D)  BY <1>1, FS_Interval
  <2>2. Cardinality(S) = Cardinality(D)  BY <1>1, <2>1, FS_Bijection
  <2> QED  BY <2>1, <2>2
<1>5. o \in Injection(D, S)  BY <1>2 DEF Injection, IsInjective
<1> HIDE DEF D
<1>6. o \in Surjection(D, S)  BY <1>4, <1>5, FS_Injection
<1>7. \A x \in S : \E i \in D : o[i] = x  BY <1>6 DEF Surjection
<1> QED  BY <1>2, <1>3, <1>7 DEF D

(* SetToSeq is an order of a finite set. *)
LEMMA SetToSeqOk ==
  ASSUME NEW S, IsFiniteSet(S)
  PROVE  SetToSeq(S) \in SetToSeqs(S)
<1> DEFINE D == 1 .. Cardinality(S)
<1>1. ExistsBijection(D, S)  BY FS_CardinalityType
<1>2. \E f \in [D -> S] : IsInjective(f)  BY <1>1 DEF ExistsBijection, Bijection, Injection
<1>3. SetToSeq(S) \in [D -> S] /\ IsInjective(SetToSeq(S))  BY <1>2 DEF SetToSeq
<1> QED  BY <1>3 DEF SetToSeqs, IsInjective

Woken(k, ts, event) ==
  [t \in Tasks |-> IF t \in ts THEN [k[t] EXCEPT !.st = "ready", !.event = event] ELSE k[t]]

(* Tasks that wake join the list of the ready ones. *)
LEMMA WokenOk ==
  ASSUME NEW k, NEW r, NEW run, TasksHold(k, r, run), NEW ts \in SUBSET Tasks,
         \A t \in ts : k[t].st = "waiting", NEW event \in Events, NEW o \in SetToSeqs(ts)
  PROVE  TasksHold(Woken(k, ts, event), r \o o, run)
<1> DEFINE z == Woken(k, ts, event)
           q == r \o o
<1>1. /\ k \in [Tasks -> Task] /\ r \in Seq(Tasks) /\ run \in Tasks \cup {None}
      /\ Len(r) \in Nat /\ \A i \in 1 .. Len(r) : r[i] \in Tasks
  BY LenProperties, ElementOfSeq DEF TasksHold
<1>2. /\ o \in Seq(Tasks) /\ Len(o) \in Nat /\ \A i \in 1 .. Len(o) : o[i] \in ts
      /\ \A i, j \in 1 .. Len(o) : o[i] = o[j] => i = j
      /\ \A x \in ts : \E i \in 1 .. Len(o) : o[i] = x
  <2>1. IsFiniteSet(ts)  BY LoopConstants, FS_Subset
  <2>2. /\ o \in Seq(ts) /\ \A i, j \in 1 .. Len(o) : o[i] = o[j] => i = j
        /\ \A x \in ts : \E i \in 1 .. Len(o) : o[i] = x
    BY <2>1, OrderOk
  <2>3. Len(o) \in Nat /\ \A i \in 1 .. Len(o) : o[i] \in ts  BY <2>2, LenProperties, ElementOfSeq
  <2>4. o \in Seq(Tasks)  BY <2>2, SeqMonotonic
  <2> QED  BY <2>2, <2>3, <2>4
<1>3. /\ q \in Seq(Tasks) /\ Len(q) = Len(r) + Len(o)
      /\ \A i \in 1 .. Len(r) + Len(o) : q[i] = IF i <= Len(r) THEN r[i] ELSE o[i - Len(r)]
  BY <1>1, <1>2, ConcatProperties
<1> HIDE DEF q
<1>4. ASSUME NEW t \in Tasks
      PROVE  /\ z[t] \in Task
             /\ t \in ts => z[t].st = "ready"
             /\ t \notin ts => z[t] = k[t]
  <2>1. k[t] \in Task /\ "ready" \in {"ready", "waiting", "dead"}  BY <1>1
  <2>2. z[t] = IF t \in ts THEN [k[t] EXCEPT !.st = "ready", !.event = event] ELSE k[t]  BY DEF Woken
  <2>3. [k[t] EXCEPT !.st = "ready", !.event = event] \in Task
        /\ [k[t] EXCEPT !.st = "ready", !.event = event].st = "ready"
    BY <2>1 DEF Task
  <2> QED  BY <2>1, <2>2, <2>3
<1>5. z \in [Tasks -> Task]
  <2>1. DOMAIN z = Tasks /\ z = [t \in Tasks |-> z[t]]  BY DEF Woken
  <2> QED  BY <1>4, <2>1
<1> HIDE DEF z
<1>6. ASSUME NEW i \in 1 .. Len(q)
      PROVE  \/ i \in 1 .. Len(r) /\ q[i] = r[i] /\ q[i] \notin ts
             \/ i - Len(r) \in 1 .. Len(o) /\ q[i] = o[i - Len(r)] /\ q[i] \in ts
  <2>1. CASE i <= Len(r)
    <3>1. i \in 1 .. Len(r) /\ q[i] = r[i]  BY <1>1, <1>2, <1>3, <2>1
    <3>2. k[r[i]].st = "ready"  BY <3>1 DEF TasksHold
    <3>3. r[i] \notin ts  BY <3>2
    <3> QED  BY <3>1, <3>3
  <2>2. CASE ~(i <= Len(r))
    <3>1. i - Len(r) \in 1 .. Len(o) /\ q[i] = o[i - Len(r)]  BY <1>1, <1>2, <1>3, <2>2
    <3> QED  BY <1>2, <3>1
  <2> QED  BY <2>1, <2>2
<1>7. ASSUME NEW i \in 1 .. Len(q), NEW j \in 1 .. Len(q), q[i] = q[j]
      PROVE  i = j
  <2>1. CASE q[i] \in ts
    <3>1. i - Len(r) \in 1 .. Len(o) /\ q[i] = o[i - Len(r)]  BY <1>6, <2>1
    <3>2. j - Len(r) \in 1 .. Len(o) /\ q[j] = o[j - Len(r)]  BY <1>6, <1>7, <2>1
    <3>3. i - Len(r) = j - Len(r)  BY <1>2, <1>7, <3>1, <3>2
    <3>4. i \in Int /\ j \in Int  OBVIOUS
    <3> QED  BY <1>1, <3>3, <3>4
  <2>2. CASE q[i] \notin ts
    <3>1. i \in 1 .. Len(r) /\ q[i] = r[i]  BY <1>6, <2>2
    <3>2. j \in 1 .. Len(r) /\ q[j] = r[j]  BY <1>6, <1>7, <2>2
    <3> QED  BY <1>7, <3>1, <3>2, ZenonT(60) DEF TasksHold
  <2> QED  BY <2>1, <2>2
<1>8. ASSUME NEW i \in 1 .. Len(q)
      PROVE  z[q[i]].st = "ready" /\ q[i] # run
  <2>0. q[i] \in Tasks  BY <1>3, ElementOfSeq
  <2>1. CASE q[i] \in ts
    <3>1. k[q[i]].st = "waiting"  BY <2>1
    <3> QED  BY <1>4, <2>0, <2>1, <3>1 DEF TasksHold
  <2>2. CASE q[i] \notin ts
    <3>1. i \in 1 .. Len(r) /\ q[i] = r[i]  BY <1>6, <2>2
    <3>2. k[r[i]].st = "ready" /\ r[i] # run  BY <3>1 DEF TasksHold
    <3> QED  BY <1>4, <2>0, <2>2, <3>1, <3>2
  <2> QED  BY <2>1, <2>2
<1>9. ASSUME NEW t \in Tasks
      PROVE  /\ z[t].st = "waiting" => z[t].event = None /\ t # run
             /\ \/ z[t].st = "waiting"
                \/ \E i \in 1 .. Len(q) : q[i] = t
                \/ z[t].due = NoDate /\ z[t].rw = None /\ z[t].event = None
  <2>1. CASE t \in ts
    <3>1. PICK i \in 1 .. Len(o) : o[i] = t  BY <1>2, <2>1
    <3> DEFINE j == i + Len(r)
    <3>2. j \in 1 .. Len(q) /\ j \in 1 .. Len(r) + Len(o) /\ ~(j <= Len(r)) /\ j - Len(r) = i
      BY <1>1, <1>2, <1>3
    <3>3. q[j] = t  BY <1>3, <3>1, <3>2
    <3>4. z[t].st # "waiting"  BY <1>4, <2>1
    <3> HIDE DEF j
    <3> QED  BY <3>2, <3>3, <3>4
  <2>2. CASE t \notin ts
    <3>1. z[t] = k[t]  BY <1>4, <2>2
    <3>2. /\ k[t].st = "waiting" => k[t].event = None /\ t # run
          /\ \/ k[t].st = "waiting"
             \/ \E i \in 1 .. Len(r) : r[i] = t
             \/ k[t].due = NoDate /\ k[t].rw = None /\ k[t].event = None
      BY DEF TasksHold
    <3>3. ASSUME NEW i \in 1 .. Len(r)
          PROVE  i \in 1 .. Len(q) /\ q[i] = r[i]
      BY <1>1, <1>2, <1>3
    <3> QED  BY <3>1, <3>2, <3>3
  <2> QED  BY <2>1, <2>2
<1>10. TasksHold(z, q, run)  BY <1>1, <1>3, <1>5, <1>7, <1>8, <1>9 DEF TasksHold
<1> QED  BY <1>10 DEF z, q

(* The first ready task is taken out of the list, and runs. *)
LEMMA ResumedOk ==
  ASSUME NEW k, NEW r, TasksHold(k, r, None), r # <<>>
  PROVE  TasksHold([k EXCEPT ![Head(r)] = NoTask], Tail(r), Head(r)) /\ Head(r) \in Tasks
<1> DEFINE h == Head(r)
           z == [k EXCEPT ![h] = NoTask]
           q == Tail(r)
<1>1. /\ k \in [Tasks -> Task] /\ r \in Seq(Tasks) /\ Len(r) \in Nat \ {0}
      /\ \A i \in 1 .. Len(r) : r[i] \in Tasks
  <2>1. k \in [Tasks -> Task] /\ r \in Seq(Tasks)  BY DEF TasksHold
  <2> QED  BY <2>1, EmptySeq, ElementOfSeq
<1>2. /\ q \in Seq(Tasks) /\ Len(q) = Len(r) - 1 /\ \A i \in 1 .. Len(r) - 1 : q[i] = r[i + 1]
      /\ h = r[1] /\ h \in Tasks
  BY <1>1, HeadTailProperties
<1> HIDE DEF q, h
<1>3. NoTask \in Task /\ NoTask.st = "ready" /\ NoTask.due = NoDate /\ NoTask.rw = None /\ NoTask.event = None
  BY DEF NoTask, Task, Events, Dates
<1>4. z \in [Tasks -> Task] /\ \A t \in Tasks : z[t] = IF t = h THEN NoTask ELSE k[t]
  BY <1>1, <1>2, <1>3
<1> HIDE DEF z
<1>5. ASSUME NEW i \in 1 .. Len(q)
      PROVE  i + 1 \in 1 .. Len(r) /\ i + 1 # 1 /\ q[i] = r[i + 1] /\ r[i + 1] # h
  <2>1. i + 1 \in 1 .. Len(r) /\ i + 1 # 1 /\ 1 \in 1 .. Len(r)  BY <1>1, <1>2
  <2>2. q[i] = r[i + 1]  BY <1>1, <1>2
  <2>3. r[i + 1] # r[1]  BY <2>1 DEF TasksHold
  <2> QED  BY <1>2, <2>1, <2>2, <2>3
<1>6. ASSUME NEW i \in 1 .. Len(q), NEW j \in 1 .. Len(q), q[i] = q[j]
      PROVE  i = j
  <2>1. r[i + 1] = r[j + 1] /\ i + 1 \in 1 .. Len(r) /\ j + 1 \in 1 .. Len(r)  BY <1>5, <1>6
  <2>2. i + 1 = j + 1  BY <2>1 DEF TasksHold
  <2> QED  BY <2>2
<1>7. ASSUME NEW i \in 1 .. Len(q)
      PROVE  z[q[i]].st = "ready" /\ q[i] # h
  <2>1. k[r[i + 1]].st = "ready" /\ r[i + 1] \in Tasks  BY <1>1, <1>5 DEF TasksHold
  <2> QED  BY <1>4, <1>5, <2>1
<1>8. ASSUME NEW t \in Tasks
      PROVE  /\ z[t].st = "waiting" => z[t].event = None /\ t # h
             /\ \/ z[t].st = "waiting"
                \/ \E i \in 1 .. Len(q) : q[i] = t
                \/ z[t].due = NoDate /\ z[t].rw = None /\ z[t].event = None
  <2>1. CASE t = h  BY <1>3, <1>4, <2>1
  <2>2. CASE t # h
    <3>1. z[t] = k[t]  BY <1>4, <2>2
    <3>2. /\ k[t].st = "waiting" => k[t].event = None
          /\ \/ k[t].st = "waiting"
             \/ \E i \in 1 .. Len(r) : r[i] = t
             \/ k[t].due = NoDate /\ k[t].rw = None /\ k[t].event = None
      BY DEF TasksHold
    <3>3. ASSUME NEW i \in 1 .. Len(r), r[i] = t
          PROVE  \E j \in 1 .. Len(q) : q[j] = t
      <4>1. i # 1  BY <1>2, <2>2, <3>3
      <4>2. i - 1 \in 1 .. Len(r) - 1 /\ (i - 1) + 1 = i  BY <1>1, <4>1
      <4>3. q[i - 1] = t /\ i - 1 \in 1 .. Len(q)  BY <1>2, <3>3, <4>2
      <4> QED  BY <4>3
    <3> QED  BY <2>2, <3>1, <3>2, <3>3
  <2> QED  BY <2>1, <2>2
<1>9. TasksHold(z, q, h)  BY <1>2, <1>4, <1>6, <1>7, <1>8 DEF TasksHold
<1> QED  BY <1>2, <1>9 DEF z, q, h

(* The running task waits, or ends; a task that waits is killed. *)
LEMMA StoppedOk ==
  ASSUME NEW k, NEW r, NEW run, TasksHold(k, r, run), NEW t \in Tasks, NEW x \in Task,
         NEW after \in {None, run}, k[t].st = "waiting" \/ (t = run /\ after = None),
         x.event = None, x.st = "waiting" \/ (x.due = NoDate /\ x.rw = None),
         x.st = "waiting" => t = run /\ after = None
  PROVE  TasksHold([k EXCEPT ![t] = x], r, after)
<1> DEFINE z == [k EXCEPT ![t] = x]
<1>1. /\ k \in [Tasks -> Task] /\ r \in Seq(Tasks) /\ run \in Tasks \cup {None}
      /\ \A i \in 1 .. Len(r) : r[i] \in Tasks
  BY ElementOfSeq DEF TasksHold
<1>2. z \in [Tasks -> Task] /\ \A u \in Tasks : z[u] = IF u = t THEN x ELSE k[u]  BY <1>1
<1> HIDE DEF z
<1>3. after \in Tasks \cup {None}  BY <1>1
<1>4. ASSUME NEW i \in 1 .. Len(r)
      PROVE  z[r[i]].st = "ready" /\ r[i] # after
  <2>1. k[r[i]].st = "ready" /\ r[i] # run /\ r[i] # None /\ r[i] \in Tasks
    BY <1>1, LoopConstants DEF TasksHold
  <2> QED  BY <1>2, <2>1
<1>5. ASSUME NEW u \in Tasks
      PROVE  /\ z[u].st = "waiting" => z[u].event = None /\ u # after
             /\ \/ z[u].st = "waiting"
                \/ \E i \in 1 .. Len(r) : r[i] = u
                \/ z[u].due = NoDate /\ z[u].rw = None /\ z[u].event = None
  <2>1. u # None  BY LoopConstants
  <2>2. CASE u = t  BY <1>2, <2>1, <2>2
  <2>3. CASE u # t
    <3>1. z[u] = k[u]  BY <1>2, <2>3
    <3>2. k[u].st = "waiting" => k[u].event = None /\ u # run  BY DEF TasksHold
    <3>3. \/ k[u].st = "waiting"
          \/ \E i \in 1 .. Len(r) : r[i] = u
          \/ k[u].due = NoDate /\ k[u].rw = None /\ k[u].event = None
      BY DEF TasksHold
    <3> QED  BY <2>1, <3>1, <3>2, <3>3
  <2> QED  BY <2>2, <2>3
<1>6. \A i, j \in 1 .. Len(r) : r[i] = r[j] => i = j  BY DEF TasksHold
<1>7. TasksHold(z, r, after)  BY <1>1, <1>2, <1>3, <1>4, <1>5, <1>6 DEF TasksHold
<1> QED  BY <1>7 DEF z

(* What is registered after addevent, removetimer, and step. *)
LEMMA AddedOk ==
  ASSUME NEW e, EventsOk(e), NEW timer \in Entry, NEW d \in Nat
  PROVE  LET f == AddEvent(e, timer, d)
         IN /\ EventsOk(f)
            /\ \A z, x : Registered(f, z, x) <=> Registered(e, z, x) \/ (z = timer /\ x = d)
            /\ \A x : x # d => EntriesAt(f, x) = EntriesAt(e, x)
<1> DEFINE f == AddEvent(e, timer, d)
<1>1. /\ EventsOk(f) /\ DOMAIN f.at = DOMAIN e.at \cup {d}
      /\ \A x \in DOMAIN f.at : f.at[x] = IF x = d THEN EntriesAt(e, d) \cup {timer} ELSE e.at[x]
  BY AddEventOk
<1> HIDE DEF f
<1>2. ASSUME NEW z, NEW x
      PROVE  Registered(f, z, x) <=> Registered(e, z, x) \/ (z = timer /\ x = d)
  <2>1. CASE x = d  BY <1>1, <2>1 DEF Registered, EntriesAt
  <2>2. CASE x # d  BY <1>1, <2>2 DEF Registered, EntriesAt
  <2> QED  BY <2>1, <2>2
<1>3. \A x : x # d => EntriesAt(f, x) = EntriesAt(e, x)  BY <1>1 DEF EntriesAt
<1> QED  BY <1>1, <1>2, <1>3 DEF f

(* What is left when removetimer took the timers gone out: the dates stay. *)
LEMMA RemovedOk ==
  ASSUME NEW e, EventsOk(e), NEW gone
  PROVE  LET f == RemoveTimers(e, gone)
         IN /\ EventsOk(f)
            /\ \A z, x : Registered(f, z, x) <=> Registered(e, z, x) /\ <<z, x>> \notin gone
            /\ \A x : EntriesAt(f, x) \subseteq EntriesAt(e, x)
<1> DEFINE f == RemoveTimers(e, gone)
           left(d) == {timer \in e.at[d] : <<timer, d>> \notin gone}
<1>1. EventsOk(f)  BY RemoveTimersOk
<1>2. f.at = [d \in {x \in DOMAIN e.at : left(x) # {}} |-> left(d)]  BY DEF RemoveTimers
<1> HIDE DEF f
<1>3. DOMAIN f.at = {x \in DOMAIN e.at : left(x) # {}} /\ \A d \in DOMAIN f.at : f.at[d] = left(d)
  BY <1>2
<1>4. ASSUME NEW z, NEW x
      PROVE  Registered(f, z, x) <=> Registered(e, z, x) /\ <<z, x>> \notin gone
  <2>1. CASE x \in DOMAIN f.at  BY <1>3, <2>1 DEF Registered, EntriesAt
  <2>2. CASE x \notin DOMAIN f.at
    <3>1. ~Registered(f, z, x)  BY <2>2 DEF Registered, EntriesAt
    <3>2. x \in DOMAIN e.at => left(x) = {}  BY <1>3, <2>2
    <3> QED  BY <3>1, <3>2 DEF Registered, EntriesAt
  <2> QED  BY <2>1, <2>2
<1>5. \A x : EntriesAt(f, x) \subseteq EntriesAt(e, x)  BY <1>4 DEF Registered
<1> QED  BY <1>1, <1>4, <1>5 DEF f

(* What is left when step took the first date and its timers out. *)
LEMMA TakenOk ==
  ASSUME NEW e, EventsOk(e), e.dates # <<>>
  PROVE  LET f == TakeDate(e)
         IN /\ EventsOk(f) /\ EntriesAt(f, Head(e.dates)) = {}
            /\ \A z, x : Registered(f, z, x) <=> Registered(e, z, x) /\ x # Head(e.dates)
            /\ EntriesAt(e, Head(e.dates)) \in SUBSET Entry
<1> DEFINE f == TakeDate(e)
           h == Head(e.dates)
<1>1. /\ EventsOk(f) /\ DOMAIN f.at = DOMAIN e.at \ {h} /\ \A x \in DOMAIN f.at : f.at[x] = e.at[x]
      /\ EntriesAt(e, h) \in SUBSET Entry
  BY TakeDateOk
<1> HIDE DEF f, h
<1>2. EntriesAt(f, h) = {}  BY <1>1 DEF EntriesAt
<1>3. \A z, x : Registered(f, z, x) <=> Registered(e, z, x) /\ x # h  BY <1>1 DEF Registered, EntriesAt
<1> QED  BY <1>1, <1>2, <1>3 DEF f, h

(* The first date is not later than those that have timers. *)
LEMMA NextEventOk ==
  ASSUME NEW e, EventsOk(e)
  PROVE  /\ \A d \in DOMAIN e.at : e.dates # <<>> /\ Head(e.dates) <= d
         /\ e.dates # <<>> => Head(e.dates) \in Nat
         /\ DOMAIN e.at \subseteq Nat /\ \A z, x : Registered(e, z, x) => x \in DOMAIN e.at /\ z \in Entry
<1> DEFINE s == e.dates
<1>1. /\ s \in Seq(Nat) /\ \A i, j \in 1 .. Len(s) : i <= j => s[i] <= s[j]
      /\ DOMAIN e.at \subseteq Nat /\ e.at \in [DOMAIN e.at -> SUBSET Entry]
      /\ \A x \in DOMAIN e.at : \E i \in 1 .. Len(s) : s[i] = x
  BY DEF EventsOk
<1>2. s # <<>> => Head(s) \in Nat /\ Head(s) = s[1]  BY <1>1, HeadTailProperties
<1>3. ASSUME NEW d \in DOMAIN e.at
      PROVE  s # <<>> /\ Head(s) <= d
  <2>1. PICK i \in 1 .. Len(s) : s[i] = d  BY <1>1
  <2>2. Len(s) \in Nat  BY <1>1, LenProperties
  <2>3. s # <<>>  BY <2>1, <2>2
  <2>4. 1 \in 1 .. Len(s) /\ 1 <= i  BY <2>1, <2>2
  <2>5. s[1] <= s[i]  BY <1>1, <2>1, <2>4
  <2> QED  BY <1>2, <2>1, <2>3, <2>5
<1>4. \A z, x : Registered(e, z, x) => x \in DOMAIN e.at /\ z \in Entry
  BY <1>1 DEF Registered, EntriesAt
<1> QED  BY <1>1, <1>2, <1>3, <1>4

-----------------------------------------------------------------------------
(* What a step leaves alone *)

(* A date is not "no date". *)
LEMMA DatesOk == NoDate \notin Nat /\ \A d \in Nat : d # NoDate /\ d \in Dates
  BY DEF NoDate, Dates

(* The timers of the clients and those of the waits differ, and so do the waits'. *)
LEMMA ClientEntry ==
  /\ \A y \in Timers : Client(y) \in Entry
  /\ \A t \in Tasks, d \in Nat : Timeout(t, d) \in Entry
  /\ \A y, z : Client(y) = Client(z) => y = z
  /\ \A y, t, d : d # NoDate => Client(y) # Timeout(t, d)
  /\ \A t, u, d, x : Timeout(t, d) = Timeout(u, x) => t = u /\ d = x
  BY DEF Client, Timeout, Entry, Dates

(* A step that changes neither the timers nor the clock keeps them consistent. *)
LEMMA KeptClock ==
  ASSUME Clock, UNCHANGED <<events, firing, now, nd, armed>>, pc' = pc \/ (pc # "fire" /\ pc' # "fire")
  PROVE  Clock'
<1>1. EventsOk(events)'  BY DEF Clock
<1>2. FiringOk'  BY DEF Clock, FiringOk
<1>3. TimersOk'
  <2>1. \A z, d : Booked(z, d) => Booked(z, d)'  BY DEF Booked
  <2> QED  BY <2>1 DEF Clock, TimersOk
<1> QED  BY <1>1, <1>2, <1>3 DEF Clock

(* It keeps what is booked. *)
LEMMA KeptBooked ==
  ASSUME UNCHANGED <<events, firing>>
  PROVE  \A t \in Tasks, d \in Nat : Booked(Timeout(t, d), d) => Booked(Timeout(t, d), d)'
  BY DEF Booked

(* The waits that remain are booked if what was booked is. *)
LEMMA KeptWaits ==
  ASSUME Waits, TasksOk,
         \A t \in Tasks, d \in Nat : Booked(Timeout(t, d), d) => Booked(Timeout(t, d), d)',
         \A t \in Tasks : tasks'[t].st = "waiting" /\ tasks'[t].due # NoDate
                            => tasks[t].st = "waiting" /\ tasks'[t].due = tasks[t].due
  PROVE  Waits'
<1> SUFFICES ASSUME NEW t \in Tasks, tasks'[t].st = "waiting", tasks'[t].due # NoDate
             PROVE  Booked(Timeout(t, tasks[t].due), tasks[t].due)'
  BY DEF Waits
<1>1. tasks[t].st = "waiting" /\ tasks'[t].due = tasks[t].due /\ tasks[t].due \in Nat
  BY DEF TasksOk, TasksHold, Task, Dates
<1>2. Booked(Timeout(t, tasks[t].due), tasks[t].due)  BY <1>1 DEF Waits
<1>3. ASSUME NEW d \in Nat, d = tasks[t].due, d = tasks'[t].due, Booked(Timeout(t, d), d)'
      PROVE  Booked(Timeout(t, tasks[t].due), tasks[t].due)'
  BY <1>3 DEF Booked, Timeout
<1> QED  BY <1>1, <1>2, <1>3

(* A step that leaves the tasks alone keeps them consistent. *)
LEMMA KeptTasks == ASSUME TasksOk, UNCHANGED <<tasks, ready, running>> PROVE TasksOk'
  BY DEF TasksOk

(* So for the descriptors and the tasks that wait for them. *)
LEMMA KeptDescriptors ==
  ASSUME Descriptors, UNCHANGED <<watch, tasks, open, dirty>>
  PROVE  Descriptors'
  BY DEF Descriptors, Watchers

(* A task that no longer waits for a descriptor disturbs no other. *)
LEMMA FewerDescriptors ==
  ASSUME Descriptors, UNCHANGED <<watch, open, dirty>>,
         \A t \in Tasks : tasks'[t].rw \in RW => tasks'[t] = tasks[t]
  PROVE  Descriptors'
  BY DEF Descriptors, Watchers

(* A step without a signal keeps the ring, unless the delivery begins. *)
LEMMA KeptRing ==
  ASSUME RingOk, UNCHANGED <<sigBuffer, unheard, raised, handlers>>,
         pc' # "deliver" \/ UNCHANGED <<pc, sel>>
  PROVE  RingOk'
  BY DEF RingOk

(* Outside select the loop is not to sleep. *)
LEMMA AwakeSleep == ASSUME pc' # "deliver", pc' # "asleep" PROVE SleepOk'
  BY DEF SleepOk, SleepsSafely

-----------------------------------------------------------------------------
(* timer.step, and the clock *)

(* step reads the clock: nothing fires yet. *)
LEMMA ReadClockOk == ASSUME Sound, ReadClock PROVE Sound'
<1>1. /\ pc = "timers" /\ pc' \in {"tasks", "fire"}
      /\ UNCHANGED <<loop_state, now, nd, events, armed, watch, tasks, ready, running, sigBuffer, raised,
                     unheard, handlers, avail, dirty, open, sel, ops, use>>
      /\ firing' = IF events.dates = <<>> THEN NoFiring ELSE [NoFiring EXCEPT !.seen = now]
      /\ events.dates = <<>> => pc' = "tasks"
  BY DEF ReadClock, clock, sched, signals, kernel
<1>2. firing.left = {}  BY <1>1 DEF Sound, Clock, FiringOk
<1>3. firing'.left = {} /\ firing' \in [date : Dates, left : SUBSET Entry, seen : Nat]
      /\ firing'.seen <= now /\ firing'.date = NoDate /\ firing'.date <= firing'.seen
  BY <1>1 DEF Sound, NoFiring, Dates, NoDate
<1>4. EntriesAt(events, NoDate) = {}
  <2>1. NoDate \notin Nat /\ DOMAIN events.at \subseteq Nat  BY DEF NoDate, Sound, Clock, EventsOk
  <2> QED  BY <2>1 DEF EntriesAt
<1>5. \A z, d : Booked(z, d) => Booked(z, d)'  BY <1>1, <1>2 DEF Booked
<1>6. Clock'
  <2>1. FiringOk'  BY <1>1, <1>3, <1>4 DEF FiringOk
  <2>2. EventsOk(events)'  BY <1>1 DEF Sound, Clock
  <2>3. TimersOk'  BY <1>1, <1>3, <1>5 DEF Sound, Clock, TimersOk
  <2> QED  BY <2>1, <2>2, <2>3 DEF Clock
<1>7. Waits'  BY <1>1, <1>5, KeptWaits DEF Sound
<1>8. TasksOk' /\ Descriptors' /\ RingOk' /\ SleepOk'
  BY <1>1, KeptTasks, KeptDescriptors, KeptRing, AwakeSleep DEF Sound
<1> QED  BY <1>1, <1>6, <1>7, <1>8 DEF Sound

(* step takes the next date that is due, with its timers, or ends. *)
LEMMA NextDateOk == ASSUME Sound, NextDate PROVE Sound'
<1>1. /\ pc = "fire" /\ firing.left = {} /\ pc' \in {"tasks", "fire"}
      /\ UNCHANGED <<loop_state, now, nd, armed, watch, tasks, ready, running, sigBuffer, raised,
                     unheard, handlers, avail, dirty, open, sel, ops, use>>
  BY DEF NextDate, sched, signals, kernel
<1>2. EventsOk(events) /\ firing.seen \in Nat /\ firing.seen <= now /\ now \in Nat
      /\ firing \in [date : Dates, left : SUBSET Entry, seen : Nat]
  BY DEF Sound, Clock, FiringOk
<1>3. EventsOk(events') /\ FiringOk' /\ \A z, d : Booked(z, d) => Booked(z, d)'
  <2>1. CASE events.dates # <<>> /\ firing.seen >= Head(events.dates)
    <3> DEFINE h == Head(events.dates)
               f == TakeDate(events)
    <3>1. /\ firing' = [firing EXCEPT !.date = h, !.left = EntriesAt(events, h)]
          /\ events' = f /\ pc' = pc
      BY <2>1 DEF NextDate
    <3>2. h \in Nat  BY <1>2, <2>1, NextEventOk
    <3>3. /\ EventsOk(f) /\ EntriesAt(f, h) = {} /\ EntriesAt(events, h) \in SUBSET Entry
          /\ \A z, x : Registered(f, z, x) <=> Registered(events, z, x) /\ x # h
      BY <1>2, <2>1, TakenOk
    <3> HIDE DEF f, h
    <3>4. /\ firing' \in [date : Dates, left : SUBSET Entry, seen : Nat]
          /\ firing'.date = h /\ firing'.left = EntriesAt(events, h) /\ firing'.seen = firing.seen
      BY <1>2, <3>1, <3>2, <3>3 DEF Dates
    <3>5. h # NoDate /\ h <= firing.seen  BY <1>2, <2>1, <3>2 DEF NoDate, h
    <3>6. FiringOk'  BY <1>1, <1>2, <3>1, <3>3, <3>4, <3>5 DEF FiringOk
    <3>7. ASSUME NEW z, NEW d, Booked(z, d) PROVE Booked(z, d)'
      BY <1>1, <3>1, <3>3, <3>4, <3>7 DEF Booked, Registered
    <3> QED  BY <3>1, <3>3, <3>6, <3>7
  <2>2. CASE ~(events.dates # <<>> /\ firing.seen >= Head(events.dates))
    <3>1. pc' = "tasks" /\ firing' = NoFiring /\ events' = events  BY <2>2 DEF NextDate
    <3>2. firing' \in [date : Dates, left : SUBSET Entry, seen : Nat] /\ firing'.left = {} /\ firing'.seen <= now
      BY <1>2, <3>1 DEF NoFiring, Dates
    <3>3. FiringOk'  BY <1>1, <3>1, <3>2 DEF FiringOk
    <3>4. \A z, d : Booked(z, d) => Booked(z, d)'  BY <1>1, <3>1 DEF Booked
    <3> QED  BY <1>2, <3>1, <3>3, <3>4
  <2> QED  BY <2>1, <2>2
<1>4. TimersOk'
  <2> SUFFICES ASSUME NEW y \in Timers
               PROVE  /\ \A d \in DOMAIN events'.at : Registered(events', Client(y), d) => armed[y] = d
                      /\ Client(y) \in firing'.left => armed[y] = firing'.date
    BY <1>1, <1>3 DEF Sound, Clock, TimersOk
  <2>1. \A d : Registered(events, Client(y), d) => armed[y] = d
    BY <1>2, NextEventOk DEF Sound, Clock, TimersOk
  <2>2. CASE events.dates # <<>> /\ firing.seen >= Head(events.dates)
    <3>1. /\ firing' = [firing EXCEPT !.date = Head(events.dates), !.left = EntriesAt(events, Head(events.dates))]
          /\ events' = TakeDate(events)
      BY <2>2 DEF NextDate
    <3>2. firing'.date = Head(events.dates) /\ firing'.left = EntriesAt(events, Head(events.dates))
      BY <1>2, <3>1
    <3>3. \A z, x : Registered(events', z, x) => Registered(events, z, x)  BY <1>2, <2>2, <3>1, TakenOk
    <3> QED  BY <2>1, <3>2, <3>3 DEF Registered
  <2>3. CASE ~(events.dates # <<>> /\ firing.seen >= Head(events.dates))
    <3>1. firing' = NoFiring /\ events' = events  BY <2>3 DEF NextDate
    <3> QED  BY <2>1, <3>1 DEF NoFiring
  <2> QED  BY <2>2, <2>3
<1>5. Clock'  BY <1>3, <1>4 DEF Clock
<1>6. Waits'  BY <1>1, <1>3, KeptWaits DEF Sound
<1>7. TasksOk' /\ Descriptors' /\ RingOk' /\ SleepOk'
  BY <1>1, KeptTasks, KeptDescriptors, KeptRing, AwakeSleep DEF Sound
<1> QED  BY <1>1, <1>5, <1>6, <1>7 DEF Sound

(* Time passes. *)
LEMMA TickOk == ASSUME Sound, Tick PROVE Sound'
<1>1. /\ now' = now + 1
      /\ UNCHANGED <<pc, loop_state, nd, events, armed, firing, watch, tasks, ready, running, sigBuffer, raised,
                     unheard, handlers, avail, dirty, open, sel, ops, use, arrivals>>
  BY DEF Tick, sched, signals, kernel
<1>2. now' \in Nat /\ now <= now' /\ firing.seen <= now /\ firing.seen \in Nat /\ now \in Nat
  BY <1>1 DEF Sound, Clock, FiringOk
<1>3. \A z, d : Booked(z, d) <=> Booked(z, d)'  BY <1>1 DEF Booked
<1>4. Clock'
  <2>1. firing.seen <= now'  BY <1>1, <1>2
  <2>2. FiringOk'  BY <1>1, <2>1 DEF Sound, Clock, FiringOk
  <2>3. TimersOk'  BY <1>1, <1>3 DEF Sound, Clock, TimersOk
  <2> QED  BY <1>1, <2>2, <2>3 DEF Sound, Clock
<1>5. Waits'  BY <1>1, <1>3, KeptWaits DEF Sound
<1>6. TasksOk' /\ Descriptors' /\ RingOk'  BY <1>1, KeptTasks, KeptDescriptors, KeptRing DEF Sound
<1>7. SleepOk'  BY <1>1 DEF Sound, SleepOk, SleepsSafely, Waiting
<1> QED  BY <1>1, <1>2, <1>4, <1>5, <1>6, <1>7 DEF Sound

-----------------------------------------------------------------------------
(* The callbacks of the timers *)

(* What waking some tasks changes. *)
LEMMA WakeTasksOk ==
  ASSUME TasksOk, NEW ts \in SUBSET Tasks, \A t \in ts : tasks[t].st = "waiting", NEW event \in Events,
         WakeTasks(ts, event), running' = running
  PROVE  /\ TasksOk'
         /\ \A t \in Tasks : /\ tasks'[t].rw = tasks[t].rw /\ tasks'[t].em = tasks[t].em
                             /\ tasks'[t].due = tasks[t].due
                             /\ tasks'[t].st = "waiting" <=> tasks[t].st = "waiting" /\ t \notin ts
                             /\ t \notin ts => tasks'[t] = tasks[t]
<1>1. PICK o \in SetToSeqs(ts) : ready' = ready \o o  BY DEF WakeTasks
<1>2. tasks' = Woken(tasks, ts, event)  BY DEF WakeTasks, Woken
<1>3. TasksOk'  BY <1>1, <1>2, WokenOk DEF TasksOk
<1>4. ASSUME NEW t \in Tasks
      PROVE  /\ tasks'[t].rw = tasks[t].rw /\ tasks'[t].em = tasks[t].em
             /\ tasks'[t].due = tasks[t].due
             /\ tasks'[t].st = "waiting" <=> tasks[t].st = "waiting" /\ t \notin ts
             /\ t \notin ts => tasks'[t] = tasks[t]
  <2>1. tasks'[t] = IF t \in ts THEN [tasks[t] EXCEPT !.st = "ready", !.event = event] ELSE tasks[t]
    BY <1>2 DEF Woken
  <2>2. tasks[t] \in Task  BY DEF TasksOk, TasksHold
  <2> QED  BY <2>1, <2>2 DEF Task
<1> QED  BY <1>3, <1>4

(* A task that is woken keeps its watch until it resumes. *)
LEMMA WokenDescriptors ==
  ASSUME Descriptors, UNCHANGED <<watch, open, dirty>>,
         \A t \in Tasks : /\ tasks'[t].rw = tasks[t].rw /\ tasks'[t].em = tasks[t].em
                          /\ tasks'[t].st = "waiting" => tasks[t].st = "waiting"
  PROVE  Descriptors'
  BY DEF Descriptors, Watchers

(* The timer of a wait fires, and wakes its task if it still waits. *)
LEMMA FireTimeoutOk == ASSUME Sound, NEW t \in Tasks, FireTimeout(t) PROVE Sound'
<1> DEFINE timer == Timeout(t, firing.date)
           ts == IF tasks[t].st = "waiting" /\ tasks[t].due = firing.date THEN {t} ELSE {}
<1>1. /\ pc = "fire" /\ timer \in firing.left /\ firing' = [firing EXCEPT !.left = @ \ {timer}]
      /\ WakeTasks(ts, "timeout")
      /\ UNCHANGED <<pc, loop_state, now, nd, events, armed, watch, running, sigBuffer, raised,
                     unheard, arrivals, handlers, avail, dirty, open, sel, ops, use>>
  BY DEF FireTimeout, clock, signals, kernel
<1>2. /\ TasksOk'
      /\ \A u \in Tasks : /\ tasks'[u].rw = tasks[u].rw /\ tasks'[u].em = tasks[u].em
                          /\ tasks'[u].due = tasks[u].due
                          /\ tasks'[u].st = "waiting" <=> tasks[u].st = "waiting" /\ u \notin ts
  <2>1. ts \in SUBSET Tasks /\ \A u \in ts : tasks[u].st = "waiting"  OBVIOUS
  <2>2. "timeout" \in Events  BY DEF Events
  <2> HIDE DEF ts
  <2> QED  BY <1>1, <2>1, <2>2, WakeTasksOk DEF Sound
<1>3. /\ firing \in [date : Dates, left : SUBSET Entry, seen : Nat] /\ firing.date # NoDate
      /\ firing' \in [date : Dates, left : SUBSET Entry, seen : Nat]
      /\ firing'.date = firing.date /\ firing'.seen = firing.seen /\ firing'.left = firing.left \ {timer}
  BY <1>1 DEF Sound, Clock, FiringOk
<1>4. \A y \in Timers : \A d : Booked(Client(y), d) => Booked(Client(y), d)'
  BY <1>1, <1>3, ClientEntry DEF Booked
<1>5. Clock'
  <2>1. FiringOk'  BY <1>1, <1>3 DEF Sound, Clock, FiringOk
  <2>2. TimersOk'  BY <1>1, <1>3, <1>4 DEF Sound, Clock, TimersOk
  <2> QED  BY <1>1, <2>1, <2>2 DEF Sound, Clock
<1>6. Waits'
  <2> SUFFICES ASSUME NEW u \in Tasks, tasks'[u].st = "waiting", tasks'[u].due # NoDate
               PROVE  Booked(Timeout(u, tasks[u].due), tasks[u].due)'
    BY DEF Waits
  <2>1. tasks[u].st = "waiting" /\ u \notin ts /\ tasks'[u].due = tasks[u].due  BY <1>2
  <2>2. Booked(Timeout(u, tasks[u].due), tasks[u].due)  BY <2>1 DEF Sound, Waits
  <2>3. CASE Registered(events, Timeout(u, tasks[u].due), tasks[u].due)
    BY <1>1, <2>1, <2>3 DEF Booked, Timeout
  <2>4. CASE firing.date = tasks[u].due /\ Timeout(u, tasks[u].due) \in firing.left
    <3>1. u # t  BY <2>1, <2>4
    <3>2. Timeout(u, tasks[u].due) # timer  BY <3>1, ClientEntry
    <3> QED  BY <1>3, <2>1, <2>4, <3>2 DEF Booked, Timeout
  <2> QED  BY <2>2, <2>3, <2>4 DEF Booked
<1>7. Descriptors' /\ RingOk' /\ SleepOk'
  <2>1. Descriptors'  BY <1>1, <1>2, WokenDescriptors DEF Sound
  <2> QED  BY <1>1, <2>1, KeptRing, AwakeSleep DEF Sound
<1> QED  BY <1>1, <1>2, <1>5, <1>6, <1>7 DEF Sound

(* A date a client books is later than the one that fires. *)
LEMMA NextDatesOk ==
  ASSUME now \in Nat, NEW d \in NextDates
  PROVE  d \in Dates /\ (d # NoDate => d \in Nat /\ d > now)
<1>1. PICK p \in Periods : d = IF p = 0 THEN NoDate ELSE now + p  BY DEF NextDates
<1>2. p \in Nat  BY LoopConstants
<1> QED  BY <1>1, <1>2 DEF Dates, NoDate

(* The timer of a client fires, cancels others and is booked again. *)
LEMMA FireTimerOk ==
  ASSUME Sound, NoCorner, NEW y \in Timers, NEW cancelled \in SUBSET Timers,
         FireTimer(y, cancelled)
  PROVE  Sound'
<1> DEFINE removed == {z \in cancelled : Registered(events, Client(z), nd[z])}
           gone == {<<Client(z), nd[z]>> : z \in removed}
           left == RemoveTimers(events, gone)
<1>1. PICK d \in NextDates :
        /\ events' = AddTimer(left, Client(y), d)
        /\ nd' = [z \in Timers |-> IF z = y THEN d ELSE IF z \in removed THEN NoDate ELSE nd[z]]
        /\ armed' = [z \in Timers |-> IF z \in cancelled THEN NoDate ELSE IF z = y THEN d ELSE armed[z]]
  BY DEF FireTimer
<1>2. /\ pc = "fire" /\ Client(y) \in firing.left /\ firing' = [firing EXCEPT !.left = @ \ {Client(y)}]
      /\ \A z \in cancelled : armed[z] # NoDate /\ z # y /\ Client(z) \notin firing.left
      /\ UNCHANGED <<pc, loop_state, now, watch, tasks, ready, running, sigBuffer, raised,
                     unheard, arrivals, handlers, avail, dirty, open, sel, ops, use>>
  <2>1. \A z \in cancelled : armed[z] # NoDate /\ Cancellable(z, y)  BY DEF FireTimer
  <2>2. \A z : Cancellable(z, y) => z # y /\ Client(z) \notin firing.left
    BY Zenon DEF NoCorner, Cancellable
  <2> QED  BY <2>1, <2>2 DEF FireTimer, sched, signals, kernel
<1>3. /\ firing \in [date : Dates, left : SUBSET Entry, seen : Nat] /\ firing.date # NoDate
      /\ firing' \in [date : Dates, left : SUBSET Entry, seen : Nat]
      /\ firing'.date = firing.date /\ firing'.seen = firing.seen /\ firing'.left = firing.left \ {Client(y)}
      /\ firing.date <= firing.seen /\ firing.seen <= now /\ EntriesAt(events, firing.date) = {}
      /\ EventsOk(events) /\ now \in Nat
  BY <1>2 DEF Sound, Clock, FiringOk
<1>4. /\ nd = armed /\ armed \in [Timers -> Dates]
      /\ \A z \in Timers : /\ armed[z] # NoDate => Booked(Client(z), armed[z])
                           /\ \A x : Registered(events, Client(z), x) => armed[z] = x
                           /\ Client(z) \in firing.left => armed[z] = firing.date
  BY <1>3, NextEventOk DEF Sound, Clock, TimersOk
<1>5. removed = cancelled
  <2>1. ASSUME NEW z \in cancelled PROVE Registered(events, Client(z), nd[z])
    BY <1>2, <1>4 DEF Booked
  <2> QED  BY <2>1
<1>7. \A z \in cancelled : <<Client(z), armed[z]>> \in gone
  <2>1. \A z \in removed : <<Client(z), nd[z]>> \in gone  OBVIOUS
  <2> HIDE DEF gone, removed
  <2> QED  BY <1>4, <1>5, <2>1
<1>8. \A t, x, dd : dd # NoDate => <<Timeout(t, dd), x>> \notin gone  BY ClientEntry
<1>9. \A z, x : <<Client(z), x>> \in gone => z \in cancelled  BY <1>5, ClientEntry
<1> HIDE DEF gone
<1>6. /\ EventsOk(left)
      /\ \A z, x : Registered(left, z, x) <=> Registered(events, z, x) /\ <<z, x>> \notin gone
      /\ \A x : EntriesAt(left, x) \subseteq EntriesAt(events, x)
  BY <1>3, RemovedOk
<1>a. nd' = armed' /\ armed' \in [Timers -> Dates]
      /\ \A z \in Timers : armed'[z] = IF z \in cancelled THEN NoDate ELSE IF z = y THEN d ELSE armed[z]
  <2>1. d \in Dates /\ NoDate \in Dates  BY <1>3, NextDatesOk DEF Dates
  <2>2. y \notin cancelled  BY <1>2
  <2> QED  BY <1>1, <1>4, <1>5, <2>1, <2>2
<1> HIDE DEF left, removed
<1>b. /\ EventsOk(events')
      /\ \A z, x : Registered(events', z, x) <=>
           Registered(left, z, x) \/ (z = Client(y) /\ x = d /\ d # NoDate)
      /\ EntriesAt(events', firing.date) = {}
  <2>1. EntriesAt(left, firing.date) = {}  BY <1>3, <1>6
  <2>2. CASE d = NoDate
    <3>1. events' = left  BY <1>1, <2>2 DEF AddTimer
    <3> QED  BY <1>6, <2>1, <2>2, <3>1
  <2>3. CASE d # NoDate
    <3>1. d \in Nat /\ d > now  BY <1>3, <2>3, NextDatesOk
    <3>2. events' = AddEvent(left, Client(y), d)  BY <1>1, <2>3 DEF AddTimer
    <3>3. Client(y) \in Entry /\ EventsOk(left)  BY <1>6, ClientEntry
    <3>4. /\ EventsOk(events')
          /\ \A z, x : Registered(events', z, x) <=> Registered(left, z, x) \/ (z = Client(y) /\ x = d)
          /\ \A x : x # d => EntriesAt(events', x) = EntriesAt(left, x)
      <4>1. ASSUME NEW e, EventsOk(e), NEW timer \in Entry, NEW x \in Nat, NEW f, f = AddEvent(e, timer, x)
            PROVE  /\ EventsOk(f)
                   /\ \A z, w : Registered(f, z, w) <=> Registered(e, z, w) \/ (z = timer /\ w = x)
                   /\ \A w : w # x => EntriesAt(f, w) = EntriesAt(e, w)
        BY <4>1, AddedOk
      <4> QED  BY <3>1, <3>2, <3>3, <4>1
    <3>5. firing.date # d
      <4>1. firing.date \in Int /\ firing.seen \in Nat /\ firing.date <= firing.seen /\ firing.seen <= now
        BY <1>3 DEF Dates, NoDate
      <4>2. now \in Nat  BY <1>3
      <4> QED  BY <3>1, <4>1, <4>2
    <3> QED  BY <2>1, <2>3, <3>4, <3>5
  <2> QED  BY <2>2, <2>3
<1>c. TimersOk'
  <2> SUFFICES ASSUME NEW z \in Timers
               PROVE  /\ armed'[z] # NoDate => Booked(Client(z), armed[z])'
                      /\ \A x \in DOMAIN events'.at : Registered(events', Client(z), x) => armed'[z] = x
                      /\ Client(z) \in firing'.left => armed'[z] = firing'.date
    BY <1>a DEF TimersOk
  <2>1. CASE z = y
    <3>1. z \notin cancelled /\ armed'[z] = d  BY <1>2, <1>a, <2>1
    <3>2. \A x : ~Registered(events, Client(z), x)  BY <1>2, <1>3, <1>4, <2>1 DEF Registered
    <3> QED  BY <1>3, <1>6, <1>b, <2>1, <3>1, <3>2 DEF Booked
  <2>2. CASE z # y /\ z \in cancelled
    <3>1. armed'[z] = NoDate /\ Client(z) \notin firing.left  BY <1>2, <1>a, <2>2
    <3>2. \A x : ~Registered(left, Client(z), x)  BY <1>4, <1>6, <1>7, <2>2
    <3>3. \A x : ~Registered(events', Client(z), x)  BY <1>b, <2>2, <3>2, ClientEntry
    <3> QED  BY <1>3, <3>1, <3>3
  <2>3. CASE z # y /\ z \notin cancelled
    <3>1. armed'[z] = armed[z]  BY <1>a, <2>3
    <3>2. \A x : Registered(events', Client(z), x) <=> Registered(events, Client(z), x)
      <4>1. \A x : <<Client(z), x>> \notin gone  BY <1>9, <2>3
      <4>2. Client(z) # Client(y)  BY <2>3, ClientEntry
      <4> QED  BY <1>6, <1>b, <4>1, <4>2
    <3>3. Client(z) \in firing'.left <=> Client(z) \in firing.left  BY <1>3, <2>3, ClientEntry
    <3>4. armed'[z] # NoDate => Booked(Client(z), armed[z])'
      <4>1. armed[z] # NoDate => Booked(Client(z), armed[z])  BY <1>4
      <4> QED  BY <1>3, <3>1, <3>2, <3>3, <4>1 DEF Booked
    <3> QED  BY <1>3, <1>4, <3>1, <3>2, <3>3, <3>4
  <2> QED  BY <2>1, <2>2, <2>3
<1>d. Clock'
  <2>1. FiringOk'  BY <1>2, <1>3, <1>b DEF FiringOk
  <2> QED  BY <1>b, <1>c, <2>1 DEF Clock
<1>e. Waits'
  <2>1. ASSUME NEW t \in Tasks, NEW x \in Nat, Booked(Timeout(t, x), x)
        PROVE  Booked(Timeout(t, x), x)'
    <3>1. x # NoDate  BY DatesOk
    <3>2. Timeout(t, x) # Client(y)  BY <3>1, ClientEntry
    <3>3. Registered(events, Timeout(t, x), x) => Registered(events', Timeout(t, x), x)
      BY <1>6, <1>8, <1>b, <3>1
    <3> QED  BY <1>3, <2>1, <3>2, <3>3 DEF Booked, Timeout
  <2> QED  BY <1>2, <2>1, KeptWaits DEF Sound
<1>f. TasksOk' /\ Descriptors' /\ RingOk' /\ SleepOk'
  BY <1>2, KeptTasks, KeptDescriptors, KeptRing, AwakeSleep DEF Sound
<1> QED  BY <1>2, <1>d, <1>e, <1>f DEF Sound

(* A client books a timer that was not booked. *)
LEMMA ArmOk ==
  ASSUME Sound, NEW y \in Timers, Arm(y), UNCHANGED <<now, pc, firing>>, pc # "fire"
  PROVE  /\ Clock'
         /\ \A t \in Tasks, x \in Nat : Booked(Timeout(t, x), x) => Booked(Timeout(t, x), x)'
<1>1. PICK d \in NextDates : /\ events' = AddTimer(events, Client(y), d)
                             /\ nd' = [nd EXCEPT ![y] = d] /\ armed' = [armed EXCEPT ![y] = d]
                             /\ armed[y] = NoDate
  BY DEF Arm
<1>2. /\ EventsOk(events) /\ now \in Nat /\ firing.left = {}
      /\ nd = armed /\ armed \in [Timers -> Dates]
      /\ \A z \in Timers : /\ armed[z] # NoDate => Registered(events, Client(z), armed[z])
                           /\ \A x : Registered(events, Client(z), x) => armed[z] = x /\ x # NoDate
  <2>1. EventsOk(events) /\ now \in Nat /\ firing.left = {}  BY DEF Sound, Clock, FiringOk
  <2>2. \A z, x : Registered(events, z, x) => x \in DOMAIN events.at /\ x # NoDate
    <3>1. NoDate \notin Nat  BY DEF NoDate
    <3> QED  BY <2>1, <3>1, NextEventOk
  <2> QED  BY <2>1, <2>2 DEF Sound, Clock, TimersOk, Booked
<1>3. /\ d \in Dates /\ nd' = armed' /\ armed' \in [Timers -> Dates]
      /\ \A z \in Timers : armed'[z] = IF z = y THEN d ELSE armed[z]
  <2>1. d \in Dates  BY <1>2, NextDatesOk
  <2> QED  BY <1>1, <1>2, <2>1
<1>4. /\ EventsOk(events')
      /\ \A z, x : Registered(events', z, x) <=>
           Registered(events, z, x) \/ (z = Client(y) /\ x = d /\ d # NoDate)
  <2>1. CASE d = NoDate
    <3>1. events' = events  BY <1>1, <2>1 DEF AddTimer
    <3> QED  BY <1>2, <2>1, <3>1
  <2>2. CASE d # NoDate
    <3>1. d \in Nat /\ Client(y) \in Entry  BY <1>2, <2>2, NextDatesOk, ClientEntry
    <3>2. events' = AddEvent(events, Client(y), d)  BY <1>1, <2>2 DEF AddTimer
    <3> QED  BY <1>2, <2>2, <3>1, <3>2, AddedOk
  <2> QED  BY <2>1, <2>2
<1>5. TimersOk'
  <2> SUFFICES ASSUME NEW z \in Timers
               PROVE  /\ armed'[z] # NoDate => Booked(Client(z), armed[z])'
                      /\ \A x \in DOMAIN events'.at : Registered(events', Client(z), x) => armed'[z] = x
                      /\ Client(z) \in firing'.left => armed'[z] = firing'.date
    BY <1>3 DEF TimersOk
  <2>1. Client(z) \notin firing'.left  BY <1>2
  <2>2. CASE z = y
    <3>1. armed'[z] = d /\ \A x : ~Registered(events, Client(z), x)  BY <1>1, <1>2, <1>3, <2>2
    <3> QED  BY <1>4, <2>1, <2>2, <3>1 DEF Booked
  <2>3. CASE z # y
    <3>1. armed'[z] = armed[z]  BY <1>3, <2>3
    <3>2. \A x : Registered(events', Client(z), x) <=> Registered(events, Client(z), x)
      BY <1>4, <2>3, ClientEntry
    <3> QED  BY <1>2, <2>1, <3>1, <3>2 DEF Booked
  <2> QED  BY <2>2, <2>3
<1>6. FiringOk'  BY <1>2 DEF Sound, Clock, FiringOk
<1>7. ASSUME NEW t \in Tasks, NEW x \in Nat, Booked(Timeout(t, x), x)
      PROVE  Booked(Timeout(t, x), x)'
  <2>1. Registered(events, Timeout(t, x), x) => Registered(events', Timeout(t, x), x)  BY <1>4
  <2> QED  BY <1>7, <2>1 DEF Booked, Timeout
<1> QED  BY <1>4, <1>5, <1>6, <1>7 DEF Clock

-----------------------------------------------------------------------------
(* sched.step *)

(* A task resumes: wait_fd removes its watch. *)
LEMMA ResumeOk == ASSUME Sound, Resume PROVE Sound'
<1> DEFINE h == Head(ready)
           w == tasks[h]
<1>1. /\ pc = "tasks" /\ running = None /\ ready # <<>> /\ running' = h /\ ready' = Tail(ready)
      /\ watch' = IF w.rw \in RW THEN RemoveWatch(watch, w.rw, w.em) ELSE watch
      /\ tasks' = [tasks EXCEPT ![h] = NoTask]
      /\ UNCHANGED <<pc, loop_state, now, nd, events, armed, firing, sigBuffer, raised,
                     unheard, arrivals, handlers, dirty, open, sel, ops, use>>
  BY DEF Resume, clock, signals
<1>2. TasksOk' /\ h \in Tasks /\ tasks \in [Tasks -> Task] /\ w.st = "ready"
  <2>1. TasksHold(tasks, ready, None)  BY <1>1 DEF Sound, TasksOk
  <2>2. TasksHold([tasks EXCEPT ![h] = NoTask], Tail(ready), h) /\ h \in Tasks  BY <1>1, <2>1, ResumedOk
  <2>3. Len(ready) \in Nat \ {0} /\ h = ready[1]
    <3>1. ready \in Seq(Tasks)  BY <2>1 DEF TasksHold
    <3> QED  BY <1>1, <3>1, EmptySeq, HeadTailProperties
  <2>4. 1 \in 1 .. Len(ready)  BY <2>3
  <2> QED  BY <1>1, <2>1, <2>2, <2>3, <2>4 DEF TasksOk, TasksHold
<1> HIDE DEF h
<1>3. \A t \in Tasks : tasks'[t] = IF t = h THEN NoTask ELSE tasks[t]  BY <1>1, <1>2
<1>4. NoTask.rw \notin RW /\ NoTask.st = "ready"  BY DEF NoTask, RW, None
<1>5. Descriptors'
  <2>1. WatchOk(watch) /\ Watchers  BY DEF Sound, Descriptors
  <2>2. CASE w.rw \in RW
    <3> DEFINE v == RemoveWatch(watch, w.rw, w.em)
    <3>1. w.em \in Fds  BY <1>2, <2>1, <2>2 DEF Watchers
    <3>2. /\ WatchOk(v)
          /\ \A x \in RW, g \in Fds : Watched(v, x, g) <=> Watched(watch, x, g) /\ ~(x = w.rw /\ g = w.em)
          /\ \A x \in RW : v.func[x] = watch.func[x] \ (IF x = w.rw THEN {w.em} ELSE {})
      BY <2>1, <2>2, <3>1, RemoveWatchOk
    <3>3. watch' = v  BY <1>1, <2>2
    <3> HIDE DEF v
    <3>4. ASSUME NEW t \in Tasks, t # h, tasks[t].rw \in RW, tasks[t].em \in open
          PROVE  ~(tasks[t].rw = w.rw /\ tasks[t].em = w.em)
      BY <1>2, <2>1, <3>4 DEF Watchers
    <3>5. Watchers'
      <4> SUFFICES ASSUME NEW t \in Tasks, tasks'[t].rw \in RW
                   PROVE  /\ tasks[t] = tasks'[t] /\ tasks[t].em \in Fds
                          /\ tasks[t].em \in open =>
                               /\ Watched(v, tasks[t].rw, tasks[t].em)
                               /\ tasks[t].em \notin v.func[tasks[t].rw]
                               /\ \A u \in Tasks : tasks'[u].rw = tasks[t].rw /\ tasks'[u].em = tasks[t].em => u = t
                          /\ tasks[t].st = "waiting" =>
                               /\ tasks[t].em \in open
                               /\ tasks[t].rw = "read" => tasks[t].em \notin dirty
        BY <1>1, <3>3 DEF Watchers, Watched
      <4>1. t # h /\ tasks'[t] = tasks[t]  BY <1>3, <1>4
      <4>2. /\ tasks[t].em \in Fds
            /\ tasks[t].em \in open =>
                 /\ Watched(watch, tasks[t].rw, tasks[t].em)
                 /\ tasks[t].em \notin watch.func[tasks[t].rw]
                 /\ \A u \in Tasks : tasks[u].rw = tasks[t].rw /\ tasks[u].em = tasks[t].em => u = t
            /\ tasks[t].st = "waiting" =>
                 /\ tasks[t].em \in open
                 /\ tasks[t].rw = "read" => tasks[t].em \notin dirty
        BY <2>1, <4>1 DEF Watchers
      <4>3. ASSUME NEW u \in Tasks, tasks'[u].rw = tasks[t].rw, tasks'[u].em = tasks[t].em
            PROVE  tasks[u].rw = tasks[t].rw /\ tasks[u].em = tasks[t].em
        BY <1>3, <1>4, <4>1, <4>3
      <4>4. tasks[t].em \in open => /\ Watched(v, tasks[t].rw, tasks[t].em)
                                    /\ tasks[t].em \notin v.func[tasks[t].rw]
        BY <3>2, <3>4, <4>1, <4>2
      <4> QED  BY <4>1, <4>2, <4>3, <4>4
    <3> QED  BY <3>2, <3>3, <3>5 DEF Descriptors
  <2>3. CASE w.rw \notin RW
    <3>1. watch' = watch  BY <1>1, <2>3
    <3>2. \A t \in Tasks : tasks'[t].rw \in RW => tasks'[t] = tasks[t]  BY <1>3, <1>4
    <3> QED  BY <1>1, <2>1, <3>1, <3>2 DEF Descriptors, Watchers
  <2> QED  BY <2>2, <2>3
<1>6. Clock'  BY <1>1, KeptClock DEF Sound
<1>7. Waits'
  <2>1. \A t \in Tasks : tasks'[t].st = "waiting" => tasks'[t] = tasks[t]  BY <1>3, <1>4
  <2> QED  BY <1>1, <2>1, KeptBooked, KeptWaits DEF Sound
<1>8. RingOk' /\ SleepOk'  BY <1>1, KeptRing, AwakeSleep DEF Sound
<1> QED  BY <1>1, <1>2, <1>5, <1>6, <1>7, <1>8 DEF Sound

(* What a call of the running task leaves alone. *)
LEMMA CallOk ==
  ASSUME Sound, Call
  PROVE  /\ pc = "tasks" /\ pc' = "tasks" /\ running \in Tasks /\ tasks[running].st # "waiting"
         /\ UNCHANGED <<loop_state, now, firing, sel, use>> /\ SleepOk'
<1>1. /\ pc = "tasks" /\ running # None /\ UNCHANGED <<pc, loop_state, now, firing, sel, use>>  BY DEF Call
<1>2. running \in Tasks /\ tasks[running].st # "waiting"  BY <1>1 DEF Sound, TasksOk, TasksHold
<1>3. SleepOk'  BY <1>1, AwakeSleep
<1> QED  BY <1>1, <1>2, <1>3

(* A task waits for a descriptor, maybe with a delay. *)
LEMMA WaitFdOk ==
  ASSUME Sound, NEW rw \in RW, NEW fd \in Fds, NEW delay \in Delays, WaitFd(rw, fd, delay)
  PROVE  Sound'
<1> DEFINE due == IF delay = NoTimeout THEN NoDate ELSE now + delay
           x == [st |-> "waiting", em |-> fd, rw |-> rw, due |-> due, event |-> None]
<1>1. /\ Call /\ fd \in open /\ ~Watched(watch, rw, fd)
      /\ watch' = AddWatch(watch, rw, fd, FALSE)
      /\ tasks' = [tasks EXCEPT ![running] = x] /\ running' = None
      /\ events' = IF due = NoDate THEN events ELSE AddEvent(events, Timeout(running, due), due)
      /\ dirty' = IF rw = "read" THEN dirty \ {fd} ELSE dirty
      /\ UNCHANGED <<nd, armed, ready, sigBuffer, raised, unheard, arrivals, handlers, avail, open>>
  BY DEF WaitFd, Block, signals
<1>2. /\ pc = "tasks" /\ pc' = "tasks" /\ running \in Tasks /\ tasks[running].st # "waiting"
      /\ UNCHANGED <<loop_state, now, firing, sel, use>> /\ SleepOk'
  BY <1>1, CallOk
<1>3. due \in Dates /\ (due # NoDate => due \in Nat)
  <2>1. now \in Nat /\ (delay = NoTimeout \/ delay \in Nat)  BY LoopConstants DEF Sound
  <2> QED  BY <2>1 DEF Dates
<1> HIDE DEF due
<1>4. x \in Task /\ x.st = "waiting" /\ x.due = due /\ x.rw = rw /\ x.em = fd /\ x.event = None
  BY <1>3 DEF Task, Events
<1> HIDE DEF x
<1>5. TasksOk'
  <2>1. TasksHold(tasks, ready, running)  BY DEF Sound, TasksOk
  <2>2. None \in {None, running}  OBVIOUS
  <2>3. TasksHold([tasks EXCEPT ![running] = x], ready, None)  BY <1>2, <1>4, <2>1, <2>2, StoppedOk
  <2> QED  BY <1>1, <2>3 DEF TasksOk
<1>6. \A t \in Tasks : tasks'[t] = IF t = running THEN x ELSE tasks[t]
  BY <1>1, <1>2 DEF Sound, TasksOk, TasksHold
<1>7. /\ EventsOk(events) /\ EventsOk(events') /\ firing.left = {}
      /\ \A z, d : Registered(events', z, d) <=>
           Registered(events, z, d) \/ (z = Timeout(running, due) /\ d = due /\ due # NoDate)
  <2>1. EventsOk(events) /\ firing.left = {}  BY <1>2 DEF Sound, Clock, FiringOk
  <2>2. CASE due = NoDate  BY <1>1, <2>1, <2>2
  <2>3. CASE due # NoDate
    <3>1. events' = AddEvent(events, Timeout(running, due), due)  BY <1>1, <2>3
    <3>2. Timeout(running, due) \in Entry /\ due \in Nat  BY <1>2, <1>3, <2>3, ClientEntry
    <3> QED  BY <2>1, <2>3, <3>1, <3>2, AddedOk
  <2> QED  BY <2>2, <2>3
<1>8. Clock'
  <2>1. FiringOk'  BY <1>2, <1>7 DEF Sound, Clock, FiringOk
  <2>2. ASSUME NEW y \in Timers
        PROVE  /\ armed[y] # NoDate => Booked(Client(y), armed[y])'
               /\ \A d \in DOMAIN events'.at : Registered(events', Client(y), d) => armed[y] = d
               /\ Client(y) \notin firing.left
    <3>1. /\ armed[y] # NoDate => Registered(events, Client(y), armed[y])
          /\ \A d : Registered(events, Client(y), d) => armed[y] = d
      BY <1>7, NextEventOk DEF Sound, Clock, TimersOk, Booked
    <3>2. \A d : Registered(events', Client(y), d) <=> Registered(events, Client(y), d)
      BY <1>7, ClientEntry
    <3> QED  BY <1>1, <1>7, <3>1, <3>2 DEF Booked
  <2>3. TimersOk'  BY <1>1, <1>2, <2>2 DEF Sound, Clock, TimersOk
  <2> QED  BY <1>7, <2>1, <2>3 DEF Clock
<1>9. Waits'
  <2> SUFFICES ASSUME NEW t \in Tasks, tasks'[t].st = "waiting", tasks'[t].due # NoDate
               PROVE  Registered(events', Timeout(t, tasks'[t].due), tasks'[t].due)
    BY DEF Waits, Booked
  <2>1. CASE t = running  BY <1>4, <1>6, <1>7, <2>1
  <2>2. CASE t # running
    <3>1. tasks'[t] = tasks[t]  BY <1>6, <2>2
    <3>2. Registered(events, Timeout(t, tasks[t].due), tasks[t].due)  BY <1>7, <3>1 DEF Sound, Waits, Booked
    <3> QED  BY <1>7, <3>1, <3>2
  <2> QED  BY <2>1, <2>2
<1>10. Descriptors'
  <2>1. WatchOk(watch) /\ Watchers  BY DEF Sound, Descriptors
  <2>2. /\ WatchOk(watch')
        /\ \A z \in RW, g \in Fds : Watched(watch', z, g) <=> Watched(watch, z, g) \/ (z = rw /\ g = fd)
        /\ \A z \in RW : watch'.func[z] = watch.func[z]
    <3> DEFINE v == AddWatch(watch, rw, fd, FALSE)
    <3>1. /\ WatchOk(v)
          /\ \A z \in RW, g \in Fds : Watched(v, z, g) <=> Watched(watch, z, g) \/ (z = rw /\ g = fd)
          /\ \A z \in RW : v.func[z] = watch.func[z] \cup (IF FALSE /\ z = rw THEN {fd} ELSE {})
      <4>1. ASSUME NEW b \in BOOLEAN, b = FALSE
            PROVE  LET a == AddWatch(watch, rw, fd, b)
                   IN /\ WatchOk(a)
                      /\ \A z \in RW, g \in Fds : Watched(a, z, g) <=> Watched(watch, z, g) \/ (z = rw /\ g = fd)
                      /\ \A z \in RW : a.func[z] = watch.func[z] \cup (IF b /\ z = rw THEN {fd} ELSE {})
        BY <1>1, <2>1, AddWatchOk
      <4> QED  BY <4>1, Zenon
    <3> HIDE DEF v
    <3>2. watch' = v  BY <1>1 DEF v
    <3> QED  BY <3>1, <3>2
  <2>3. fd \notin watch.func[rw]  BY <1>1, <2>1 DEF WatchOk, Watched
  <2>4. \A t \in Tasks : tasks[t].rw = rw /\ tasks[t].em = fd => FALSE  BY <1>1, <2>1 DEF Watchers
  <2>5. Watchers'
    <3> SUFFICES ASSUME NEW t \in Tasks, tasks'[t].rw \in RW
                 PROVE  /\ tasks'[t].em \in Fds
                        /\ tasks'[t].em \in open =>
                             /\ Watched(watch', tasks'[t].rw, tasks'[t].em)
                             /\ tasks'[t].em \notin watch'.func[tasks'[t].rw]
                             /\ \A u \in Tasks : tasks'[u].rw = tasks'[t].rw /\ tasks'[u].em = tasks'[t].em => u = t
                        /\ tasks'[t].st = "waiting" =>
                             /\ tasks'[t].em \in open
                             /\ tasks'[t].rw = "read" => tasks'[t].em \notin dirty'
      BY <1>1 DEF Watchers, Watched
    <3>1. CASE t = running
      <4>1. tasks'[t].em = fd /\ tasks'[t].rw = rw  BY <1>4, <1>6, <3>1
      <4>2. \A u \in Tasks : tasks'[u].rw = rw /\ tasks'[u].em = fd => u = t  BY <1>6, <2>4, <3>1
      <4>3. fd \notin watch'.func[rw] /\ Watched(watch', rw, fd)  BY <2>2, <2>3
      <4>4. rw = "read" => fd \notin dirty'  BY <1>1
      <4> QED  BY <1>1, <4>1, <4>2, <4>3, <4>4
    <3>2. CASE t # running
      <4>1. tasks'[t] = tasks[t]  BY <1>6, <3>2
      <4>2. /\ tasks[t].em \in Fds
            /\ tasks[t].em \in open =>
                 /\ Watched(watch, tasks[t].rw, tasks[t].em)
                 /\ tasks[t].em \notin watch.func[tasks[t].rw]
                 /\ \A u \in Tasks : tasks[u].rw = tasks[t].rw /\ tasks[u].em = tasks[t].em => u = t
            /\ tasks[t].st = "waiting" =>
                 /\ tasks[t].em \in open
                 /\ tasks[t].rw = "read" => tasks[t].em \notin dirty
        BY <2>1, <4>1 DEF Watchers
      <4>3. ~(tasks[t].rw = rw /\ tasks[t].em = fd)  BY <2>4
      <4>4. \A u \in Tasks : tasks'[u].rw = tasks[t].rw /\ tasks'[u].em = tasks[t].em
                               => tasks[u].rw = tasks[t].rw /\ tasks[u].em = tasks[t].em
        BY <1>4, <1>6, <4>3
      <4>5. dirty' \subseteq dirty  BY <1>1
      <4> QED  BY <2>2, <4>1, <4>2, <4>4, <4>5
    <3> QED  BY <3>1, <3>2
  <2> QED  BY <2>2, <2>5 DEF Descriptors
<1>11. RingOk'  BY <1>1, <1>2, KeptRing DEF Sound
<1>12. dirty' \subseteq Fds /\ open' \subseteq Fds  BY <1>1 DEF Sound
<1> QED  BY <1>2, <1>5, <1>8, <1>9, <1>10, <1>11, <1>12 DEF Sound

(* A task waits for a signal. *)
LEMMA WaitSignalOk == ASSUME Sound, WaitSignal PROVE Sound'
<1> DEFINE x == [st |-> "waiting", em |-> 0, rw |-> "posixsignal", due |-> NoDate, event |-> None]
<1>1. /\ Call /\ tasks' = [tasks EXCEPT ![running] = x] /\ running' = None
      /\ UNCHANGED <<events, nd, armed, watch, ready, sigBuffer, raised, unheard, arrivals, handlers,
                     avail, dirty, open>>
  BY DEF WaitSignal, Block, signals, kernel
<1>2. /\ pc = "tasks" /\ pc' = "tasks" /\ running \in Tasks /\ tasks[running].st # "waiting"
      /\ UNCHANGED <<loop_state, now, firing, sel, use>> /\ SleepOk'
  BY <1>1, CallOk
<1>3. x \in Task /\ x.st = "waiting" /\ x.due = NoDate /\ x.rw \notin RW /\ x.event = None
  BY DEF Task, Events, Dates, RW
<1> HIDE DEF x
<1>4. TasksOk'
  <2>1. TasksHold(tasks, ready, running)  BY DEF Sound, TasksOk
  <2>2. None \in {None, running}  OBVIOUS
  <2>3. TasksHold([tasks EXCEPT ![running] = x], ready, None)  BY <1>2, <1>3, <2>1, <2>2, StoppedOk
  <2> QED  BY <1>1, <2>3 DEF TasksOk
<1>5. \A t \in Tasks : tasks'[t] = IF t = running THEN x ELSE tasks[t]
  BY <1>1, <1>2 DEF Sound, TasksOk, TasksHold
<1>6. Clock'  BY <1>1, <1>2, KeptClock DEF Sound
<1>7. Waits'
  <2>1. \A t \in Tasks : tasks'[t].st = "waiting" /\ tasks'[t].due # NoDate => tasks'[t] = tasks[t]
    BY <1>3, <1>5
  <2> QED  BY <1>1, <1>2, <2>1, KeptBooked, KeptWaits DEF Sound
<1>8. Descriptors'
  <2>1. \A t \in Tasks : tasks'[t].rw \in RW => tasks'[t] = tasks[t]  BY <1>3, <1>5
  <2> QED  BY <1>1, <2>1, FewerDescriptors DEF Sound
<1>9. RingOk'  BY <1>1, <1>2, KeptRing DEF Sound
<1> QED  BY <1>1, <1>2, <1>4, <1>6, <1>7, <1>8, <1>9 DEF Sound

(* A task that ends, or is killed while it waits, waits for nothing. *)
LEMMA EndedOk ==
  ASSUME Sound, NEW t \in Tasks, pc = "tasks", pc' = "tasks",
         tasks' = [tasks EXCEPT ![t] = [NoTask EXCEPT !.st = "dead"]],
         \/ tasks[t].st = "waiting" /\ running' = running
         \/ t = running /\ running' = None,
         UNCHANGED <<loop_state, now, nd, events, armed, firing, watch, ready, sigBuffer, raised, unheard,
                     arrivals, handlers, avail, dirty, open, sel, use>>
  PROVE  Sound'
<1> DEFINE x == [NoTask EXCEPT !.st = "dead"]
<1>1. x \in Task /\ x.st = "dead" /\ x.due = NoDate /\ x.rw \notin RW /\ x.rw = None /\ x.event = None
  BY DEF Task, Events, Dates, RW, NoTask, None
<1> HIDE DEF x
<1>2. TasksHold(tasks, ready, running)  BY DEF Sound, TasksOk
<1>3. TasksOk'
  <2>1. CASE tasks[t].st = "waiting" /\ running' = running
    <3>1. running \in {None, running}  OBVIOUS
    <3>2. TasksHold([tasks EXCEPT ![t] = x], ready, running)  BY <1>1, <1>2, <2>1, <3>1, StoppedOk
    <3> QED  BY <2>1, <3>2 DEF TasksOk, x
  <2>2. CASE t = running /\ running' = None
    <3>1. None \in {None, running}  OBVIOUS
    <3>2. TasksHold([tasks EXCEPT ![t] = x], ready, None)  BY <1>1, <1>2, <2>2, <3>1, StoppedOk
    <3> QED  BY <2>2, <3>2 DEF TasksOk, x
  <2> QED  BY <2>1, <2>2
<1>4. \A u \in Tasks : tasks'[u] = IF u = t THEN x ELSE tasks[u]  BY <1>2 DEF TasksHold, x
<1>5. Clock'  BY KeptClock DEF Sound
<1>6. Waits'
  <2>1. \A u \in Tasks : tasks'[u].st = "waiting" => tasks'[u] = tasks[u]  BY <1>1, <1>4
  <2> QED  BY <2>1, KeptBooked, KeptWaits DEF Sound
<1>7. Descriptors'
  <2>1. \A u \in Tasks : tasks'[u].rw \in RW => tasks'[u] = tasks[u]  BY <1>1, <1>4
  <2> QED  BY <2>1, FewerDescriptors DEF Sound
<1>8. RingOk' /\ SleepOk'  BY KeptRing, AwakeSleep DEF Sound
<1> QED  BY <1>3, <1>5, <1>6, <1>7, <1>8 DEF Sound

(* A waiting task is killed: its watch and its timer remain. *)
LEMMA KillOk == ASSUME Sound, NEW t \in Tasks, Kill(t) PROVE Sound'
<1>1. /\ Call /\ tasks[t].st = "waiting" /\ tasks' = [tasks EXCEPT ![t] = [NoTask EXCEPT !.st = "dead"]]
      /\ UNCHANGED <<events, nd, armed, watch, ready, running, sigBuffer, raised, unheard, arrivals,
                     handlers, avail, dirty, open>>
  BY DEF Kill, signals, kernel
<1> QED  BY <1>1, CallOk, EndedOk

(* The running task ends. *)
LEMMA EndOk == ASSUME Sound, End PROVE Sound'
<1>1. /\ pc = "tasks" /\ running # None /\ running' = None
      /\ tasks' = [tasks EXCEPT ![running] = [NoTask EXCEPT !.st = "dead"]]
      /\ UNCHANGED <<pc, loop_state, now, nd, events, armed, firing, watch, ready, sigBuffer, raised,
                     unheard, arrivals, handlers, avail, dirty, open, sel, use>>
  BY DEF End, clock, signals, kernel
<1>2. running \in Tasks  BY <1>1 DEF Sound, TasksOk, TasksHold
<1> QED  BY <1>1, <1>2, EndedOk

(* What a socket that closes changes: its watches are removed, its tasks wake. *)
LEMMA ClosedDescriptors ==
  ASSUME Descriptors, NEW fd \in Fds,
         watch' = Unwatch(watch, fd), open' = open \ {fd}, dirty' = dirty \ {fd},
         \A t \in Tasks : /\ tasks'[t].rw = tasks[t].rw /\ tasks'[t].em = tasks[t].em
                          /\ tasks'[t].st = "waiting" =>
                               tasks[t].st = "waiting" /\ ~(tasks[t].em = fd /\ tasks[t].rw \in RW)
  PROVE  Descriptors'
<1> DEFINE v == Unwatch(watch, fd)
<1>1. WatchOk(watch) /\ Watchers  BY DEF Descriptors
<1>2. /\ WatchOk(v)
      /\ \A x \in RW, g \in Fds : Watched(v, x, g) <=> Watched(watch, x, g) /\ g # fd
      /\ \A x \in RW : v.func[x] = watch.func[x] \ {fd}
  BY <1>1, UnwatchOk
<1> HIDE DEF v
<1>3. watch' = v  BY DEF v
<1>4. Watchers'
  <2> SUFFICES ASSUME NEW t \in Tasks, tasks[t].rw \in RW
               PROVE  /\ tasks[t].em \in Fds
                      /\ tasks[t].em \in open \ {fd} =>
                           /\ Watched(v, tasks[t].rw, tasks[t].em)
                           /\ tasks[t].em \notin v.func[tasks[t].rw]
                           /\ \A u \in Tasks : tasks[u].rw = tasks[t].rw /\ tasks[u].em = tasks[t].em => u = t
                      /\ tasks'[t].st = "waiting" =>
                           /\ tasks[t].em \in open \ {fd}
                           /\ tasks[t].rw = "read" => tasks[t].em \notin dirty \ {fd}
    BY <1>3 DEF Watchers, Watched
  <2>1. /\ tasks[t].em \in Fds
        /\ tasks[t].em \in open =>
             /\ Watched(watch, tasks[t].rw, tasks[t].em)
             /\ tasks[t].em \notin watch.func[tasks[t].rw]
             /\ \A u \in Tasks : tasks[u].rw = tasks[t].rw /\ tasks[u].em = tasks[t].em => u = t
        /\ tasks[t].st = "waiting" =>
             /\ tasks[t].em \in open
             /\ tasks[t].rw = "read" => tasks[t].em \notin dirty
    BY <1>1 DEF Watchers
  <2> QED  BY <1>2, <2>1
<1> QED  BY <1>2, <1>3, <1>4 DEF Descriptors

(* The running task closes a socket. *)
LEMMA CloseOk == ASSUME Sound, NEW fd \in Fds, Close(fd) PROVE Sound'
<1> DEFINE ts == {t \in Tasks : Waiting(t, fd, RW)}
<1>1. /\ Call /\ fd \in open /\ watch' = Unwatch(watch, fd) /\ WakeTasks(ts, "closed")
      /\ open' = open \ {fd} /\ dirty' = dirty \ {fd}
      /\ UNCHANGED <<events, nd, armed, running, sigBuffer, raised, unheard, arrivals, handlers>>
  BY DEF Close, CloseFd, Wake, signals
<1>2. /\ pc = "tasks" /\ pc' = "tasks" /\ running \in Tasks
      /\ UNCHANGED <<loop_state, now, firing, sel, use>> /\ SleepOk'
  BY <1>1, CallOk
<1>3. /\ TasksOk'
      /\ \A t \in Tasks : /\ tasks'[t].rw = tasks[t].rw /\ tasks'[t].em = tasks[t].em
                          /\ tasks'[t].due = tasks[t].due
                          /\ tasks'[t].st = "waiting" <=> tasks[t].st = "waiting" /\ t \notin ts
  <2>1. ts \in SUBSET Tasks /\ (\A t \in ts : tasks[t].st = "waiting") /\ "closed" \in Events
    BY DEF Waiting, Events
  <2> HIDE DEF ts
  <2> QED  BY <1>1, <2>1, WakeTasksOk DEF Sound
<1>4. \A t \in Tasks : tasks'[t].st = "waiting" =>
        tasks[t].st = "waiting" /\ ~(tasks[t].em = fd /\ tasks[t].rw \in RW)
  BY <1>3 DEF Waiting
<1> HIDE DEF ts
<1>5. Descriptors'  BY <1>1, <1>3, <1>4, ClosedDescriptors DEF Sound
<1>6. Clock'  BY <1>1, <1>2, KeptClock DEF Sound
<1>7. Waits'  BY <1>1, <1>2, <1>3, KeptBooked, KeptWaits DEF Sound
<1>8. RingOk'  BY <1>1, <1>2, KeptRing DEF Sound
<1>9. open' \subseteq Fds /\ dirty' \subseteq Fds  BY <1>1 DEF Sound
<1> QED  BY <1>1, <1>2, <1>3, <1>5, <1>6, <1>7, <1>8, <1>9 DEF Sound

(* when_fd sets a callback. *)
LEMMA WhenFdOk == ASSUME Sound, NEW rw \in RW, NEW fd \in Fds, WhenFd(rw, fd) PROVE Sound'
<1> DEFINE v == AddWatch(watch, rw, fd, TRUE)
<1>1. /\ Call /\ fd \in open /\ ~Watched(watch, rw, fd) /\ watch' = v
      /\ UNCHANGED <<events, nd, armed, tasks, ready, running, sigBuffer, raised, unheard, arrivals, handlers,
                     avail, dirty, open>>
  BY DEF WhenFd, sched, signals, kernel
<1>2. pc = "tasks" /\ pc' = "tasks" /\ UNCHANGED <<loop_state, now, firing, sel, use>> /\ SleepOk'
  BY <1>1, CallOk
<1>3. WatchOk(watch) /\ Watchers  BY DEF Sound, Descriptors
<1>4. /\ WatchOk(v)
      /\ \A x \in RW, g \in Fds : Watched(v, x, g) <=> Watched(watch, x, g) \/ (x = rw /\ g = fd)
      /\ \A x \in RW : v.func[x] = watch.func[x] \cup (IF TRUE /\ x = rw THEN {fd} ELSE {})
  <2>1. ASSUME NEW b \in BOOLEAN, b = TRUE
        PROVE  LET a == AddWatch(watch, rw, fd, b)
               IN /\ WatchOk(a)
                  /\ \A x \in RW, g \in Fds : Watched(a, x, g) <=> Watched(watch, x, g) \/ (x = rw /\ g = fd)
                  /\ \A x \in RW : a.func[x] = watch.func[x] \cup (IF b /\ x = rw THEN {fd} ELSE {})
    BY <1>1, <1>3, AddWatchOk
  <2> QED  BY <2>1, Zenon
<1> HIDE DEF v
<1>5. Descriptors'
  <2>1. ASSUME NEW t \in Tasks, tasks[t].rw \in RW, tasks[t].em \in open
        PROVE  /\ Watched(v, tasks[t].rw, tasks[t].em)
               /\ tasks[t].em \notin v.func[tasks[t].rw]
    BY <1>1, <1>3, <1>4, <2>1 DEF Watchers
  <2> QED  BY <1>1, <1>3, <1>4, <2>1 DEF Descriptors, Watchers, Watched
<1>6. Clock' /\ Waits'  BY <1>1, <1>2, KeptClock, KeptBooked, KeptWaits DEF Sound
<1>7. TasksOk' /\ RingOk'  BY <1>1, <1>2, KeptTasks, KeptRing DEF Sound
<1> QED  BY <1>1, <1>2, <1>5, <1>6, <1>7 DEF Sound

(* when_fd removes a watch, a callback's or the one a killed task left. *)
LEMMA WhenFdNilOk ==
  ASSUME Sound, NoCorner, NEW rw \in RW, NEW fd \in Fds, WhenFdNil(rw, fd) PROVE Sound'
<1> DEFINE v == RemoveWatch(watch, rw, fd)
<1>1. /\ Call /\ watch' = v
      /\ UNCHANGED <<events, nd, armed, tasks, ready, running, sigBuffer, raised, unheard, arrivals, handlers,
                     avail, dirty, open>>
  BY DEF WhenFdNil, sched, signals, kernel
<1>2. pc = "tasks" /\ pc' = "tasks" /\ UNCHANGED <<loop_state, now, firing, sel, use>> /\ SleepOk'
  BY <1>1, CallOk
<1>3. WatchOk(watch) /\ Watchers  BY DEF Sound, Descriptors
<1>4. /\ WatchOk(v)
      /\ \A x \in RW, g \in Fds : Watched(v, x, g) <=> Watched(watch, x, g) /\ ~(x = rw /\ g = fd)
      /\ \A x \in RW : v.func[x] = watch.func[x] \ (IF x = rw THEN {fd} ELSE {})
  BY <1>3, RemoveWatchOk
<1> HIDE DEF v
<1>5. Descriptors'
  <2>2. \A t \in Tasks : tasks[t].rw = rw => tasks[t].em # fd
    BY Zenon DEF WhenFdNil, Droppable, NoCorner
  <2>1. ASSUME NEW t \in Tasks, tasks[t].rw \in RW, tasks[t].em \in open
        PROVE  /\ Watched(v, tasks[t].rw, tasks[t].em)
               /\ tasks[t].em \notin v.func[tasks[t].rw]
    BY <1>1, <1>3, <1>4, <2>1, <2>2 DEF Watchers
  <2> QED  BY <1>1, <1>3, <1>4, <2>1 DEF Descriptors, Watchers, Watched
<1>6. Clock' /\ Waits'  BY <1>1, <1>2, KeptClock, KeptBooked, KeptWaits DEF Sound
<1>7. TasksOk' /\ RingOk'  BY <1>1, <1>2, KeptTasks, KeptRing DEF Sound
<1> QED  BY <1>1, <1>2, <1>5, <1>6, <1>7 DEF Sound

(* A client books its timer. *)
LEMMA ClientAddsOk == ASSUME Sound, NEW y \in Timers, ClientAdds(y) PROVE Sound'
<1>1. /\ Call /\ Arm(y)
      /\ UNCHANGED <<watch, tasks, ready, running, sigBuffer, raised, unheard, arrivals, handlers,
                     avail, dirty, open>>
  BY DEF ClientAdds, sched, signals, kernel
<1>2. pc = "tasks" /\ pc' = "tasks" /\ UNCHANGED <<loop_state, now, firing, sel, use>> /\ SleepOk'
  BY <1>1, CallOk
<1>3. /\ Clock'
      /\ \A t \in Tasks, x \in Nat : Booked(Timeout(t, x), x) => Booked(Timeout(t, x), x)'
  BY <1>1, <1>2, ArmOk
<1>4. Waits'  BY <1>1, <1>3, KeptWaits DEF Sound
<1>5. TasksOk' /\ Descriptors' /\ RingOk'  BY <1>1, <1>2, KeptTasks, KeptDescriptors, KeptRing DEF Sound
<1> QED  BY <1>1, <1>2, <1>3, <1>4, <1>5 DEF Sound

(* A client cancels its timer. *)
LEMMA ClientCancelsOk == ASSUME Sound, NEW y \in Timers, ClientCancels(y) PROVE Sound'
<1> DEFINE gone == {<<Client(y), nd[y]>>}
<1>1. /\ Call /\ Registered(events, Client(y), nd[y]) /\ events' = RemoveTimers(events, gone)
      /\ nd' = [nd EXCEPT ![y] = NoDate] /\ armed' = [armed EXCEPT ![y] = NoDate]
      /\ UNCHANGED <<watch, tasks, ready, running, sigBuffer, raised, unheard, arrivals, handlers,
                     avail, dirty, open>>
  BY DEF ClientCancels, sched, signals, kernel
<1>2. pc = "tasks" /\ pc' = "tasks" /\ UNCHANGED <<loop_state, now, firing, sel, use>> /\ SleepOk'
  BY <1>1, CallOk
<1>3. /\ EventsOk(events) /\ firing.left = {} /\ nd = armed /\ armed \in [Timers -> Dates]
      /\ \A z \in Timers : /\ armed[z] # NoDate => Registered(events, Client(z), armed[z])
                           /\ \A x : Registered(events, Client(z), x) => armed[z] = x
  <2>1. EventsOk(events) /\ firing.left = {}  BY <1>2 DEF Sound, Clock, FiringOk
  <2> QED  BY <2>1, NextEventOk DEF Sound, Clock, TimersOk, Booked
<1>4. /\ \A z \in Timers : \A x : <<Client(z), x>> \in gone <=> z = y /\ x = armed[y]
      /\ \A t \in Tasks, x \in Nat : <<Timeout(t, x), x>> \notin gone
  BY <1>3, ClientEntry, DatesOk
<1> HIDE DEF gone
<1>5. /\ EventsOk(events')
      /\ \A z, x : Registered(events', z, x) <=> Registered(events, z, x) /\ <<z, x>> \notin gone
  BY <1>1, <1>3, RemovedOk
<1>6. /\ nd' = armed' /\ armed' \in [Timers -> Dates]
      /\ \A z \in Timers : armed'[z] = IF z = y THEN NoDate ELSE armed[z]
  BY <1>1, <1>3 DEF Dates
<1>7. Clock'
  <2>1. FiringOk'  BY <1>2, <1>3 DEF Sound, Clock, FiringOk
  <2>2. ASSUME NEW z \in Timers
        PROVE  /\ armed'[z] # NoDate => Registered(events', Client(z), armed'[z])
               /\ \A x : Registered(events', Client(z), x) => armed'[z] = x
               /\ Client(z) \notin firing.left
    BY <1>3, <1>4, <1>5, <1>6
  <2>3. TimersOk'  BY <1>2, <1>6, <2>2 DEF TimersOk, Booked
  <2> QED  BY <1>5, <2>1, <2>3 DEF Clock
<1>8. Waits'
  <2>1. \A t \in Tasks, x \in Nat : Booked(Timeout(t, x), x) => Booked(Timeout(t, x), x)'
    BY <1>2, <1>4, <1>5 DEF Booked
  <2> QED  BY <1>1, <2>1, KeptWaits DEF Sound
<1>9. TasksOk' /\ Descriptors' /\ RingOk'  BY <1>1, <1>2, KeptTasks, KeptDescriptors, KeptRing DEF Sound
<1> QED  BY <1>1, <1>2, <1>7, <1>8, <1>9 DEF Sound

(* A signal gets a handler, or loses it. *)
LEMMA HandlersOk == ASSUME Sound, NEW sig \in Signals, Listen(sig) \/ Ignore(sig) PROVE Sound'
<1>1. /\ Call /\ handlers' \subseteq handlers \cup {sig} /\ raised' \subseteq raised
      /\ UNCHANGED <<events, nd, armed, watch, tasks, ready, running, sigBuffer, unheard, avail, dirty, open>>
  BY DEF Listen, Ignore, sched, signals, kernel
<1>2. pc = "tasks" /\ pc' = "tasks" /\ UNCHANGED <<loop_state, now, firing, sel, use>> /\ SleepOk'
  BY <1>1, CallOk
<1>3. RingOk'  BY <1>1, <1>2 DEF Sound, RingOk
<1>4. Clock' /\ Waits'  BY <1>1, <1>2, KeptClock, KeptBooked, KeptWaits DEF Sound
<1>5. TasksOk' /\ Descriptors'  BY <1>1, KeptTasks, KeptDescriptors DEF Sound
<1> QED  BY <1>1, <1>2, <1>3, <1>4, <1>5 DEF Sound

(* The loop is asked to stop. *)
LEMMA StopOk == ASSUME Sound, Stop PROVE Sound'
<1>1. /\ pc = "tasks"
      /\ UNCHANGED <<pc, now, nd, events, armed, firing, watch, tasks, ready, running, sigBuffer, raised, unheard,
                     arrivals, handlers, avail, dirty, open, sel, use>>
  BY DEF Stop, clock, sched, signals, kernel
<1>2. Clock' /\ Waits'  BY <1>1, KeptClock, KeptBooked, KeptWaits DEF Sound
<1>3. TasksOk' /\ Descriptors' /\ RingOk' /\ SleepOk'
  BY <1>1, KeptTasks, KeptDescriptors, KeptRing, AwakeSleep DEF Sound
<1> QED  BY <1>1, <1>2, <1>3 DEF Sound

(* Every call of the running task. *)
LEMMA OperationOk == ASSUME Sound, NoCorner, Operation PROVE Sound'
<1>1. \A p \in use.watches : p[1] \in RW /\ p[2] \in Fds  BY LoopConstants DEF Sound
<1>2. use.timers \subseteq Timers  BY LoopConstants DEF Sound
<1>3. CASE \E p \in use.watches, delay \in Delays : WaitFd(p[1], p[2], delay)  BY <1>1, <1>3, WaitFdOk
<1>4. CASE WaitSignal \/ Stop \/ End  BY <1>4, WaitSignalOk, StopOk, EndOk
<1>5. CASE \E p \in use.watches : WhenFd(p[1], p[2]) \/ WhenFdNil(p[1], p[2]) \/ Close(p[2])
  BY <1>1, <1>5, WhenFdOk, WhenFdNilOk, CloseOk
<1>6. CASE \E y \in use.timers : ClientAdds(y) \/ ClientCancels(y)
  BY <1>2, <1>6, ClientAddsOk, ClientCancelsOk
<1>7. CASE \E sig \in Signals : Listen(sig) \/ Ignore(sig)  BY <1>7, HandlersOk
<1>8. CASE \E t \in Tasks : Kill(t)  BY <1>8, KillOk
<1> QED  BY <1>3, <1>4, <1>5, <1>6, <1>7, <1>8 DEF Operation

-----------------------------------------------------------------------------
(* fd_step, and l_select *)

(* No task is ready: the timeout is computed from the first date. *)
LEMMA EnterSelectOk == ASSUME Sound, EnterSelect PROVE Sound'
<1> DEFINE date == NextEvent(events)
           timeout == IF date = NoDate THEN NoTimeout ELSE IF date < now THEN 0 ELSE date - now
<1>1. /\ pc = "tasks" /\ running = None /\ ready = <<>> /\ pc' = "deliver"
      /\ sel' = [NoSelect EXCEPT !.seen = now, !.received = sigBuffer.nSig # 0,
                                 !.at = FirstPending(sigBuffer), !.timeout = timeout]
      /\ UNCHANGED <<loop_state, now, nd, events, armed, firing, watch, tasks, ready, running, sigBuffer, raised,
                     unheard, arrivals, handlers, avail, dirty, open, ops, use>>
  BY DEF EnterSelect, clock, sched, signals, kernel
<1>2. now \in Nat /\ EventsOk(events) /\ RingHolds(sigBuffer, unheard)  BY DEF Sound, Clock, RingOk
<1>3. /\ timeout \in Nat \cup {NoTimeout}
      /\ \A d \in DOMAIN events.at : timeout # NoTimeout /\ (timeout = 0 \/ now + timeout <= d)
  <2>1. /\ \A d \in DOMAIN events.at : events.dates # <<>> /\ Head(events.dates) <= d
        /\ events.dates # <<>> => Head(events.dates) \in Nat
        /\ DOMAIN events.at \subseteq Nat
    BY <1>2, NextEventOk
  <2>2. date = IF events.dates = <<>> THEN NoDate ELSE Head(events.dates)  BY DEF NextEvent
  <2> HIDE DEF date
  <2>3. CASE events.dates = <<>>  BY <2>1, <2>2, <2>3
  <2>4. CASE events.dates # <<>>
    <3>1. date \in Nat /\ date # NoDate /\ \A d \in DOMAIN events.at : date <= d /\ d \in Nat
      BY <2>1, <2>2, <2>4, DatesOk
    <3>2. timeout = IF date < now THEN 0 ELSE date - now  BY <3>1
    <3> HIDE DEF timeout
    <3>3. timeout \in Nat /\ (timeout = 0 \/ now + timeout = date)  BY <1>2, <3>1, <3>2
    <3>4. timeout # NoTimeout  BY <3>3 DEF NoTimeout
    <3> QED  BY <3>1, <3>3, <3>4
  <2> QED  BY <2>3, <2>4
<1> HIDE DEF timeout
<1>4. FirstPending(sigBuffer) \in Nat
  <2>1. /\ MAX_SIGNALS \in Nat \ {0} /\ sigBuffer.lastI \in -1 .. MAX_SIGNALS - 1
        /\ sigBuffer.nSig \in 0 .. MAX_SIGNALS /\ (sigBuffer.lastI = -1 => sigBuffer.nSig = 0)
    BY <1>2, SignalConstants DEF RingHolds
  <2> QED  BY <2>1 DEF FirstPending
<1>5. /\ sel'.seen = now /\ sel'.timeout = timeout /\ sel'.received = (sigBuffer.nSig # 0)
      /\ sel'.at = FirstPending(sigBuffer)
      /\ sel' \in [seen : Nat, timeout : Nat \cup {NoTimeout}, received : BOOLEAN, at : Nat,
                   since : {0}, deadline : {0}, dirty : {<<>>}, rset : {{}}, wset : {{}},
                   read : {<<>>}, write : {<<>>}]
  BY <1>1, <1>2, <1>3, <1>4 DEF NoSelect
<1>6. SleepOk'  BY <1>1, <1>3, <1>5 DEF SleepOk, SleepsSafely
<1>7. RingOk'  BY <1>1, <1>2, <1>5, FirstPendingOk DEF Sound, RingOk
<1>8. Clock' /\ Waits'  BY <1>1, KeptClock, KeptBooked, KeptWaits DEF Sound
<1>9. TasksOk' /\ Descriptors'  BY <1>1, KeptTasks, KeptDescriptors DEF Sound
<1> QED  BY <1>1, <1>6, <1>7, <1>8, <1>9 DEF Sound

(* A signal of the ring is signalled, and a hook may book a timer. *)
LEMMA DeliverSignalOk == ASSUME Sound, DeliverSignal PROVE Sound'
<1> DEFINE ts == {t \in Tasks : Waiting(t, 0, {"posixsignal"})}
<1>1. /\ pc = "deliver" /\ sigBuffer.nSig > 0 /\ WakeTasks(ts, "posixsignal")
      /\ sigBuffer' = Deliver(sigBuffer) /\ unheard' = Tail(unheard)
      /\ sel' = [sel EXCEPT !.at = (@ + 1) % MAX_SIGNALS]
      /\ UNCHANGED <<events, nd, armed>> \/ \E y \in use.timers : Arm(y)
      /\ UNCHANGED <<pc, now, firing, watch, running, raised, arrivals, handlers, avail, dirty, open, use>>
  BY DEF DeliverSignal, Wake, kernel
<1>2. /\ TasksOk'
      /\ \A t \in Tasks : /\ tasks'[t].rw = tasks[t].rw /\ tasks'[t].em = tasks[t].em
                          /\ tasks'[t].due = tasks[t].due
                          /\ tasks'[t].st = "waiting" <=> tasks[t].st = "waiting" /\ t \notin ts
  <2>1. ts \in SUBSET Tasks /\ (\A t \in ts : tasks[t].st = "waiting") /\ "posixsignal" \in Events
    BY DEF Waiting, Events
  <2> HIDE DEF ts
  <2> QED  BY <1>1, <2>1, WakeTasksOk DEF Sound
<1> HIDE DEF ts
<1>3. /\ Clock'
      /\ \A t \in Tasks, x \in Nat : Booked(Timeout(t, x), x) => Booked(Timeout(t, x), x)'
  <2>1. CASE UNCHANGED <<events, nd, armed>>  BY <1>1, <2>1, KeptClock, KeptBooked DEF Sound
  <2>2. CASE \E y \in use.timers : Arm(y)
    <3>1. use.timers \subseteq Timers  BY LoopConstants DEF Sound
    <3> QED  BY <1>1, <2>2, <3>1, ArmOk
  <2> QED  BY <1>1, <2>1, <2>2
<1>4. Waits'  BY <1>2, <1>3, KeptWaits DEF Sound
<1>5. Descriptors'  BY <1>1, <1>2, WokenDescriptors DEF Sound
<1>6. /\ sel \in [seen : Nat, timeout : Nat \cup {NoTimeout}, received : BOOLEAN, at : Nat,
                  since : {0}, deadline : {0}, dirty : {<<>>}, rset : {{}}, wset : {{}},
                  read : {<<>>}, write : {<<>>}]
      /\ sigBuffer.nSig \in Nat /\ (~sel.received => sigBuffer.nSig = 0)
      /\ RingHolds(sigBuffer, unheard)
  BY <1>1 DEF Sound, SleepOk, RingOk, RingHolds
<1>7. /\ RingHolds(sigBuffer', unheard') /\ unheard # <<>>
      /\ sel.at = (sigBuffer.lastI - sigBuffer.nSig + 1) % MAX_SIGNALS
      /\ (sel.at + 1) % MAX_SIGNALS = (sigBuffer'.lastI - sigBuffer'.nSig + 1) % MAX_SIGNALS
  <2>1. /\ RingHolds(Deliver(sigBuffer), Tail(unheard)) /\ unheard # <<>>
        /\ (((sigBuffer.lastI - sigBuffer.nSig + 1) % MAX_SIGNALS) + 1) % MAX_SIGNALS
              = (Deliver(sigBuffer).lastI - Deliver(sigBuffer).nSig + 1) % MAX_SIGNALS
    BY <1>1, <1>6, DeliverOk
  <2>2. sel.at = (sigBuffer.lastI - sigBuffer.nSig + 1) % MAX_SIGNALS  BY <1>1, <2>1 DEF Sound, RingOk
  <2> QED  BY <1>1, <2>1, <2>2
<1>8. /\ sel'.at = (sel.at + 1) % MAX_SIGNALS /\ sel'.received = sel.received
      /\ sel' \in [seen : Nat, timeout : Nat \cup {NoTimeout}, received : BOOLEAN, at : Nat,
                   since : {0}, deadline : {0}, dirty : {<<>>}, rset : {{}}, wset : {{}},
                   read : {<<>>}, write : {<<>>}]
  <2>1. sel.at \in Nat /\ MAX_SIGNALS \in Nat \ {0}  BY <1>6, SignalConstants
  <2>2. (sel.at + 1) % MAX_SIGNALS \in Nat  BY <2>1
  <2> QED  BY <1>1, <1>6, <2>2
<1>9. RingOk'  BY <1>1, <1>7, <1>8 DEF Sound, RingOk
<1>10. SleepOk'
  <2>1. sel.received  BY <1>1, <1>6
  <2> QED  BY <1>1, <1>8, <2>1 DEF SleepOk, SleepsSafely
<1> QED  BY <1>1, <1>2, <1>3, <1>4, <1>5, <1>9, <1>10 DEF Sound

(* What a step of select that leaves the tasks and the timers alone keeps. *)
LEMMA SelectKeeps ==
  ASSUME Sound, pc \notin {"tasks", "fire"}, pc' \notin {"tasks", "fire"},
         UNCHANGED <<now, nd, events, armed, firing, watch, tasks, ready, running, dirty, open, use>>
  PROVE  /\ Clock' /\ Waits' /\ TasksOk' /\ Descriptors'
         /\ use' \in Instances /\ now' \in Nat /\ open' \subseteq Fds /\ dirty' \subseteq Fds
         /\ pc' # "tasks" => running' = None
<1>1. Clock' /\ Waits'  BY KeptClock, KeptBooked, KeptWaits DEF Sound
<1>2. TasksOk' /\ Descriptors'  BY KeptTasks, KeptDescriptors DEF Sound
<1> QED  BY <1>1, <1>2 DEF Sound

(* select collects its sets, and sleeps only when nothing came. *)
LEMMA SelectOk == ASSUME Sound, Select PROVE Sound'
<1> DEFINE r == CheckDirty(watch.list["read"], open, dirty)
           c == Collected
<1>1. /\ pc = "deliver" /\ sigBuffer.nSig = 0
      /\ UNCHANGED <<loop_state, now, nd, events, armed, firing, watch, tasks, ready, running, sigBuffer, raised,
                     unheard, arrivals, handlers, avail, dirty, open, ops, use>>
  BY DEF Select, clock, sched, signals, kernel
<1>2. CASE sel.received
  <2>1. pc' = "unmask"  BY <1>2 DEF Select, Return
  <2>2. RingOk' /\ SleepOk'  BY <1>1, <2>1, KeptRing, AwakeSleep DEF Sound
  <2> QED  BY <1>1, <2>1, <2>2, SelectKeeps DEF Sound
<1>3. CASE ~sel.received
  <2>1. pc' = "asleep" /\ sel' = c  BY <1>3 DEF Select
  <2>2. /\ sel \in [seen : Nat, timeout : Nat \cup {NoTimeout}, received : BOOLEAN, at : Nat,
                    since : {0}, deadline : {0}, dirty : {<<>>}, rset : {{}}, wset : {{}},
                    read : {<<>>}, write : {<<>>}]
        /\ ready = <<>> /\ running = None
        /\ \A d \in DOMAIN events.at : sel.timeout # NoTimeout
                                       /\ (sel.timeout = 0 \/ sel.seen + sel.timeout <= d)
    BY <1>1, <1>3 DEF Sound, SleepOk
  <2>3. /\ c.rset = (ToSet(watch.list["read"]) \cap open) \ dirty
        /\ c.wset = ToSet(watch.list["write"]) \cap open
        /\ c.timeout = EffectiveTimeout(Len(r.ready), sel.timeout) /\ c.seen = sel.seen
        /\ c.since = now /\ c.deadline = now + c.timeout
    BY <2>2 DEF Collected, CheckDirty
  <2>4. c.timeout = 0 \/ c.timeout = sel.timeout  BY <2>3 DEF EffectiveTimeout
  <2> HIDE DEF c
  <2>6. firing.left = {} /\ EventsOk(events)  BY <1>1 DEF Sound, Clock, FiringOk
  <2>5. ASSUME NEW d \in DOMAIN events.at
        PROVE  c.timeout # NoTimeout /\ (c.timeout = 0 \/ c.deadline <= d + (c.since - c.seen))
    <3>1. c.timeout # NoTimeout /\ (c.timeout = 0 \/ c.seen + c.timeout <= d)
      BY <2>2, <2>3, <2>4 DEF NoTimeout
    <3>2. c.seen \in Nat /\ c.timeout \in Nat /\ now \in Nat
      BY <2>2, <2>3, <2>4, <3>1 DEF Sound, NoTimeout
    <3>3. d \in Nat  BY <2>6 DEF EventsOk
    <3> QED  BY <2>3, <3>1, <3>2, <3>3
  <2>7. \A z, d : Booked(z, d) => d \in DOMAIN events.at  BY <2>6, NextEventOk DEF Booked
  <2>8. \A y \in Timers : armed[y] # NoDate => armed[y] \in DOMAIN events.at
    BY <2>7 DEF Sound, Clock, TimersOk
  <2>9. ASSUME NEW t \in Tasks, tasks[t].due # NoDate
        PROVE  tasks[t].due \in DOMAIN events.at
    <3>1. tasks[t].st = "waiting"
      <4>1. 1 .. Len(ready) = {}  BY <2>2
      <4> QED  BY <2>9, <4>1 DEF Sound, TasksOk, TasksHold
    <3> QED  BY <2>7, <2>9, <3>1 DEF Sound, Waits
  <2>10. ASSUME NEW t \in Tasks, NEW fd \in Fds, NEW rw \in RW, Waiting(t, fd, {rw})
         PROVE  /\ fd \in ToSet(watch.list[rw]) \cap open
                /\ rw = "read" => fd \notin dirty
    <3>1. tasks[t].st = "waiting" /\ tasks[t].em = fd /\ tasks[t].rw = rw  BY <2>10 DEF Waiting
    <3>2. WatchOk(watch) /\ Watchers  BY DEF Sound, Descriptors
    <3>3. fd \in open /\ Watched(watch, rw, fd) /\ (rw = "read" => fd \notin dirty)
      BY <3>1, <3>2 DEF Watchers
    <3>4. /\ watch.index[rw][fd] \in 1 .. Len(watch.list[rw])
          /\ watch.list[rw][watch.index[rw][fd]] = fd /\ watch.list[rw] \in Seq(Fds)
      BY <3>2, <3>3 DEF WatchOk, Watched
    <3>5. fd \in ToSet(watch.list[rw])  BY <3>4, LenProperties DEF ToSet
    <3> QED  BY <3>3, <3>5
  <2>11. "read" \in RW /\ "write" \in RW  BY DEF RW
  <2>12. SleepsSafely'
    <3>1. \A d \in {armed[y] : y \in Timers} \cup {tasks[t].due : t \in Tasks} :
            d # NoDate => /\ c.timeout # NoTimeout
                          /\ c.timeout = 0 \/ c.deadline <= d + (c.since - c.seen)
      BY <2>5, <2>8, <2>9
    <3>2. \A t \in Tasks, fd \in Fds : /\ Waiting(t, fd, {"read"}) => fd \in c.rset
                                       /\ Waiting(t, fd, {"write"}) => fd \in c.wset
      BY <2>3, <2>10, <2>11
    <3> QED  BY <1>1, <2>1, <2>2, <3>1, <3>2 DEF SleepsSafely, Waiting
  <2>13. SleepOk'  BY <2>1, <2>12 DEF SleepOk
  <2>14. RingOk'  BY <1>1, <2>1, KeptRing DEF Sound
  <2> QED  BY <1>1, <2>1, <2>13, <2>14, SelectKeeps DEF Sound
<1> QED  BY <1>2, <1>3

(* pselect returns, and the mask is restored. *)
LEMMA SelectEndsOk == ASSUME Sound, SelectReady \/ SelectTimeout \/ Unmasked PROVE Sound'
<1>1. /\ pc \in {"asleep", "unmask"} /\ pc' \in {"unmask", "notify"}
      /\ UNCHANGED <<loop_state, now, nd, events, armed, firing, watch, tasks, ready, running, sigBuffer, raised,
                     unheard, arrivals, handlers, avail, dirty, open, ops, use>>
  BY DEF SelectReady, SelectTimeout, Unmasked, Return, clock, sched, signals, kernel
<1>2. RingOk' /\ SleepOk'  BY <1>1, KeptRing, AwakeSleep DEF Sound
<1> QED  BY <1>1, <1>2, SelectKeeps DEF Sound

(* A signal that is caught joins the ring. *)
LEMMA CatchOk ==
  ASSUME RingOk, NEW sig \in Signals, Catch(sig), raised' \subseteq raised, handlers' = handlers,
         pc' # "deliver"
  PROVE  RingOk'
<1>1. RingHolds(SignalHandler(sigBuffer, sig),
                LET v == Append(unheard, sig) IN IF Len(v) > MAX_SIGNALS THEN Tail(v) ELSE v)
  BY SignalHandlerOk DEF RingOk
<1>2. RingHolds(sigBuffer', unheard')  BY <1>1 DEF Catch
<1> QED  BY <1>2 DEF RingOk

(* A signal that was pending is caught. *)
LEMMA UnmaskOk == ASSUME Sound, NEW sig \in Signals, SelectInterrupted(sig) \/ Unmask(sig) PROVE Sound'
<1>1. /\ pc \in {"asleep", "unmask"} /\ pc' = "unmask" /\ raised' \subseteq raised /\ Catch(sig)
      /\ UNCHANGED <<loop_state, now, nd, events, armed, firing, watch, tasks, ready, running,
                     arrivals, handlers, avail, dirty, open, ops, use>>
  BY DEF SelectInterrupted, Unmask, Return, clock, sched, kernel
<1>2. RingOk' /\ SleepOk'  BY <1>1, CatchOk, AwakeSleep DEF Sound
<1> QED  BY <1>1, <1>2, SelectKeeps DEF Sound

(* The loop turns, or stops. *)
LEMMA TurnOk == ASSUME Sound, Turn PROVE Sound'
<1>1. /\ pc = "notify" /\ pc' \in {"timers", "stopped"}
      /\ UNCHANGED <<now, nd, events, armed, firing, watch, tasks, ready, running, sigBuffer, raised,
                     unheard, arrivals, handlers, avail, dirty, open, ops, use>>
  BY DEF Turn, clock, sched, signals, kernel
<1>2. RingOk' /\ SleepOk'  BY <1>1, KeptRing, AwakeSleep DEF Sound
<1> QED  BY <1>1, <1>2, SelectKeeps DEF Sound

(* A descriptor becomes ready. *)
LEMMA BecomesOk == ASSUME Sound, NEW rw \in RW, NEW fd \in Fds, Becomes(rw, fd) PROVE Sound'
<1>1. /\ pc = "asleep"
      /\ UNCHANGED <<pc, loop_state, now, nd, events, armed, firing, watch, tasks, ready, running, sigBuffer,
                     raised, unheard, arrivals, handlers, dirty, open, sel, ops, use>>
  BY DEF Becomes, clock, sched, signals
<1>2. RingOk'  BY <1>1, KeptRing DEF Sound
<1>3. SleepOk'  BY <1>1 DEF Sound, SleepOk, SleepsSafely, Waiting
<1> QED  BY <1>1, <1>2, <1>3, SelectKeeps DEF Sound

(* A signal is sent: it is pending, or caught at once. *)
LEMMA ArriveOk == ASSUME Sound, NEW sig \in Signals, Arrive(sig) PROVE Sound'
<1>1. /\ pc \in {"tasks", "asleep", "unmask"} /\ sig \in handlers
      /\ UNCHANGED <<pc, loop_state, now, nd, events, armed, firing, watch, tasks, ready, running, handlers,
                     avail, dirty, open, sel, ops, use>>
  BY DEF Arrive, clock, sched, kernel
<1>2. RingOk'
  <2>1. CASE Masked
    <3>1. raised' = raised \cup {sig} /\ UNCHANGED <<sigBuffer, unheard>>  BY <2>1 DEF Arrive
    <3> QED  BY <1>1, <3>1 DEF Sound, RingOk
  <2>2. CASE ~Masked
    <3>1. Catch(sig) /\ UNCHANGED raised  BY <2>2 DEF Arrive
    <3> QED  BY <1>1, <3>1, CatchOk DEF Sound
  <2> QED  BY <2>1, <2>2
<1>3. SleepOk'
  <2>1. CASE pc = "asleep"
    <3>1. UNCHANGED sigBuffer  BY <2>1 DEF Arrive, Masked
    <3> QED  BY <1>1, <2>1, <3>1 DEF Sound, SleepOk, SleepsSafely, Waiting
  <2>2. CASE pc # "asleep"  BY <1>1, <2>2, AwakeSleep
  <2> QED  BY <2>1, <2>2
<1>4. Clock' /\ Waits' /\ TasksOk' /\ Descriptors'
  BY <1>1, KeptClock, KeptBooked, KeptWaits, KeptTasks, KeptDescriptors DEF Sound
<1> QED  BY <1>1, <1>2, <1>3, <1>4 DEF Sound

-----------------------------------------------------------------------------
(* notify_fd *)

(* The watches and the tasks after a notification: a socket g may have closed
   before fd is dropped and its tasks woken. *)
LEMMA NotifiedDescriptors ==
  ASSUME Sound, NEW rw \in RW, NEW fd, NEW again \in BOOLEAN, NEW closed \in SUBSET Fds,
         NEW w, WatchOk(w),
         \A x \in RW, g \in Fds : Watched(w, x, g) <=> Watched(watch, x, g) /\ g \notin closed,
         \A x \in RW : w.func[x] = watch.func[x] \ closed,
         watch' = IF fd \in watch.func[rw] /\ ~again THEN RemoveWatch(w, rw, fd) ELSE w,
         open' = open \ closed,
         dirty' \in IF fd \in watch.func[rw] /\ rw = "read" /\ fd \in open'
                    THEN {dirty \ (closed \cup {fd}), (dirty \ closed) \cup {fd}} ELSE {dirty \ closed},
         \A t \in Tasks : /\ tasks'[t].rw = tasks[t].rw /\ tasks'[t].em = tasks[t].em
                          /\ tasks'[t].st = "waiting" =>
                               tasks[t].st = "waiting" /\ ~(tasks[t].em \in closed /\ tasks[t].rw \in RW)
  PROVE  Descriptors' /\ open' \subseteq Fds /\ dirty' \subseteq Fds
<1>1. WatchOk(watch) /\ Watchers /\ open \subseteq Fds /\ dirty \subseteq Fds
      /\ \A x \in RW : watch.func[x] \subseteq Fds
  BY DEF Sound, Descriptors, WatchOk
<1>2. /\ WatchOk(watch')
      /\ \A x \in RW, g \in Fds : Watched(watch', x, g) <=>
           Watched(watch, x, g) /\ g \notin closed /\ ~(x = rw /\ g = fd /\ fd \in watch.func[rw] /\ ~again)
      /\ \A x \in RW : watch'.func[x] \subseteq watch.func[x]
  <2>1. CASE fd \in watch.func[rw] /\ ~again
    <3> DEFINE v == RemoveWatch(w, rw, fd)
    <3>1. fd \in Fds  BY <1>1, <2>1
    <3>2. /\ WatchOk(v)
          /\ \A x \in RW, g \in Fds : Watched(v, x, g) <=> Watched(w, x, g) /\ ~(x = rw /\ g = fd)
          /\ \A x \in RW : v.func[x] = w.func[x] \ (IF x = rw THEN {fd} ELSE {})
      BY <3>1, RemoveWatchOk
    <3> HIDE DEF v
    <3>3. watch' = v  BY <2>1 DEF v
    <3>4. \A x \in RW : watch'.func[x] \subseteq watch.func[x]  BY <3>2, <3>3
    <3> QED  BY <2>1, <3>2, <3>3, <3>4
  <2>2. CASE ~(fd \in watch.func[rw] /\ ~again)
    <3>1. watch' = w  BY <2>2
    <3>2. \A x \in RW : watch'.func[x] \subseteq watch.func[x]  BY <3>1
    <3> QED  BY <2>2, <3>1, <3>2
  <2> QED  BY <2>1, <2>2
<1>3. /\ dirty' \subseteq dirty \cup {fd} /\ open' \subseteq Fds /\ dirty' \subseteq Fds
      /\ fd \in dirty' => fd \in dirty \/ fd \in watch.func["read"]
  BY <1>1 DEF RW
<1>4. Watchers'
  <2> SUFFICES ASSUME NEW t \in Tasks, tasks[t].rw \in RW
               PROVE  /\ tasks[t].em \in Fds
                      /\ tasks[t].em \in open \ closed =>
                           /\ Watched(watch', tasks[t].rw, tasks[t].em)
                           /\ tasks[t].em \notin watch'.func[tasks[t].rw]
                           /\ \A u \in Tasks : tasks[u].rw = tasks[t].rw /\ tasks[u].em = tasks[t].em => u = t
                      /\ tasks'[t].st = "waiting" =>
                           /\ tasks[t].em \in open \ closed
                           /\ tasks[t].rw = "read" => tasks[t].em \notin dirty'
    BY DEF Watchers, Watched
  <2>1. /\ tasks[t].em \in Fds
        /\ tasks[t].em \in open =>
             /\ Watched(watch, tasks[t].rw, tasks[t].em)
             /\ tasks[t].em \notin watch.func[tasks[t].rw]
             /\ \A u \in Tasks : tasks[u].rw = tasks[t].rw /\ tasks[u].em = tasks[t].em => u = t
        /\ tasks[t].st = "waiting" =>
             /\ tasks[t].em \in open
             /\ tasks[t].rw = "read" => tasks[t].em \notin dirty
    BY <1>1 DEF Watchers
  <2>2. ASSUME tasks[t].em \in open \ closed
        PROVE  /\ Watched(watch', tasks[t].rw, tasks[t].em)
               /\ tasks[t].em \notin watch'.func[tasks[t].rw]
    <3>1. ~(tasks[t].rw = rw /\ tasks[t].em = fd /\ fd \in watch.func[rw])  BY <2>1, <2>2
    <3> QED  BY <1>2, <2>1, <2>2, <3>1
  <2>3. ASSUME tasks'[t].st = "waiting"
        PROVE  /\ tasks[t].em \in open \ closed
               /\ tasks[t].rw = "read" => tasks[t].em \notin dirty'
    <3>1. tasks[t].st = "waiting" /\ tasks[t].em \in open \ closed  BY <2>1, <2>3
    <3>2. ASSUME tasks[t].rw = "read" PROVE tasks[t].em \notin dirty'
      <4>1. tasks[t].em \notin dirty /\ tasks[t].em \notin watch.func["read"]  BY <2>1, <3>1, <3>2
      <4> QED  BY <1>3, <4>1
    <3> QED  BY <3>1, <3>2
  <2> QED  BY <2>1, <2>2, <2>3
<1> QED  BY <1>2, <1>3, <1>4 DEF Descriptors

(* notify_fd calls the callback of a descriptor, or wakes its tasks. *)
LEMMA NotifyOk ==
  ASSUME Sound, NEW rw \in RW, NEW fd, NEW again \in BOOLEAN,
         NEW closed \in {{}} \cup {{p[2]} : p \in use.watches}, Notify(rw, fd, again, closed)
  PROVE  Sound'
<1> DEFINE func == fd \in watch.func[rw]
           w == IF closed = {} THEN watch ELSE Unwatch(watch, CHOOSE g \in closed : TRUE)
           ts == {t \in Tasks : \E g \in closed : Waiting(t, g, RW)}
           us == {t \in Tasks : Waiting(t, fd, {rw})}
<1>1. PICK order \in SetToSeqs(ts) :
        /\ ready' = ready \o order \o SetToSeq(us \ ToSet(order))
        /\ tasks' = [t \in Tasks |->
             IF t \in ToSet(order) THEN [tasks[t] EXCEPT !.st = "ready", !.event = "closed"]
             ELSE IF t \in us \ ToSet(order) THEN [tasks[t] EXCEPT !.st = "ready", !.event = rw]
             ELSE tasks[t]]
  BY DEF Notify
<1>2. /\ pc = "notify" /\ pc' = "notify" /\ closed \subseteq open
      /\ watch' = IF func /\ ~again THEN RemoveWatch(w, rw, fd) ELSE w
      /\ open' = open \ closed
      /\ dirty' \in IF func /\ rw = "read" /\ fd \in open'
                    THEN {dirty \ (closed \cup {fd}), (dirty \ closed) \cup {fd}} ELSE {dirty \ closed}
      /\ UNCHANGED <<now, nd, events, armed, firing, running, sigBuffer, raised, unheard, arrivals, handlers, use>>
  BY DEF Notify, clock, signals
<1>3. closed \in SUBSET Fds /\ (closed = {} \/ \E g \in Fds : closed = {g})
  <2>1. open \subseteq Fds  BY DEF Sound
  <2>2. \A p \in use.watches : p[2] \in Fds  BY LoopConstants DEF Sound
  <2> QED  BY <1>2, <2>1, <2>2
<1>4. WatchOk(watch) /\ TasksHold(tasks, ready, running)  BY DEF Sound, Descriptors, TasksOk
<1>5. /\ WatchOk(w)
      /\ \A x \in RW, g \in Fds : Watched(w, x, g) <=> Watched(watch, x, g) /\ g \notin closed
      /\ \A x \in RW : w.func[x] = watch.func[x] \ closed
  <2>1. CASE closed = {}  BY <1>4, <2>1
  <2>2. CASE closed # {}
    <3>1. PICK g \in Fds : closed = {g}  BY <1>3, <2>2
    <3>2. w = Unwatch(watch, g)
      <4>1. (CHOOSE z \in closed : TRUE) = g  BY <3>1
      <4> QED  BY <2>2, <4>1
    <3> HIDE DEF w
    <3> QED  BY <1>4, <3>1, <3>2, UnwatchOk
  <2> QED  BY <2>1, <2>2
<1> HIDE DEF w
<1>6. ts \in SUBSET Tasks /\ us \in SUBSET Tasks
      /\ (\A t \in ts : tasks[t].st = "waiting") /\ (\A t \in us : tasks[t].st = "waiting")
  BY DEF Waiting
<1>7. ASSUME NEW t \in Tasks, tasks[t].st = "waiting", tasks[t].em \in closed, tasks[t].rw \in RW
      PROVE  t \in ts
  BY <1>7 DEF Waiting
<1> HIDE DEF ts, us
<1>8. ToSet(order) = ts
  <2>1. IsFiniteSet(ts)  BY <1>6, LoopConstants, FS_Subset
  <2>2. order \in Seq(ts) /\ \A t \in ts : \E i \in 1 .. Len(order) : order[i] = t  BY <2>1, OrderOk
  <2>3. DOMAIN order = 1 .. Len(order) /\ \A i \in 1 .. Len(order) : order[i] \in ts
    BY <2>2, LenProperties, ElementOfSeq
  <2> QED  BY <2>2, <2>3 DEF ToSet
<1> DEFINE vs == us \ ts
           k == Woken(tasks, ts, "closed")
<1>9. TasksHold(k, ready \o order, running)
  <2>1. "closed" \in Events  BY DEF Events
  <2> QED  BY <1>4, <1>6, <2>1, WokenOk
<1>10. \A t \in Tasks : k[t] = IF t \in ts THEN [tasks[t] EXCEPT !.st = "ready", !.event = "closed"]
                               ELSE tasks[t]
  BY DEF Woken
<1> HIDE DEF k
<1>11. vs \in SUBSET Tasks /\ \A t \in vs : k[t].st = "waiting" /\ k[t] = tasks[t]
  BY <1>6, <1>10
<1>12. SetToSeq(vs) \in SetToSeqs(vs)
  <2>1. IsFiniteSet(vs)  BY <1>11, LoopConstants, FS_Subset
  <2> QED  BY <2>1, SetToSeqOk
<1>13. rw \in Events  BY DEF Events
<1>14. TasksHold(Woken(k, vs, rw), (ready \o order) \o SetToSeq(vs), running)
  BY <1>9, <1>11, <1>12, <1>13, WokenOk, SMTT(40)
<1>15. tasks' = Woken(k, vs, rw)
  <2>1. ASSUME NEW t \in Tasks
        PROVE  Woken(k, vs, rw)[t] =
                 IF t \in ts THEN [tasks[t] EXCEPT !.st = "ready", !.event = "closed"]
                 ELSE IF t \in vs THEN [tasks[t] EXCEPT !.st = "ready", !.event = rw] ELSE tasks[t]
    BY <1>10, <1>11 DEF Woken
  <2>2. Woken(k, vs, rw) = [t \in Tasks |-> Woken(k, vs, rw)[t]]  BY SMTT(40) DEF Woken
  <2>3. tasks' = [t \in Tasks |->
                    IF t \in ts THEN [tasks[t] EXCEPT !.st = "ready", !.event = "closed"]
                    ELSE IF t \in vs THEN [tasks[t] EXCEPT !.st = "ready", !.event = rw] ELSE tasks[t]]
    BY <1>1, <1>8
  <2> HIDE DEF vs
  <2> QED  BY <2>1, <2>2, <2>3
<1>16. TasksOk'
  <2>1. ready' = (ready \o order) \o SetToSeq(vs)  BY <1>1, <1>8
  <2> QED  BY <1>2, <1>14, <1>15, <2>1, SMTT(40) DEF TasksOk
<1>17. \A t \in Tasks : /\ tasks'[t].rw = tasks[t].rw /\ tasks'[t].em = tasks[t].em
                        /\ tasks'[t].due = tasks[t].due
                        /\ tasks'[t].st = "waiting" => tasks[t].st = "waiting" /\ t \notin ts
  <2> SUFFICES ASSUME NEW t \in Tasks
               PROVE  /\ tasks'[t].rw = tasks[t].rw /\ tasks'[t].em = tasks[t].em
                      /\ tasks'[t].due = tasks[t].due
                      /\ tasks'[t].st = "waiting" => tasks[t].st = "waiting" /\ t \notin ts
    OBVIOUS
  <2>1. tasks[t] \in Task  BY <1>4, SMTT(40) DEF TasksHold
  <2>2. tasks'[t] = IF t \in ts THEN [tasks[t] EXCEPT !.st = "ready", !.event = "closed"]
                    ELSE IF t \in vs THEN [tasks[t] EXCEPT !.st = "ready", !.event = rw] ELSE tasks[t]
    BY <1>1, <1>8
  <2> HIDE DEF vs
  <2> QED  BY <2>1, <2>2 DEF Task
<1>18. Descriptors' /\ open' \subseteq Fds /\ dirty' \subseteq Fds
  BY <1>2, <1>3, <1>5, <1>7, <1>17, NotifiedDescriptors
<1>19. Clock'  BY <1>2, KeptClock DEF Sound
<1>20. Waits'  BY <1>2, <1>17, KeptBooked, KeptWaits DEF Sound
<1>21. RingOk' /\ SleepOk'  BY <1>2, KeptRing, AwakeSleep DEF Sound
<1> QED  BY <1>2, <1>16, <1>18, <1>19, <1>20, <1>21 DEF Sound

-----------------------------------------------------------------------------
(* The theorems *)

(* The loop begins consistent. *)
LEMMA InitSound == Init => Sound
<1> SUFFICES ASSUME Init PROVE Sound  OBVIOUS
<1>1. /\ use \in Instances /\ pc = "timers" /\ now = 0 /\ events = NoEvents /\ firing = NoFiring
      /\ nd = [y \in Timers |-> NoDate] /\ armed = [y \in Timers |-> NoDate] /\ watch = NoWatch
      /\ tasks = [t \in Tasks |-> NoTask] /\ ready \in SetToSeqs(use.tasks) /\ running = None
      /\ sigBuffer = EmptyBuffer /\ handlers = use.handlers /\ raised = {} /\ unheard = <<>>
      /\ dirty = {} /\ open = Fds
  BY DEF Init
<1>2. /\ use.tasks \subseteq Tasks /\ use.handlers \subseteq Signals /\ IsFiniteSet(use.tasks)
      /\ None \notin Tasks
  <2>1. use.tasks \subseteq Tasks /\ use.handlers \subseteq Signals /\ None \notin Tasks
    BY <1>1, LoopConstants
  <2> QED  BY <2>1, LoopConstants, FS_Subset
<1>3. DOMAIN events.at = {} /\ EventsOk(events)
  <2>1. events = [dates |-> <<>>, at |-> <<>>]  BY <1>1 DEF NoEvents
  <2>2. events.dates = <<>> /\ events.at = <<>> /\ DOMAIN events.at = {}  BY <2>1
  <2>3. events.dates \in Seq(Nat) /\ Len(events.dates) = 0  BY <2>2, EmptySeq
  <2>4. events.at \in [DOMAIN events.at -> SUBSET Entry]
    <3>1. events.at = [x \in {} |-> {}]  BY <2>2
    <3> QED  BY <3>1
  <2> QED  BY <2>1, <2>2, <2>3, <2>4 DEF EventsOk
<1>4. Clock
  <2>1. FiringOk  BY <1>1 DEF FiringOk, NoFiring, Dates
  <2>2. TimersOk  BY <1>1, <1>3 DEF TimersOk, NoFiring, Dates
  <2> QED  BY <1>3, <2>1, <2>2 DEF Clock
<1>5. \A t \in Tasks : tasks[t] = NoTask  BY <1>1
<1>6. NoTask \in Task /\ NoTask.st = "ready" /\ NoTask.due = NoDate /\ NoTask.rw = None /\ NoTask.event = None
      /\ NoTask.rw \notin RW
  BY DEF NoTask, Task, Events, Dates, RW, None
<1>7. Waits  BY <1>5, <1>6 DEF Waits
<1>8. TasksOk
  <2>1. ready \in Seq(use.tasks) /\ \A i, j \in 1 .. Len(ready) : ready[i] = ready[j] => i = j
    BY <1>1, <1>2, OrderOk
  <2>2. ready \in Seq(Tasks) /\ \A i \in 1 .. Len(ready) : ready[i] \in Tasks
    BY <1>2, <2>1, SeqMonotonic, ElementOfSeq
  <2>3. tasks \in [Tasks -> Task]  BY <1>1, <1>6
  <2> QED  BY <1>1, <1>2, <1>5, <1>6, <2>1, <2>2, <2>3 DEF TasksOk, TasksHold
<1>9. Descriptors
  <2>1. WatchOk(watch)
    <3>1. /\ watch.list = [rw \in RW |-> <<>>] /\ watch.index = [rw \in RW |-> [fd \in Fds |-> 0]]
          /\ watch.func = [rw \in RW |-> {}]
          /\ watch = [list |-> watch.list, index |-> watch.index, func |-> watch.func]
      BY <1>1 DEF NoWatch
    <3>2. <<>> \in Seq(Fds) /\ Len(<<>>) = 0  BY EmptySeq
    <3>3. \A rw \in RW : watch.list[rw] = <<>> /\ Len(watch.list[rw]) = 0  BY <3>1, <3>2
    <3>4. watch.list \in [RW -> Seq(Fds)]  BY <3>1, <3>2
    <3>5. watch.index \in [RW -> [Fds -> Nat]] /\ watch.func \in [RW -> SUBSET Fds]  BY <3>1
    <3>6. watch \in [list : [RW -> Seq(Fds)], index : [RW -> [Fds -> Nat]], func : [RW -> SUBSET Fds]]
      BY <3>1, <3>4, <3>5
    <3>7. \A rw \in RW : /\ \A fd \in Fds : watch.index[rw][fd] = 0 /\ fd \notin watch.func[rw]
                         /\ \A i \in 1 .. Len(watch.list[rw]) : FALSE
      BY <3>1, <3>3
    <3> QED  BY <3>6, <3>7 DEF WatchOk
  <2> QED  BY <1>5, <1>6, <2>1 DEF Descriptors, Watchers
<1>10. RingOk
  <2>1. MAX_SIGNALS \in Nat \ {0}  BY SignalConstants
  <2>2. RingHolds(sigBuffer, unheard)
    <3>1. unheard \in Seq(Signals) /\ Len(unheard) = 0  BY <1>1, EmptySeq
    <3>2. sigBuffer.lastI = -1 /\ sigBuffer.nSig = 0
          /\ sigBuffer \in [lastI : -1 .. MAX_SIGNALS - 1, nSig : 0 .. MAX_SIGNALS,
                            sigs : [0 .. MAX_SIGNALS - 1 -> Signals \cup {0}]]
      BY <1>1, <2>1 DEF EmptyBuffer
    <3> QED  BY <3>1, <3>2 DEF RingHolds
  <2> QED  BY <1>1, <1>2, <2>2 DEF RingOk
<1>11. SleepOk  BY <1>1 DEF SleepOk, SleepsSafely
<1> QED  BY <1>1, <1>4, <1>7, <1>8, <1>9, <1>10, <1>11 DEF Sound

(* Every step keeps it consistent. *)
LEMMA NextSound == ASSUME NoCorner, Sound, [Next]_vars PROVE Sound'
<1>1. CASE ReadClock \/ NextDate  BY <1>1, ReadClockOk, NextDateOk
<1>2. CASE Resume \/ EnterSelect \/ DeliverSignal \/ Select
  BY <1>2, ResumeOk, EnterSelectOk, DeliverSignalOk, SelectOk
<1>3. CASE \E t \in Tasks : FireTimeout(t)  BY <1>3, FireTimeoutOk
<1>4. CASE \E y \in Timers, cancelled \in SUBSET Timers : FireTimer(y, cancelled)  BY <1>4, FireTimerOk
<1>5. CASE SelectReady \/ SelectTimeout \/ Unmasked \/ Turn  BY <1>5, SelectEndsOk, TurnOk
<1>6. CASE \E sig \in Signals : SelectInterrupted(sig) \/ Unmask(sig)  BY <1>6, UnmaskOk
<1>7. CASE \E rw \in RW, again \in BOOLEAN, closed \in {{}} \cup {{w[2]} : w \in use.watches} :
             /\ sel[rw] # <<>> /\ (rw = "write" => sel.read = <<>>)
             /\ Notify(rw, Head(sel[rw]), again, closed)
  BY <1>7, NotifyOk
<1>8. CASE Operation  BY <1>8, OperationOk
<1>9. CASE Environment
  <2>1. CASE Tick  BY <2>1, TickOk
  <2>2. CASE \E rw \in RW, fd \in Fds : Becomes(rw, fd)  BY <2>2, BecomesOk
  <2>3. CASE \E sig \in Signals : Arrive(sig)  BY <2>3, ArriveOk
  <2> QED  BY <1>9, <2>1, <2>2, <2>3 DEF Environment
<1>10. CASE UNCHANGED vars
  <2>1. UNCHANGED <<pc, loop_state, now, nd, events, armed, firing, watch, tasks, ready, running, sigBuffer, raised,
                    unheard, arrivals, handlers, avail, dirty, open, sel, ops, use>>
    BY <1>10 DEF vars, clock, sched, signals, kernel
  <2>2. Clock' /\ Waits'  BY <2>1, KeptClock, KeptBooked, KeptWaits DEF Sound
  <2>3. TasksOk' /\ Descriptors' /\ RingOk'  BY <2>1, KeptTasks, KeptDescriptors, KeptRing DEF Sound
  <2>4. SleepOk'  BY <2>1 DEF Sound, SleepOk, SleepsSafely, Waiting
  <2> QED  BY <2>1, <2>2, <2>3, <2>4 DEF Sound
<1> QED
  BY <1>1, <1>2, <1>3, <1>4, <1>5, <1>6, <1>7, <1>8, <1>9, <1>10 DEF Next

(* The lists of the loop are consistent, whatever its tasks, timers and sockets,
   as long as no callback cancels a timer that fires with its own and when_fd
   removes no watch of a task in wait_fd. *)
THEOREM LoopSound == ASSUME NoCorner PROVE Spec => []Sound
<1>1. Sound /\ [Next]_vars => Sound'  BY NextSound
<1> QED  BY <1>1, InitSound, PTL DEF Spec

(* The lists of watches and of dates agree with their indexes: Loop.TypeOK. *)
LEMMA SoundTyped == Sound => TypeOK
<1> SUFFICES ASSUME Sound PROVE TypeOK  OBVIOUS
<1>1. WatchOk(watch) /\ EventsOk(events) /\ RingHolds(sigBuffer, unheard)
  BY DEF Sound, Clock, Descriptors, RingOk
<1>2. ASSUME NEW rw \in RW, NEW fd \in Fds
      PROVE  IF watch.index[rw][fd] = 0 THEN fd \notin ToSet(watch.list[rw])
             ELSE watch.index[rw][fd] \in DOMAIN watch.list[rw]
                  /\ watch.list[rw][watch.index[rw][fd]] = fd
  <2>1. watch.list[rw] \in Seq(Fds)  BY <1>1 DEF WatchOk
  <2>2. DOMAIN watch.list[rw] = 1 .. Len(watch.list[rw])  BY <2>1, LenProperties
  <2>3. \A i \in 1 .. Len(watch.list[rw]) : watch.index[rw][watch.list[rw][i]] = i /\ i # 0
    BY <1>1, <2>1, LenProperties DEF WatchOk
  <2>4. CASE watch.index[rw][fd] = 0  BY <2>2, <2>3, <2>4 DEF ToSet
  <2>5. CASE watch.index[rw][fd] # 0
    <3>1. watch.index[rw][fd] \in 1 .. Len(watch.list[rw]) /\ watch.list[rw][watch.index[rw][fd]] = fd
      BY <1>1, <2>5 DEF WatchOk
    <3> QED  BY <2>2, <2>5, <3>1
  <2> QED  BY <2>4, <2>5
<1>3. DOMAIN events.at \subseteq ToSet(events.dates)
  <2>1. DOMAIN events.dates = 1 .. Len(events.dates)  BY <1>1, LenProperties DEF EventsOk
  <2> QED  BY <1>1, <2>1 DEF EventsOk, ToSet
<1>4. ASSUME NEW i \in 1 .. Len(events.dates) - 1 PROVE events.dates[i] <= events.dates[i + 1]
  <2>1. Len(events.dates) \in Nat  BY <1>1, LenProperties DEF EventsOk
  <2>2. i \in 1 .. Len(events.dates) /\ i + 1 \in 1 .. Len(events.dates) /\ i <= i + 1  BY <2>1
  <2> QED  BY <1>1, <2>2 DEF EventsOk
<1>5. sigBuffer.nSig \in 0 .. MAX_SIGNALS  BY <1>1 DEF RingHolds
<1> QED  BY <1>2, <1>3, <1>4, <1>5 DEF TypeOK

(* The watch lists and the dates agree with their indexes. *)
THEOREM LoopTyped == ASSUME NoCorner PROVE Spec => []TypeOK
  BY LoopSound, SoundTyped, PTL

(* When the loop sleeps, whatever should run it again will, late at most by what
   passed between the clock being read and the sleep. *)
THEOREM LoopSleepsSafely == ASSUME NoCorner PROVE Spec => []SleepsSafely
<1>1. Sound => SleepsSafely  BY DEF Sound, SleepOk
<1> QED  BY <1>1, LoopSound, PTL

(* The signals are delivered in order, the oldest ones lost first. *)
THEOREM LoopSignalsInOrder == ASSUME NoCorner PROVE Spec => []SignalsInOrder
<1>1. ASSUME Sound PROVE SignalsInOrder
  <2>1. RingHolds(sigBuffer, unheard)  BY <1>1 DEF Sound, RingOk
  <2>2. ASSUME pc = "deliver", unheard # <<>> PROVE sigBuffer.sigs[sel.at] = Head(unheard)
    <3>1. sel.at = (sigBuffer.lastI - sigBuffer.nSig + 1) % MAX_SIGNALS  BY <1>1, <2>2 DEF Sound, RingOk
    <3>2. 1 \in 1 .. Len(unheard) /\ Head(unheard) = unheard[1]  BY <2>1, <2>2, LenProperties, EmptySeq DEF RingHolds
    <3> QED  BY <2>1, <3>1, <3>2 DEF RingHolds
  <2> QED  BY <2>1, <2>2 DEF SignalsInOrder, RingHolds
<1> QED  BY <1>1, LoopSound, PTL

-----------------------------------------------------------------------------
(* What fires is what was armed *)

\* Which timers fire, and which waits time out, in a step.
Due == /\ \A y \in Timers : Fires(y) => armed[y] = firing.date /\ firing.date <= now
       /\ \A t \in Tasks : TimesOut(t) => tasks[t].due = firing.date /\ firing.date <= now

(* A step that leaves the firing timers, and wakes no task by a timeout, fires nothing. *)
LEMMA NothingDue ==
  ASSUME firing.left \subseteq firing'.left,
         \A t \in Tasks : tasks[t].st = "waiting" => tasks'[t].event # "timeout"
  PROVE  Due
  BY DEF Due, Fires, TimesOut

(* Nor does a step that leaves the tasks too. *)
LEMMA NothingDueTasks ==
  ASSUME Sound, firing.left \subseteq firing'.left, UNCHANGED tasks
  PROVE  Due
<1>1. \A t \in Tasks : tasks[t].st = "waiting" => tasks'[t].event = None /\ None # "timeout"
  BY DEF Sound, TasksOk, TasksHold, None
<1> QED  BY <1>1, NothingDue

(* Waking tasks by any other event fires nothing. *)
LEMMA NothingDueWoken ==
  ASSUME Sound, firing' = firing, NEW ts, NEW event, event # "timeout", WakeTasks(ts, event)
  PROVE  Due
<1>1. \A t \in Tasks : tasks[t].st = "waiting" => tasks[t].event = None /\ None # "timeout"
  BY DEF Sound, TasksOk, TasksHold, None
<1>2. \A t \in Tasks : tasks[t] \in Task  BY DEF Sound, TasksOk, TasksHold
<1>3. ASSUME NEW t \in Tasks, tasks[t].st = "waiting" PROVE tasks'[t].event # "timeout"
  <2>1. tasks'[t] = IF t \in ts THEN [tasks[t] EXCEPT !.st = "ready", !.event = event] ELSE tasks[t]
    BY DEF WakeTasks
  <2>2. tasks[t] \in Task  BY <1>2
  <2> QED  BY <1>1, <1>3, <2>1, <2>2 DEF Task
<1> QED  BY <1>3, NothingDue

(* A timer of the firing date fires for it, and that date is not in the future. *)
LEMMA FiringDue ==
  ASSUME Sound, pc = "fire"
  PROVE  firing.left # {} => firing.date <= now
<1>1. firing.date <= firing.seen /\ firing.seen <= now /\ firing \in [date : Dates, left : SUBSET Entry, seen : Nat]
      /\ now \in Nat
  BY DEF Sound, Clock, FiringOk
<1>2. firing.date \in Int /\ firing.seen \in Int  BY <1>1 DEF Dates, NoDate
<1> QED  BY <1>1, <1>2

(* Nor does one that gives a task another wait. *)
LEMMA NothingDueTask ==
  ASSUME Sound, firing' = firing, NEW u, NEW w, w.event = None, tasks' = [tasks EXCEPT ![u] = w]
  PROVE  Due
<1>1. \A t \in Tasks : tasks[t].st = "waiting" => tasks[t].event = None
  BY DEF Sound, TasksOk, TasksHold
<1>2. tasks \in [Tasks -> Task] /\ None # "timeout"  BY DEF Sound, TasksOk, TasksHold, None
<1>3. ASSUME NEW t \in Tasks, tasks[t].st = "waiting" PROVE tasks'[t].event # "timeout"
  BY <1>1, <1>2, <1>3
<1> QED  BY <1>3, NothingDue

(* A wait times out at its due date. *)
LEMMA FireTimeoutDue == ASSUME Sound, NEW t \in Tasks, FireTimeout(t) PROVE Due
<1> DEFINE ts == IF tasks[t].st = "waiting" /\ tasks[t].due = firing.date THEN {t} ELSE {}
<1>1. /\ pc = "fire" /\ Timeout(t, firing.date) \in firing.left
      /\ firing' = [firing EXCEPT !.left = @ \ {Timeout(t, firing.date)}]
      /\ tasks' = [u \in Tasks |-> IF u \in ts THEN [tasks[u] EXCEPT !.st = "ready", !.event = "timeout"]
                                  ELSE tasks[u]]
  BY DEF FireTimeout, WakeTasks
<1>2. firing.date <= now  BY <1>1, FiringDue
<1>3. firing.date # NoDate /\ firing \in [date : Dates, left : SUBSET Entry, seen : Nat]
  BY <1>1 DEF Sound, Clock, FiringOk
<1>4. ASSUME NEW y \in Timers PROVE ~Fires(y)
  <2>1. firing'.left = firing.left \ {Timeout(t, firing.date)}  BY <1>1, <1>3
  <2> QED  BY <1>3, <2>1, ClientEntry DEF Fires
<1>5. ASSUME NEW u \in Tasks, TimesOut(u) PROVE tasks[u].due = firing.date
  <2>1. tasks[u].event = None /\ None # "timeout"
    BY <1>5 DEF TimesOut, Sound, TasksOk, TasksHold, None
  <2>2. u \in ts  BY <1>1, <1>5, <2>1 DEF TimesOut
  <2> QED  BY <2>2
<1> QED  BY <1>2, <1>4, <1>5 DEF Due

(* The timer of a client fires for the date that client expects. *)
LEMMA FireTimerDue ==
  ASSUME Sound, NEW y \in Timers, NEW cancelled \in SUBSET Timers, FireTimer(y, cancelled)
  PROVE  Due
<1>1. /\ pc = "fire" /\ Client(y) \in firing.left /\ firing' = [firing EXCEPT !.left = @ \ {Client(y)}]
      /\ tasks' = tasks
  BY DEF FireTimer, sched
<1>2. firing.date <= now /\ armed[y] = firing.date
  BY <1>1, FiringDue DEF Sound, Clock, TimersOk
<1>3. ASSUME NEW z \in Timers, Fires(z) PROVE z = y
  <2>1. firing'.left = firing.left \ {Client(y)}  BY <1>1 DEF Sound, Clock, FiringOk
  <2>2. Client(z) = Client(y)  BY <1>3, <2>1 DEF Fires
  <2> QED  BY <2>2, ClientEntry
<1>4. ASSUME NEW u \in Tasks PROVE ~TimesOut(u)
  BY <1>1 DEF TimesOut, Sound, TasksOk, TasksHold, None
<1> QED  BY <1>2, <1>3, <1>4 DEF Due

(* An operation fires nothing. *)
LEMMA OperationDue == ASSUME Sound, Operation PROVE Due
<1>1. Operation => firing' = firing  BY DEF Operation, WaitFd, WaitSignal, Stop, End, WhenFd, WhenFdNil, Close,
        ClientAdds, ClientCancels, Listen, Ignore, Kill, Call
<1>2. CASE \/ Stop \/ \E w \in use.watches : WhenFd(w[1], w[2]) \/ WhenFdNil(w[1], w[2])
           \/ \E y \in use.timers : ClientAdds(y) \/ ClientCancels(y)
           \/ \E sig \in Signals : Listen(sig) \/ Ignore(sig)
  <2>1. tasks' = tasks
    BY <1>2 DEF Stop, WhenFd, WhenFdNil, ClientAdds, ClientCancels, Listen, Ignore, sched
  <2> QED  BY <1>1, <2>1, NothingDueTasks
<1>3. CASE WaitSignal \/ \E w \in use.watches, delay \in Delays : WaitFd(w[1], w[2], delay)
  <2>1. PICK em, rw, due : Block(em, rw, due)  BY <1>3 DEF WaitSignal, WaitFd
  <2> DEFINE k == [st |-> "waiting", em |-> em, rw |-> rw, due |-> due, event |-> None]
  <2>2. tasks' = [tasks EXCEPT ![running] = k] /\ k.event = None  BY <2>1 DEF Block
  <2> HIDE DEF k
  <2> QED  BY <1>1, <2>2, NothingDueTask
<1>4. CASE End \/ \E t \in Tasks : Kill(t)
  <2> DEFINE k == [NoTask EXCEPT !.st = "dead"]
  <2>1. \E u : tasks' = [tasks EXCEPT ![u] = k]  BY <1>4 DEF End, Kill
  <2>2. k.event = None  BY DEF NoTask
  <2> HIDE DEF k
  <2> QED  BY <1>1, <2>1, <2>2, NothingDueTask
<1>5. CASE \E w \in use.watches : Close(w[2])
  <2>1. PICK em, rws : Wake(em, rws, "closed")  BY <1>5 DEF Close, CloseFd
  <2>2. PICK ts : WakeTasks(ts, "closed")  BY <2>1 DEF Wake
  <2> QED  BY <1>1, <2>2, NothingDueWoken
<1> QED  BY <1>2, <1>3, <1>4, <1>5 DEF Operation

(* A step of the system fires nothing early, late or cancelled. *)
LEMMA NextDue == ASSUME Sound, [Next]_vars PROVE Due
<1>1. CASE ReadClock \/ NextDate
  <2>1. firing.left = {} /\ tasks' = tasks  BY <1>1 DEF ReadClock, NextDate, sched, Sound, Clock, FiringOk
  <2> QED  BY <2>1, NothingDueTasks
<1>2. CASE EnterSelect \/ Select \/ SelectReady \/ SelectTimeout \/ Unmasked \/ Turn
           \/ \E sig \in Signals : SelectInterrupted(sig) \/ Unmask(sig)
  <2>1. firing' = firing /\ tasks' = tasks
    BY <1>2 DEF EnterSelect, Select, SelectReady, SelectTimeout, Unmasked, Turn, SelectInterrupted, Unmask, sched
  <2> QED  BY <2>1, NothingDueTasks
<1>3. CASE Resume
  <2>1. firing' = firing /\ tasks' = [tasks EXCEPT ![Head(ready)] = NoTask] /\ NoTask.event = None
    BY <1>3 DEF Resume, NoTask
  <2> QED  BY <2>1, NothingDueTask
<1>4. CASE DeliverSignal
  <2>1. firing' = firing /\ Wake(0, {"posixsignal"}, "posixsignal")  BY <1>4 DEF DeliverSignal
  <2>2. PICK ts : WakeTasks(ts, "posixsignal")  BY <2>1 DEF Wake
  <2> QED  BY <2>1, <2>2, NothingDueWoken
<1>5. CASE \E t \in Tasks : FireTimeout(t)  BY <1>5, FireTimeoutDue
<1>6. CASE \E y \in Timers, cancelled \in SUBSET Timers : FireTimer(y, cancelled)  BY <1>6, FireTimerDue
<1>7. CASE \E rw \in RW, again \in BOOLEAN, closed \in {{}} \cup {{w[2]} : w \in use.watches} :
             /\ sel[rw] # <<>> /\ (rw = "write" => sel.read = <<>>)
             /\ Notify(rw, Head(sel[rw]), again, closed)
  <2>1. PICK rw \in RW : \E fd, again, closed : Notify(rw, fd, again, closed)  BY <1>7
  <2>0. PICK fd, again, closed : Notify(rw, fd, again, closed)  BY <2>1
  <2>2. PICK ts, us : tasks' = [t \in Tasks |->
                  IF t \in ts THEN [tasks[t] EXCEPT !.st = "ready", !.event = "closed"]
                  ELSE IF t \in us THEN [tasks[t] EXCEPT !.st = "ready", !.event = rw]
                  ELSE tasks[t]]
    <3>1. PICK order \in SetToSeqs({t \in Tasks : \E g \in closed : Waiting(t, g, RW)}) :
            tasks' = [t \in Tasks |->
              IF t \in ToSet(order) THEN [tasks[t] EXCEPT !.st = "ready", !.event = "closed"]
              ELSE IF t \in {u \in Tasks : Waiting(u, fd, {rw})} \ ToSet(order)
                   THEN [tasks[t] EXCEPT !.st = "ready", !.event = rw]
              ELSE tasks[t]]
      BY <2>0 DEF Notify
    <3> QED  BY <3>1
  <2>3. firing' = firing  BY <2>0 DEF Notify
  <2>4. ASSUME NEW t \in Tasks, tasks[t].st = "waiting" PROVE tasks'[t].event # "timeout"
    <3>1. tasks[t].event = None /\ None # "timeout" /\ rw # "timeout" /\ tasks[t] \in Task
      BY <2>4, SMTT(40) DEF Sound, TasksOk, TasksHold, None, RW
    <3>2. tasks'[t] = IF t \in ts THEN [tasks[t] EXCEPT !.st = "ready", !.event = "closed"]
                      ELSE IF t \in us THEN [tasks[t] EXCEPT !.st = "ready", !.event = rw]
                      ELSE tasks[t]
      BY <2>2
    <3> QED  BY <3>1, <3>2 DEF Task
  <2> QED  BY <2>3, <2>4, NothingDue
<1>8. CASE Operation  BY <1>8, OperationDue
<1>9. CASE Environment
  <2>1. firing' = firing /\ tasks' = tasks  BY <1>9 DEF Environment, Tick, Becomes, Arrive, sched
  <2> QED  BY <2>1, NothingDueTasks
<1>10. CASE UNCHANGED vars
  <2>1. firing' = firing /\ tasks' = tasks  BY <1>10 DEF vars, sched
  <2> QED  BY <2>1, NothingDueTasks
<1> QED
  BY <1>1, <1>2, <1>3, <1>4, <1>5, <1>6, <1>7, <1>8, <1>9, <1>10 DEF Next

(* Timers fire, and waits time out, for the date that was booked, and not before. *)
THEOREM LoopFiredAsArmed == ASSUME NoCorner PROVE Spec => FiredAsArmed
<1>1. Sound /\ [Next]_vars => [Due]_vars  BY NextDue
<1> QED  BY <1>1, LoopSound, PTL DEF Spec, FiredAsArmed, Due
=============================================================================
