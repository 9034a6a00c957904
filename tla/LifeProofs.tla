----------------------------- MODULE LifeProofs -----------------------------
(***************************************************************************)
(* Theorems about the lives of hooks, of cells and of tasks in Sched, for  *)
(* every set of tasks, hooks and events, and every bound: a sigOnce hook   *)
(* for one event runs once; the sweep of the cells is not forgotten, if no *)
(* task is killed while blocked and none waits with a delay; and the       *)
(* scheduler implements TaskLife.                                          *)
(*                                                                         *)
(* The last says that, whatever the hooks do while a signal is parsed cell *)
(* by cell, the tasks live as if each signal made ready at once the tasks  *)
(* that wait for it. It is for every Careful program (SchedProofs): it may *)
(* signal an emitter while its signal is being processed.                  *)
(***************************************************************************)
EXTENDS SchedProofs, SchedLife

(* A sigOnce hook runs once. It is emptied only when it returns: what has  *)
(* to be shown is that, while it runs or is about to, it is in no queue    *)
(* that a signal could parse. It is so when each list of events has one    *)
(* event, and perhaps a delay if a hook that a timer calls cannot signal.  *)

\* The hooks signal nothing, but emitters whose signal is in progress.
Mute == HookOps \cap {"signal", "kill", "killready", "killnew", "killgone"} = {}

Lone(P) == \A p, q \in P : (Mute => p[2] # Timeout /\ q[2] # Timeout) => p = q

Single == \A evs \in EventLists : \A a, b \in evs :
             (Mute => a # Timeout /\ b # Timeout) => a = b

\* The call f runs the hook h, or is to run it.
Has(f, h) == InList(f.todo, h) \/ f.who = h

\* No timer calls a hook which makes calls.
Still(s)   == Mute => \/ \A j \in DOMAIN s : s[j].key = Timeout
                      \/ \A j \in DOMAIN s : s[j].key # Timeout
NoDelay(s) == Mute => \A j \in DOMAIN s : s[j].key # Timeout

\* The hook h, registered in the slots P, is in one of them at a time.
Suits(w, s, h, P) ==
    /\ Still(s)
    /\ \A p : Queued(w, h, p) => p \in P
    /\ \A j \in DOMAIN s : Has(s[j], h) =>
         /\ SlotOf(s[j]) \in P
         /\ s[j].key # Timeout => ~Queued(w, h, SlotOf(s[j]))
    /\ \A i, j \in DOMAIN s : Has(s[i], h) /\ Has(s[j], h) => i = j

Solo == \A h \in Hooks : hook[h] \in {"free", "once"} =>
           Lone(regs[h]) /\ Suits(waiting, stack, h, regs[h])

\* The hook h has not run yet, or runs, and is registered in the slots P.
Held(h, P) == /\ hook[h] \in {"free", "once"} /\ P = regs[h]
              /\ Lone(P) /\ Suits(waiting, stack, h, P)

\* A step registers no such hook; it moves none to where it may be twice.
Settled == \A h \in Hooks : hook'[h] \in {"free", "once"} =>
              hook[h] \in {"free", "once"} /\ regs'[h] = regs[h]
Holding == \A h \in Hooks : hook'[h] \in {"free", "once"} =>
              \A P : Held(h, P) => Suits(waiting', stack', h, P)

\* The hooks fit in the table w and the calls s, which a step goes through.
Fitting(w, s) == \A h \in Hooks : \A P : Held(h, P) => Suits(w, s, h, P)

LEMMA SoloSettled == ASSUME Solo, Settled, Holding PROVE Solo'
<1> SUFFICES ASSUME NEW h \in Hooks, hook'[h] \in {"free", "once"}
             PROVE  Lone(regs'[h]) /\ Suits(waiting', stack', h, regs'[h])
  BY DEF Solo
<1>1. PICK P : P = regs[h]  OBVIOUS
<1>2. hook[h] \in {"free", "once"} /\ regs'[h] = P  BY <1>1 DEF Settled
<1>3. Held(h, P)  BY <1>1, <1>2 DEF Held, Solo
<1>4. Suits(waiting', stack', h, P)  BY <1>3 DEF Holding
<1> QED  BY <1>2, <1>3, <1>4 DEF Held

(* The hook is in fewer places.                                            *)
LEMMA SuitsLess ==
    ASSUME NEW w, NEW s, NEW h, NEW P, Suits(w, s, h, P), NEW w1, NEW r, DOMAIN r = DOMAIN s,
           \A j \in DOMAIN s : /\ r[j].em = s[j].em /\ r[j].key = s[j].key
                               /\ Has(r[j], h) => Has(s[j], h),
           \A p : Queued(w1, h, p) => Queued(w, h, p)
    PROVE  Suits(w1, r, h, P)
<1>1. Still(r)  BY DEF Suits, Still
<1>2. \A j \in DOMAIN s : SlotOf(r[j]) = SlotOf(s[j])  BY DEF SlotOf
<1> QED  BY <1>1, <1>2 DEF Suits

(* The same, for calls which differ in their cells, or in where they insert. *)
LEMMA SuitsTable ==
    ASSUME NEW w, NEW s, NEW h, NEW P, Suits(w, s, h, P), NEW w1,
           \A p : Queued(w1, h, p) => Queued(w, h, p)
    PROVE  Suits(w1, s, h, P)
BY SuitsLess

(* Without its innermost call. *)
LEMMA SuitsTail ==
    ASSUME NEW w, NEW s \in Seq(Frames), s # <<>>, NEW h, NEW P, Suits(w, s, h, P)
    PROVE  Suits(w, Tail(s), h, P)
<1> DEFINE u == Tail(s)
<1>1. u \in Seq(Frames) /\ Head(s) \in Frames /\ s = <<Head(s)>> \o u  BY TopOk
<1>2. /\ DOMAIN s = 1 .. Len(u) + 1 /\ DOMAIN u = 1 .. Len(u) /\ Len(u) \in Nat
      /\ \A j \in DOMAIN u : s[j + 1] = u[j]
  <2> HIDE DEF u
  <2> QED  BY <1>1, Consed
<1> HIDE DEF u
<1>3. \A j \in DOMAIN u : j + 1 \in DOMAIN s /\ s[j + 1] = u[j]  BY <1>2
<1>4. Still(u)  BY <1>3 DEF Suits, Still
<1>5. \A j \in DOMAIN u : Has(u[j], h) =>
         SlotOf(u[j]) \in P /\ (u[j].key # Timeout => ~Queued(w, h, SlotOf(u[j])))
  BY <1>3 DEF Suits
<1>6. ASSUME NEW i \in DOMAIN u, NEW j \in DOMAIN u, Has(u[i], h), Has(u[j], h) PROVE i = j
  <2>1. i + 1 = j + 1  BY <1>3, <1>6 DEF Suits
  <2> QED  BY <1>2, <2>1
<1> QED  BY <1>4, <1>5, <1>6 DEF Suits, u

(* With one more call, which is not a timer's. *)
LEMMA SuitsPush ==
    ASSUME NEW w, NEW u \in Seq(Frames), NEW h, NEW P, Suits(w, u, h, P), NoDelay(u),
           NEW f \in Frames, f.key # Timeout,
           Has(f, h) => /\ SlotOf(f) \in P /\ ~Queued(w, h, SlotOf(f))
                        /\ \A j \in DOMAIN u : ~Has(u[j], h)
    PROVE  Suits(w, <<f>> \o u, h, P)
<1> DEFINE r == <<f>> \o u
<1>1. /\ DOMAIN r = 1 .. Len(u) + 1 /\ DOMAIN u = 1 .. Len(u) /\ Len(u) \in Nat /\ r[1] = f
      /\ \A j \in DOMAIN u : r[j + 1] = u[j]
  BY Consed
<1> HIDE DEF r
<1>2. ASSUME NEW j \in DOMAIN r, j # 1 PROVE j - 1 \in DOMAIN u /\ r[j] = u[j - 1]
  <2>1. j - 1 \in DOMAIN u /\ j - 1 + 1 = j  BY <1>1, <1>2
  <2> QED  BY <1>1, <2>1
<1>3. Still(r)  BY <1>1, <1>2 DEF Still, NoDelay
<1>4. ASSUME NEW j \in DOMAIN r, Has(r[j], h)
      PROVE  SlotOf(r[j]) \in P /\ (r[j].key # Timeout => ~Queued(w, h, SlotOf(r[j])))
  BY <1>1, <1>2, <1>4 DEF Suits
<1>5. ASSUME NEW i \in DOMAIN r, NEW j \in DOMAIN r, Has(r[i], h), Has(r[j], h) PROVE i = j
  <2>1. CASE i = 1 \/ j = 1  BY <1>1, <1>2, <1>5, <2>1
  <2>2. CASE i # 1 /\ j # 1
    <3>1. i - 1 = j - 1  BY <1>2, <1>5, <2>2 DEF Suits
    <3> QED  BY <1>1, <3>1
  <2> QED  BY <2>1, <2>2
<1> QED  BY <1>3, <1>4, <1>5 DEF Suits, r

(* Emptying a cell.                                                        *)
LEMMA SuitsEmpty ==
    ASSUME NEW w, NEW s \in Seq(Frames), NEW h \in Hooks, NEW P, Suits(w, s, h, P), NEW c
    PROVE  Suits(EmptyWaiting(w, c), EmptyStack(s, c), h, P)
<1> DEFINE w1 == EmptyWaiting(w, c)
           r  == EmptyStack(s, c)
<1>1. h # Emptied  BY Names
<1>2. \A p : Queued(w1, h, p) => Queued(w, h, p)
  BY <1>1, EmptyInIn DEF EmptyWaiting, Queued
<1>3. \A j \in DOMAIN s : s[j] \in Frames  BY ElementOfSeq, LenProperties
<1>4. DOMAIN r = DOMAIN s
      /\ \A j \in DOMAIN s : /\ r[j].em = s[j].em /\ r[j].key = s[j].key /\ r[j].who = s[j].who
                             /\ r[j].todo = EmptyIn(s[j].todo, c)
  BY <1>3 DEF EmptyStack, Frames
<1> HIDE DEF w1, r
<1>5. \A j \in DOMAIN s : Has(r[j], h) => Has(s[j], h)
  BY <1>1, <1>4, EmptyInIn DEF Has
<1>6. Suits(w1, r, h, P)  BY <1>2, <1>4, <1>5, SuitsLess
<1> QED  BY <1>6 DEF w1, r

LEMMA SuitsEmptyTable ==
    ASSUME NEW w, NEW s, NEW h \in Hooks, NEW P, Suits(w, s, h, P), NEW c
    PROVE  Suits(EmptyWaiting(w, c), s, h, P)
<1> DEFINE w1 == EmptyWaiting(w, c)
<1>1. h # Emptied  BY Names
<1>2. \A p : Queued(w1, h, p) => Queued(w, h, p)
  BY <1>1, EmptyInIn DEF EmptyWaiting, Queued
<1> HIDE DEF w1
<1>3. Suits(w1, s, h, P)  BY <1>2, SuitsTable
<1> QED  BY <1>3 DEF w1

(* Registering another cell.                                               *)
LEMMA SuitsRegister ==
    ASSUME NEW w, Table(w, Entries), NEW s, NEW h, NEW P, Suits(w, s, h, P),
           NEW c \in Entries, c # h, NEW S
    PROVE  Suits(Register(w, c, S), s, h, P)
<1> DEFINE w1 == Register(w, c, S)
<1>1. DOMAIN w1 = DOMAIN w \cup S /\ \A p \in DOMAIN w1 :
        w1[p] = IF p \notin S THEN w[p]
                ELSE IF p \in DOMAIN w THEN Append(w[p], c) ELSE <<c>>
  BY DEF Register
<1> HIDE DEF w1
<1>2. \A p \in DOMAIN w : InList(Append(w[p], c), h) => InList(w[p], h)
  BY AppendIn DEF Table
<1>3. ~InList(<<c>>, h)  BY OneIn
<1>4. \A p : Queued(w1, h, p) => Queued(w, h, p)
  BY <1>1, <1>2, <1>3 DEF Queued
<1>5. Suits(w1, s, h, P)  BY <1>4, SuitsTable
<1> QED  BY <1>5 DEF w1

(* The sweep.                                                              *)
LEMMA SuitsCollected ==
    ASSUME NEW w, Table(w, Entries), NEW s, NEW h, NEW P, Suits(w, s, h, P), NEW r
    PROVE  Suits(Collected(w, r), s, h, P)
<1> DEFINE kept == [p \in DOMAIN w |-> Kept(w[p])]
           gone == {p \in DOMAIN w : kept[p] = <<>>}
           w1   == Collected(w, r)
<1>1. w1 = IF Processing(r) THEN kept ELSE Without(kept, gone)  BY DEF Collected
<1>2. DOMAIN kept = DOMAIN w /\ \A p \in DOMAIN w : kept[p] = Kept(w[p])  OBVIOUS
<1> HIDE DEF kept, gone, w1
<1>3. \A p : Queued(kept, h, p) => Queued(w, h, p)
  BY <1>2, KeptIn DEF Queued, Table
<1>4. \A p : Queued(w1, h, p) => Queued(kept, h, p)  BY <1>1 DEF Queued, Without
<1>5. Suits(w1, s, h, P)  BY <1>3, <1>4, SuitsTable
<1> QED  BY <1>5 DEF w1

(* The head of a stack does less.                                          *)
LEMMA SuitsTop ==
    ASSUME NEW w, NEW u \in Seq(Frames), NEW f \in Frames, NEW g \in Frames, NEW h, NEW P,
           Suits(w, <<f>> \o u, h, P), g.em = f.em, g.key = f.key, Has(g, h) => Has(f, h)
    PROVE  Suits(w, <<g>> \o u, h, P)
<1> DEFINE s == <<f>> \o u
           r == <<g>> \o u
<1>1. /\ DOMAIN s = 1 .. Len(u) + 1 /\ s[1] = f /\ Len(u) \in Nat /\ DOMAIN u = 1 .. Len(u)
      /\ \A j \in DOMAIN u : s[j + 1] = u[j]
  BY Consed
<1>2. DOMAIN r = 1 .. Len(u) + 1 /\ r[1] = g /\ \A j \in DOMAIN u : r[j + 1] = u[j]
  BY Consed
<1>3. Suits(w, s, h, P)  OBVIOUS
<1> HIDE DEF s, r
<1>4. \A j \in DOMAIN s : /\ r[j].em = s[j].em /\ r[j].key = s[j].key
                          /\ Has(r[j], h) => Has(s[j], h)
  <2> TAKE j \in DOMAIN s
  <2>1. CASE j = 1  BY <1>1, <1>2, <2>1
  <2>2. CASE j # 1
    <3>1. j - 1 \in DOMAIN u /\ j - 1 + 1 = j  BY <1>1, <2>2
    <3>2. r[j] = s[j]  BY <1>1, <1>2, <3>1
    <3> QED  BY <3>2
  <2> QED  BY <2>1, <2>2
<1>5. Suits(w, r, h, P)  BY <1>1, <1>2, <1>3, <1>4, SuitsLess
<1> QED  BY <1>5 DEF r

(* Putting back another cell.                                              *)
LEMMA SuitsReattach ==
    ASSUME NEW w, Table(w, Entries), NEW s \in Seq(Frames), s # <<>>, NEW h, NEW P,
           Suits(w, s, h, P), NEW c \in Entries, c # h, Reattach(c, w, s)
    PROVE  Suits(waiting', stack', h, P)
<1> DEFINE f == Head(s)
           p == SlotOf(f)
           g == [f EXCEPT !.full = TRUE]
           u == Tail(s)
<1>1. CASE f.att = "queue"
  <2>1. waiting' = [w EXCEPT ![p] = Append(w[p], c)] /\ stack' = s
    BY <1>1 DEF Reattach, SlotOf
  <2> HIDE DEF p
  <2>2. \A p1 \in DOMAIN w : InList(Append(w[p1], c), h) => InList(w[p1], h)
    BY AppendIn DEF Table
  <2>3. \A p1 : Queued(waiting', h, p1) => Queued(w, h, p1)
    BY <2>1, <2>2 DEF Queued
  <2> QED  BY <2>1, <2>3, SuitsTable
<1>2. CASE f.att # "queue"
  <2>1. waiting' = w /\ stack' = <<g>> \o u  BY <1>2 DEF Reattach
  <2>2. f \in Frames /\ u \in Seq(Frames) /\ s = <<f>> \o u  BY TopOk
  <2>3. /\ g \in Frames /\ g.em = f.em /\ g.key = f.key /\ g.todo = f.todo /\ g.who = f.who
    BY <2>2 DEF Frames
  <2> HIDE DEF f, u, g, p
  <2>4. Suits(w, <<g>> \o u, h, P)  BY <2>2, <2>3, SuitsTop DEF Has
  <2> QED  BY <2>1, <2>4
<1> QED  BY <1>1, <1>2

(* Taking the next cell, and calling its owner.                            *)
LEMMA SuitsTaken ==
    ASSUME stack \in Seq(Frames), NEW c, NextCell(c), NEW w, NEW h, NEW P, Suits(w, stack, h, P)
    PROVE  /\ Suits(w, Taken, h, P)
           /\ c \in Hooks => Suits(w, <<[Head(Taken) EXCEPT !.who = c]>> \o Tail(Taken), h, P)
<1> DEFINE f == Head(stack)
           u == Tail(stack)
           g == [f EXCEPT !.todo = Tail(f.todo)]
           k == [g EXCEPT !.who = c]
<1>1. stack # <<>> /\ f.todo # <<>> /\ Head(f.todo) = c
  BY DEF NextCell, Parsing
<1>2. f \in Frames /\ u \in Seq(Frames) /\ stack = <<f>> \o u  BY <1>1, TopOk
<1>3. f.todo \in Seq(Entries)  BY <1>2 DEF Frames
<1>4. Tail(f.todo) \in Seq(Entries) /\ \A x : InList(f.todo, x) <=> x = c \/ InList(Tail(f.todo), x)
  BY <1>1, <1>3, TailIn
<1>5. /\ g \in Frames /\ g.em = f.em /\ g.key = f.key /\ g.who = f.who /\ g.todo = Tail(f.todo)
  BY <1>2, <1>4 DEF Frames
<1>6. Taken = <<g>> \o u  BY DEF Taken
<1> HIDE DEF f, u
<1>7. c \in Hooks => /\ k \in Frames /\ k.em = f.em /\ k.key = f.key /\ k.who = c
                     /\ k.todo = Tail(f.todo)
  <2> HIDE DEF g
  <2> QED  BY <1>5, Names DEF Frames
<1> HIDE DEF g
<1>8. Head(Taken) = g /\ Tail(Taken) = u  BY <1>2, <1>5, <1>6, Consed
<1>9. Suits(w, <<f>> \o u, h, P)  BY <1>2
<1>10. Suits(w, Taken, h, P)
  <2>1. Has(g, h) => Has(f, h)  BY <1>4, <1>5 DEF Has
  <2> QED  BY <1>2, <1>5, <1>6, <1>9, <2>1, SuitsTop
<1>11. ASSUME c \in Hooks PROVE Suits(w, <<k>> \o u, h, P)
  <2>1. Has(k, h) => Has(f, h)  BY <1>4, <1>7, <1>11 DEF Has
  <2> HIDE DEF k
  <2> QED  BY <1>2, <1>7, <1>9, <1>11, <2>1, SuitsTop
<1> QED  BY <1>8, <1>10, <1>11

(* A call that starts to parse a queue takes the hooks of the queue, which *)
(* no other call has.                                                      *)
LEMMA SuitsCall ==
    ASSUME NEW w, NEW s \in Seq(Frames), NEW h \in Hooks, NEW P, Lone(P), Suits(w, s, h, P),
           NoDelay(s), NEW f \in Frames, f.who = None, f.key # Timeout,
           SlotOf(f) \in DOMAIN w, f.todo = w[SlotOf(f)]
    PROVE  LET p == SlotOf(f)
           IN  Suits([w EXCEPT ![p] = <<>>], <<f>> \o Displace(s, p, w[p]), h, P)
<1> DEFINE p  == SlotOf(f)
           d  == Displace(s, p, w[p])
           w1 == [w EXCEPT ![p] = <<>>]
           b  == w[p] # <<>>
<1>1. \A j \in DOMAIN s : s[j] \in Frames  BY ElementOfSeq, LenProperties
<1>2. d \in Seq(Frames) /\ DOMAIN d = DOMAIN s  BY DisplaceOk DEF Calling
<1>3. \A j \in DOMAIN s : /\ d[j].em = s[j].em /\ d[j].key = s[j].key
                          /\ d[j].who = s[j].who /\ d[j].todo = s[j].todo
  <2>1. \A j \in DOMAIN s : d[j] = IF <<s[j].em, s[j].key>> = p /\ s[j].att = "queue"
                                   THEN [s[j] EXCEPT !.att = "row", !.full = b] ELSE s[j]
    BY DEF Displace
  <2> HIDE DEF d, b, p
  <2> QED  BY <1>1, <2>1 DEF Frames
<1>4. \A p1 : Queued(w1, h, p1) => Queued(w, h, p1) /\ p1 # p  BY NilIn DEF Queued
<1>5. p[2] = f.key  BY DEF SlotOf
<1> HIDE DEF d, w1, p
<1>6. Suits(w1, d, h, P)
  <2>1. \A j \in DOMAIN s : Has(d[j], h) => Has(s[j], h)  BY <1>3 DEF Has
  <2> QED  BY <1>2, <1>3, <1>4, <2>1, SuitsLess
<1>7. NoDelay(d)  BY <1>2, <1>3 DEF NoDelay
<1>8. ASSUME Has(f, h)
      PROVE  /\ p \in P /\ ~Queued(w1, h, p)
             /\ \A j \in DOMAIN d : ~Has(d[j], h)
  <2>1. InList(w[p], h)  BY <1>8, Names DEF Has, p
  <2>2. Queued(w, h, p)  BY <2>1 DEF Queued, p
  <2>3. p \in P /\ ~Queued(w1, h, p)  BY <1>4, <2>2 DEF Suits
  <2>4. ASSUME NEW j \in DOMAIN s, Has(s[j], h) PROVE FALSE
    <3>1. SlotOf(s[j]) \in P /\ SlotOf(s[j])[2] = s[j].key  BY <2>4 DEF Suits, SlotOf
    <3>2. CASE s[j].key = Timeout
      <4>1. ~Mute  BY <2>4, <3>2 DEF NoDelay
      <4>2. SlotOf(s[j]) = p  BY <2>3, <3>1, <4>1 DEF Lone
      <4> QED  BY <1>5, <3>1, <3>2, <4>2
    <3>3. CASE s[j].key # Timeout
      <4>1. SlotOf(s[j]) = p  BY <1>5, <2>3, <3>1, <3>3 DEF Lone
      <4> QED  BY <2>2, <2>4, <3>3, <4>1 DEF Suits
    <3> QED  BY <3>2, <3>3
  <2>5. \A j \in DOMAIN d : ~Has(d[j], h)  BY <1>2, <1>3, <2>4 DEF Has
  <2> QED  BY <2>3, <2>5
<1>9. Suits(w1, <<f>> \o d, h, P)
  <2>1. SlotOf(f) = p  BY DEF p
  <2> QED  BY <1>2, <1>6, <1>7, <1>8, <2>1, SuitsPush
<1> QED  BY <1>9 DEF d, w1, p

(* Entering signal().                                                      *)
LEMMA SuitsEmit ==
    ASSUME NEW em \in Emitters, NEW ev \in Keys \ {Timeout}, NEW slain \in BOOLEAN,
           NEW w, Table(w, Entries), NEW s \in Seq(Frames), Emit(em, ev, slain, w, s),
           NEW h \in Hooks, NEW P, Lone(P), Suits(w, s, h, P), NoDelay(s)
    PROVE  Suits(waiting', stack', h, P)
<1> DEFINE queues == {k \in {Star, ev} : <<em, k>> \in DOMAIN w}
           key == IF Star \in queues THEN Star ELSE ev
           p == <<em, key>>
           f == NewFrame(em, ev, slain, key, w[p], "queue", None)
<1>1. CASE queues = {}
  <2>1. waiting' = w /\ stack' = s  BY <1>1 DEF Emit
  <2> QED  BY <2>1
<1>2. CASE queues # {}
  <2>1. p \in DOMAIN w /\ key \in Keys /\ key # Timeout
    BY <1>2 DEF Keys, Star, Timeout
  <2>2. w[p] \in Seq(Entries)  BY <2>1 DEF Table
  <2>3. /\ waiting' = [w EXCEPT ![p] = <<>>]
        /\ stack' = <<f>> \o Displace(s, p, w[p])
    BY <1>2 DEF Emit
  <2>4. Entries \in SUBSET Entries /\ "queue" \in {"queue", "row", "none"}
        /\ None \in Owners \cup {None} /\ key \in Keys \cup {"resume"}
    BY <2>1
  <2>5. f \in Frames
    <3> HIDE DEF key, f
    <3>1. LET g == NewFrame(em, ev, slain, key, w[p], "queue", None)
          IN  g \in Frames /\ g.todo \in Seq(Entries)
      BY <2>2, <2>4, NewFrameType
    <3> QED  BY <3>1 DEF f
  <2>6. f.who = None /\ f.key = key /\ SlotOf(f) = p /\ f.todo = w[p]
    BY DEF NewFrame, SlotOf
  <2> HIDE DEF f, p, key, queues
  <2>7. LET p1 == SlotOf(f)
        IN  Suits([w EXCEPT ![p1] = <<>>], <<f>> \o Displace(s, p1, w[p1]), h, P)
    BY <2>1, <2>5, <2>6, SuitsCall
  <2> QED  BY <2>3, <2>6, <2>7
<1> QED  BY <1>1, <1>2

(* The end of a queue.                                                     *)
LEMMA SuitsEndQueue ==
    ASSUME Sound, Timely, EndQueue, NEW h \in Hooks, NEW P, Held(h, P)
    PROVE  Suits(waiting', stack', h, P)
<1> DEFINE f == Head(stack)
           u == Tail(stack)
<1>1. Table(waiting, Entries) /\ stack \in Seq(Frames)  BY SoundTypes
<1>2. stack # <<>> /\ f.who = None  BY <1>1, EndQueueIs
<1>3. PICK w, v : Ended(w, v)  BY <1>1, EndQueueIs
<1>4. f \in Frames /\ f.key # Timeout /\ f.ev # Timeout
  BY <1>1, <1>2, NeatParsing, TopOk DEF Parsing
<1>5. /\ u \in Seq(Frames) /\ stack = <<f>> \o u  BY <1>1, <1>2, TopOk
<1>6. Suits(waiting, stack, h, P) /\ Lone(P)  BY DEF Held
<1>7. Suits(waiting, u, h, P)  BY <1>1, <1>2, <1>6, SuitsTail
<1>8. NoDelay(u)
  <2> HIDE DEF f, u
  <2>1. /\ 1 \in DOMAIN stack /\ stack[1] = f
        /\ \A j \in DOMAIN u : j + 1 \in DOMAIN stack /\ stack[j + 1] = u[j]
    <3>1. /\ DOMAIN stack = 1 .. Len(u) + 1 /\ DOMAIN u = 1 .. Len(u) /\ Len(u) \in Nat
          /\ stack[1] = f /\ \A j \in DOMAIN u : stack[j + 1] = u[j]
      BY <1>4, <1>5, Consed
    <3> QED  BY <3>1
  <2> QED  BY <1>4, <1>6, <2>1 DEF Suits, Still, NoDelay
<1>9. /\ DOMAIN w \subseteq DOMAIN waiting /\ \A p \in DOMAIN w : w[p] = waiting[p]
      /\ Calling(v, u) /\ \A j \in DOMAIN u : v[j].todo = u[j].todo
  BY <1>3 DEF Ended
<1> HIDE DEF u
<1>10. v \in Seq(Frames) /\ DOMAIN v = DOMAIN u
       /\ \A j \in DOMAIN u : /\ v[j].em = u[j].em /\ v[j].key = u[j].key
                              /\ v[j].who = u[j].who /\ v[j].todo = u[j].todo
  BY <1>9 DEF Calling, Alike
<1>11. Suits(w, v, h, P) /\ NoDelay(v)
  <2>1. \A p : Queued(w, h, p) => Queued(waiting, h, p)  BY <1>9 DEF Queued
  <2>2. \A j \in DOMAIN u : Has(v[j], h) => Has(u[j], h)  BY <1>10 DEF Has
  <2>3. Suits(w, v, h, P)  BY <1>7, <1>10, <2>1, <2>2, SuitsLess
  <2> QED  BY <1>8, <1>10, <2>3 DEF NoDelay
<1>12. ASSUME NEW next \in Frames, next.key = f.ev, next.who = None,
              LET q == SlotOf(next)
              IN  /\ q \in DOMAIN w /\ next.todo = w[q]
                  /\ waiting' = [w EXCEPT ![q] = <<>>]
                  /\ stack' = <<next>> \o Displace(v, q, w[q])
       PROVE  Suits(waiting', stack', h, P)
  <2>1. LET q == SlotOf(next)
        IN  Suits([w EXCEPT ![q] = <<>>], <<next>> \o Displace(v, q, w[q]), h, P)
    BY <1>4, <1>6, <1>10, <1>11, <1>12, SuitsCall
  <2> QED  BY <1>12, <2>1
<1>13. CASE waiting' = w /\ stack' = v
  BY <1>11, <1>13
<1> QED  BY <1>3, <1>12, <1>13 DEF Ended

(* Who executes when a timer has called a hook: that hook.                 *)
LEMMA ActorTimed ==
    ASSUME Sound, Timely, NEW h, NEW P, Held(h, P)
    PROVE  \/ NoDelay(stack)
           \/ Mute /\ Actor \in Hooks /\ ~Parsing /\ \A em : ~InProgress(em)
<1> SUFFICES ASSUME ~NoDelay(stack)
             PROVE  Mute /\ Actor \in Hooks /\ ~Parsing /\ \A em : ~InProgress(em)
  OBVIOUS
<1>1. Mute /\ \A j \in DOMAIN stack : stack[j].key = Timeout
  BY DEF Held, Suits, Still, NoDelay
<1>2. \A em : ~InProgress(em)  BY <1>1 DEF InProgress
<1>3. stack # <<>>  BY EmptySeq DEF NoDelay
<1>4. Head(stack) \in Timed(OnTime) /\ Head(stack).key = Timeout
  <2>1. 1 \in DOMAIN stack /\ Head(stack) = stack[1]
    BY <1>3, SoundTypes, EmptySeq, LenProperties, HeadTailProperties
  <2> QED  BY <1>1, <1>3, <2>1, NeatTop DEF Timely
<1>5. Head(stack).who \in Hooks  BY <1>4 DEF Timed, OnTime
<1> QED  BY <1>1, <1>2, <1>3, <1>5, Names DEF Actor, Parsing

-----------------------------------------------------------------------------
(* The steps, seen from such a hook *)

(* A step that leaves the hooks as they are; one that empties one.         *)
LEMMA QuietSolo ==
    ASSUME Solo, hook' = hook, regs' = regs, Fitting(waiting', stack') PROVE Solo'
BY SoloSettled DEF Settled, Holding, Fitting
LEMMA ClearSolo ==
    ASSUME Sound, Solo, NEW h0 \in Hooks, ClearHook(h0), Fitting(waiting', stack') PROVE Solo'
<1>1. hook \in [Hooks -> HookKinds] /\ regs \in [Hooks -> SUBSET Slots]  BY SoundTypes
<1>2. Settled  BY <1>1 DEF Settled, ClearHook
<1>3. Holding  BY DEF Holding, Fitting
<1> QED  BY <1>2, <1>3, SoloSettled

LEMMA FittingNow == Fitting(waiting, stack)
BY DEF Fitting, Held

LEMMA NoDelayUnder ==
    ASSUME NEW s \in Seq(Frames), NoDelay(s)
    PROVE  /\ s # <<>> => NoDelay(Tail(s))
           /\ \A c : NoDelay(EmptyStack(s, c))
<1>1. ASSUME s # <<>> PROVE NoDelay(Tail(s))
  <2> DEFINE u == Tail(s)
  <2>1. u \in Seq(Frames) /\ Head(s) \in Frames /\ s = <<Head(s)>> \o u  BY <1>1, TopOk
  <2>2. \A j \in DOMAIN u : j + 1 \in DOMAIN s /\ s[j + 1] = u[j]
    <3> HIDE DEF u
    <3>1. /\ DOMAIN s = 1 .. Len(u) + 1 /\ DOMAIN u = 1 .. Len(u) /\ Len(u) \in Nat
          /\ \A j \in DOMAIN u : s[j + 1] = u[j]
      BY <2>1, Consed
    <3> QED  BY <3>1
  <2> HIDE DEF u
  <2>3. NoDelay(u)  BY <2>2 DEF NoDelay
  <2> QED  BY <2>3 DEF u
<1>2. ASSUME NEW c PROVE NoDelay(EmptyStack(s, c))
  <2>1. \A j \in DOMAIN s : s[j] \in Frames  BY ElementOfSeq, LenProperties
  <2>2. DOMAIN EmptyStack(s, c) = DOMAIN s
        /\ \A j \in DOMAIN s : EmptyStack(s, c)[j].key = s[j].key
    BY <2>1 DEF EmptyStack, Frames
  <2> QED  BY <2>2 DEF NoDelay
<1> QED  BY <1>1, <1>2

(* Whoever signals is not a hook called by a timer, in a mute program.     *)
LEMMA EmitFitting ==
    ASSUME Sound, NEW em \in Emitters, NEW ev \in Keys \ {Timeout}, NEW slain \in BOOLEAN,
           NEW w, Table(w, Entries), NEW s \in Seq(Frames), Emit(em, ev, slain, w, s),
           Fitting(w, s), \A h \in Hooks : \A P : Held(h, P) => NoDelay(s)
    PROVE  Fitting(waiting', stack')
<1> SUFFICES ASSUME NEW h \in Hooks, NEW P, Held(h, P) PROVE Suits(waiting', stack', h, P)
  BY DEF Fitting
<1>1. Suits(w, s, h, P) /\ Lone(P) /\ NoDelay(s)  BY DEF Fitting, Held
<1> QED  BY <1>1, SuitsEmit

(* A task that executes suspends or ends.                                  *)
LEMMA TaskNoDelay ==
    ASSUME Sound, Timely, Actor \in Tasks, NEW h, NEW P, Held(h, P)
    PROVE  NoDelay(stack)
BY ActorTimed, IdAssumption

LEMMA SuspendFitting ==
    ASSUME Sound, Timely, Actor \in Tasks, NEW w, Table(w, Entries), Fitting(w, stack), Suspend(w)
    PROVE  Fitting(waiting', stack')
<1>1. CASE stack = <<>>
  <2>1. waiting' = w /\ stack' = stack  BY <1>1 DEF Suspend
  <2> QED  BY <2>1
<1>2. CASE stack # <<>>
  <2> DEFINE u == Tail(stack)
  <2>1. Emit(Actor, Die, FALSE, w, u)  BY <1>2 DEF Suspend
  <2>2. stack \in Seq(Frames) /\ u \in Seq(Frames)  BY <1>2, SoundTypes, TopOk
  <2>3. \A h \in Hooks : \A P : Held(h, P) => Suits(w, u, h, P) /\ NoDelay(u)
    BY <1>2, <2>2, SuitsTail, TaskNoDelay, NoDelayUnder DEF Fitting
  <2>4. Actor \in Emitters /\ Die \in Keys \ {Timeout}  BY DEF Emitters, Keys, Die, Timeout
  <2> HIDE DEF u
  <2>5. Fitting(w, u)  BY <2>3 DEF Fitting
  <2> QED  BY <2>1, <2>2, <2>3, <2>4, <2>5, EmitFitting
<1> QED  BY <1>1, <1>2

LEMMA EndSolo ==
    ASSUME Sound, Timely, Solo, Actor \in Tasks, NEW slain \in BOOLEAN, End(slain)
    PROVE  Solo'
<1> DEFINE u == IF stack = <<>> THEN stack ELSE Tail(stack)
<1>1. PICK b \in BOOLEAN : Emit(Actor, Die, b, waiting, u)
  <2>1. CASE stack = <<>>  BY <2>1 DEF End
  <2>2. CASE stack # <<>>  BY <2>2 DEF End
  <2> QED  BY <2>1, <2>2
<1>2. stack \in Seq(Frames) /\ u \in Seq(Frames) /\ Table(waiting, Entries)
  BY SoundTypes, TopOk
<1>3. \A h \in Hooks : \A P : Held(h, P) => Suits(waiting, u, h, P) /\ NoDelay(u)
  BY <1>2, SuitsTail, TaskNoDelay, NoDelayUnder DEF Held
<1>4. Actor \in Emitters /\ Die \in Keys \ {Timeout}  BY DEF Emitters, Keys, Die, Timeout
<1> HIDE DEF u
<1>5. Fitting(waiting, u)  BY <1>3 DEF Fitting
<1>6. Fitting(waiting', stack')  BY <1>1, <1>2, <1>3, <1>4, <1>5, EmitFitting
<1>7. hook' = hook /\ regs' = regs  BY DEF End, cells
<1> QED  BY <1>6, <1>7, QuietSolo

(* A hook returns: it is not a sigOnce hook if it is put back.             *)
LEMMA ReturnsSolo ==
    ASSUME Sound, Timely, Solo, Actor \in Hooks, NEW killed \in BOOLEAN,
           NEW w, Table(w, Entries), Fitting(w, stack), HookReturns(killed, w)
    PROVE  Solo'
<1> DEFINE f == Head(stack)
           u == Tail(stack)
           g == [f EXCEPT !.who = None]
           s == <<g>> \o u
<1>1. stack # <<>> /\ f.who \in Hooks /\ stack \in Seq(Frames)
  BY ActorType, SoundTypes DEF Actor
<1>2. f \in Frames /\ u \in Seq(Frames) /\ stack = <<f>> \o u  BY <1>1, TopOk
<1>3. g \in Frames /\ g.em = f.em /\ g.key = f.key /\ g.who = None /\ g.todo = f.todo
  BY <1>2 DEF Frames
<1>4. PICK h0 \in Hooks : h0 = f.who  BY <1>1
<1>5. \/ /\ ClearHook(h0) /\ waiting' = EmptyWaiting(w, h0)
         /\ \/ stack' = EmptyStack(u, h0)
            \/ stack' = EmptyStack(s, h0)
      \/ /\ hook[h0] # "once" /\ KeepHook
         /\ Reattach(IF hook[h0] = "emptied" THEN Emptied ELSE h0, w, s)
  BY <1>4 DEF HookReturns
<1> HIDE DEF f, u, g
<1>6. s \in Seq(Frames) /\ s # <<>>  BY <1>2, <1>3, Consed
<1>7. ASSUME NEW h \in Hooks, NEW P, Held(h, P)
      PROVE  Suits(w, u, h, P) /\ Suits(w, s, h, P)
  <2>1. Suits(w, stack, h, P)  BY <1>7 DEF Fitting
  <2>2. Suits(w, u, h, P)  BY <1>1, <2>1, SuitsTail DEF u
  <2>3. Has(g, h) => Has(f, h)  BY <1>3, <1>7, Names DEF Has
  <2>4. Suits(w, s, h, P)  BY <1>2, <1>3, <2>1, <2>3, SuitsTop
  <2> QED  BY <2>2, <2>4
<1> HIDE DEF s
<1>8. CASE ClearHook(h0) /\ waiting' = EmptyWaiting(w, h0)
           /\ (stack' = EmptyStack(u, h0) \/ stack' = EmptyStack(s, h0))
  <2>1. \A h \in Hooks : \A P : Held(h, P) =>
           /\ Suits(EmptyWaiting(w, h0), EmptyStack(u, h0), h, P)
           /\ Suits(EmptyWaiting(w, h0), EmptyStack(s, h0), h, P)
    BY <1>2, <1>6, <1>7, SuitsEmpty
  <2>2. Fitting(waiting', stack')  BY <1>8, <2>1 DEF Fitting
  <2> QED  BY <1>8, <2>2, ClearSolo
<1>9. CASE /\ hook[h0] # "once" /\ KeepHook
           /\ Reattach(IF hook[h0] = "emptied" THEN Emptied ELSE h0, w, s)
  <2>1. PICK c \in Entries : Reattach(c, w, s) /\ c \in {Emptied, h0}  BY <1>9, Names
  <2>2. ASSUME NEW h \in Hooks, NEW P, Held(h, P) PROVE c # h
    <3>1. h # Emptied  BY Names
    <3>2. CASE h = h0
      <4>1. hook[h] = "free" /\ P = {}  BY <1>9, <2>2, <3>2 DEF Held, Timely
      <4>2. 1 \in DOMAIN stack /\ stack[1] = f  BY <1>2, Consed, LenProperties
      <4>3. Has(f, h)  BY <1>4, <3>2 DEF Has
      <4> QED  BY <2>2, <4>1, <4>2, <4>3 DEF Held, Suits
    <3> QED  BY <2>1, <3>1, <3>2
  <2>3. Fitting(waiting', stack')
    BY <1>6, <1>7, <2>1, <2>2, SuitsReattach DEF Fitting
  <2>4. hook' = hook /\ regs' = regs  BY <1>9 DEF KeepHook
  <2> QED  BY <2>3, <2>4, QuietSolo
<1> QED  BY <1>5, <1>8, <1>9

(* The calls that only tasks make.                                         *)
LEMMA BlockSolo ==
    ASSUME Sound, Timely, Solo, NEW S \in SUBSET Slots, NEW isMulti, Block(S, isMulti)
    PROVE  Solo'
<1> DEFINE w == Register(waiting, running, S)
<1>1. Actor \in Tasks /\ running \in Tasks /\ running \in Entries
  BY SoundTypes, Names DEF Block
<1>2. Table(waiting, Entries)  BY SoundTypes
<1>3. Table(w, Entries)  BY <1>1, <1>2, RegisterType
<1>4. \A h \in Hooks : running # h  BY <1>1, Names
<1>5. Fitting(w, stack)
  <2> SUFFICES ASSUME NEW h \in Hooks, NEW P, Held(h, P) PROVE Suits(w, stack, h, P)
    BY DEF Fitting
  <2>1. Suits(waiting, stack, h, P)  BY DEF Held
  <2> QED  BY <1>1, <1>2, <1>4, <2>1, SuitsRegister
<1>6. Suspend(w) /\ hook' = hook /\ regs' = regs  BY DEF Block
<1> HIDE DEF w
<1>7. Fitting(waiting', stack')  BY <1>1, <1>3, <1>5, <1>6, SuspendFitting
<1> QED  BY <1>6, <1>7, QuietSolo

LEMMA TaskCallSolo == ASSUME Sound, Timely, Solo, TaskCall PROVE Solo'
<1>1. CASE Finish
  BY <1>1, EndSolo DEF Finish
<1>2. CASE Yield
  <2>1. Actor \in Tasks /\ Suspend(waiting) /\ Table(waiting, Entries)
    BY <1>2, SoundTypes DEF Yield
  <2>2. Fitting(waiting', stack')  BY <2>1, FittingNow, SuspendFitting
  <2>3. hook' = hook /\ regs' = regs  BY <1>2 DEF Yield, cells
  <2> QED  BY <2>2, <2>3, QuietSolo
<1>3. CASE WaitFails
  BY <1>3, EndSolo DEF WaitFails
<1>4. ASSUME NEW em \in Known, NEW evs \in Lists(em), Wait(em, evs) PROVE Solo'
  <2>1. {em} \X evs \in SUBSET Slots  BY ListsType, KnownType DEF Slots
  <2> QED  BY <1>4, <2>1, BlockSolo DEF Wait
<1>5. ASSUME NEW ems \in SUBSET (Known \ {Clock}),
             NEW evs \in UNION {Lists(em) : em \in ems}, MultiWait(ems, evs)
      PROVE  Solo'
  <2>1. ems \X evs \in SUBSET Slots  BY ListsType, KnownType DEF Slots
  <2> QED  BY <1>5, <2>1, BlockSolo DEF MultiWait
<1> QED  BY <1>1, <1>2, <1>3, <1>4, <1>5 DEF TaskCall

(* A hook is registered: until then it was in no slot and in no call.      *)
LEMMA SigHookSolo ==
    ASSUME Single, Sound, Timely, Solo,
           NEW h0 \in Hooks, NEW kind \in {"hook", "once", "run", "runonce"}, NEW em \in Known,
           NEW evs \in Lists(em), SigHook(h0, kind, em, evs)
    PROVE  Solo'
<1> DEFINE S == {em} \X evs
           w == Register(waiting, h0, S)
<1>1. /\ hook[h0] = "free" /\ waiting' = w /\ stack' = stack
      /\ hook' = [hook EXCEPT ![h0] = kind] /\ regs' = [regs EXCEPT ![h0] = S]
  BY DEF SigHook
<1>2. Table(waiting, Entries) /\ hook \in [Hooks -> HookKinds] /\ regs \in [Hooks -> SUBSET Slots]
  BY SoundTypes
<1>3. Lone(S)
  <2>1. evs \in EventLists  BY DEF Lists
  <2>2. \A p \in S : p[1] = em /\ p[2] \in evs /\ p = <<p[1], p[2]>>  OBVIOUS
  <2> HIDE DEF S
  <2> QED  BY <2>1, <2>2 DEF Single, Lone
<1>4. \A h \in Hooks : h # h0 => hook'[h] = hook[h] /\ regs'[h] = regs[h]  BY <1>1, <1>2
<1>5. regs'[h0] = S  BY <1>1, <1>2
<1> HIDE DEF S
<1>6. ASSUME NEW h \in Hooks, h # h0, hook'[h] \in {"free", "once"}
      PROVE  Lone(regs'[h]) /\ Suits(waiting', stack', h, regs'[h])
  <2>1. Lone(regs[h]) /\ Suits(waiting, stack, h, regs[h])  BY <1>4, <1>6 DEF Solo
  <2>2. PICK P : P = regs[h]  OBVIOUS
  <2>3. Suits(waiting, stack, h, P)  BY <2>1, <2>2
  <2>4. Suits(w, stack, h, P)  BY <1>2, <1>6, <2>3, Names, SuitsRegister
  <2> HIDE DEF w
  <2> QED  BY <1>1, <1>4, <1>6, <2>1, <2>2, <2>4
<1>7. Suits(waiting, stack, h0, {})
  <2>1. regs[h0] = {}  BY <1>1 DEF Timely
  <2> QED  BY <1>1, <2>1 DEF Solo
<1>8. Suits(waiting', stack', h0, S)
  <2>1. \A j \in DOMAIN stack : ~Has(stack[j], h0)  BY <1>7 DEF Suits
  <2>2. Still(stack)  BY <1>7 DEF Suits
  <2>3. DOMAIN w = DOMAIN waiting \cup S /\ \A p \in DOMAIN w :
          p \notin S => w[p] = waiting[p]
    BY DEF Register
  <2>4. \A p : ~Queued(waiting, h0, p)  BY <1>7 DEF Suits
  <2> HIDE DEF w
  <2>5. \A p : Queued(w, h0, p) => p \in S
    BY <2>3, <2>4 DEF Queued
  <2> QED  BY <1>1, <2>1, <2>2, <2>5 DEF Suits
<1> HIDE DEF w
<1> QED  BY <1>3, <1>5, <1>6, <1>8 DEF Solo

(* The calls made by tasks and hooks alike.                                *)
LEMMA CallerNoDelay ==
    ASSUME Sound, Timely, NEW op, May(op), op \in {"signal", "kill", "killready", "killnew", "killgone"},
           NEW h, NEW P, Held(h, P)
    PROVE  NoDelay(stack)
<1> SUFFICES ASSUME Mute, Actor \in Hooks PROVE FALSE
  BY ActorTimed
<1>1. op \in HookOps  BY IdAssumption DEF May
<1> QED  BY <1>1 DEF Mute

LEMMA KillNoDelay ==
    ASSUME Sound, Timely, NEW op \in {"kill", "killready", "killnew", "killgone"}, NEW x,
           MayKill(op, x), NEW h, NEW P, Held(h, P)
    PROVE  NoDelay(stack)
BY CallerNoDelay DEF MayKill

LEMMA EmitNoDelay ==
    ASSUME Sound, Timely, NEW em, MayEmit(em), NEW h, NEW P, Held(h, P)
    PROVE  NoDelay(stack)
<1>1. CASE InProgress(em)  BY <1>1, ActorTimed
<1>2. CASE ~InProgress(em)
  <2>1. May("signal")  BY <1>2 DEF MayEmit
  <2> QED  BY <2>1, CallerNoDelay
<1> QED  BY <1>1, <1>2

LEMMA AnyCallSolo == ASSUME Single, Sound, Timely, Solo, AnyCall PROVE Solo'
<1>0. Table(waiting, Entries) /\ stack \in Seq(Frames)  BY SoundTypes
<1>1. ASSUME NEW t \in Tasks, Run(t) PROVE Solo'
  <2>1. hook' = hook /\ regs' = regs /\ waiting' = waiting /\ stack' = stack
    BY <1>1 DEF Run, cells
  <2>2. Fitting(waiting', stack')  BY <2>1, FittingNow
  <2> QED  BY <2>1, <2>2, QuietSolo
<1>2. ASSUME NEW em \in Objects, NEW ev \in Events, Signal(em, ev) PROVE Solo'
  <2>1. em \in Emitters /\ ev \in Keys \ {Timeout}
    BY EventAssumption DEF Emitters, Keys
  <2>2. MayEmit(em) /\ Emit(em, ev, FALSE, waiting, stack) /\ hook' = hook /\ regs' = regs
    BY <1>2 DEF Signal, cells
  <2>3. \A h \in Hooks : \A P : Held(h, P) => NoDelay(stack)  BY <2>2, EmitNoDelay
  <2>4. Fitting(waiting', stack')  BY <1>0, <2>1, <2>2, <2>3, FittingNow, EmitFitting
  <2> QED  BY <2>2, <2>4, QuietSolo
<1>3. ASSUME NEW h \in Hooks, NEW kind \in {"hook", "once", "run", "runonce"},
             NEW em \in Known, NEW evs \in Lists(em), SigHook(h, kind, em, evs)
      PROVE  Solo'
  BY <1>3, SigHookSolo
<1>4. CASE Gc
  <2>1. /\ hook' = hook /\ regs' = regs /\ stack' = stack
        /\ waiting' = Collected(waiting, stack)
    BY <1>4 DEF Gc, cells
  <2>2. \A h \in Hooks : \A P : Held(h, P) => Suits(Collected(waiting, stack), stack, h, P)
    BY <1>0, SuitsCollected DEF Held
  <2>3. Fitting(waiting', stack')  BY <2>1, <2>2 DEF Fitting
  <2> QED  BY <2>1, <2>3, QuietSolo
<1>5. CASE KillSelf
  <2>1. CASE Actor \in Tasks
    <3>1. End(TRUE)  BY <1>5, <2>1 DEF KillSelf
    <3> QED  BY <2>1, <3>1, EndSolo
  <2>2. CASE Actor \notin Tasks
    <3>1. Actor \in Hooks  BY <1>5, <2>2, ActorType DEF KillSelf, May, Owners
    <3>2. HookReturns(TRUE, waiting)  BY <1>5, <2>2 DEF KillSelf
    <3> QED  BY <1>0, <3>1, <3>2, FittingNow, ReturnsSolo
  <2> QED  BY <2>1, <2>2
<1>6. ASSUME NEW x \in Tasks, KillSuspended(x) PROVE Solo'
  <2> DEFINE w == EmptyWaiting(waiting, x)
             s == EmptyStack(stack, x)
             op == IF HasCell(x) THEN "kill" ELSE "killready"
  <2>1. MayKill(op, x) /\ Emit(x, Die, FALSE, w, s) /\ hook' = hook /\ regs' = regs
    BY <1>6 DEF KillSuspended
  <2>2. Table(w, Entries) /\ s \in Seq(Frames)
    <3>1. Table(w, Alive) /\ Calls(s, Alive)  BY TaskClearedType DEF Sound
    <3>2. Alive \subseteq Entries  BY AliveCells
    <3>3. \A p \in DOMAIN w : w[p] \in Seq(Entries)
      <4> HIDE DEF w
      <4> QED  BY <3>1, <3>2, SeqMonotonic DEF Table
    <3> HIDE DEF w, s
    <3> QED  BY <3>1, <3>3, CallsSeq DEF Table
  <2>3. \A h \in Hooks : \A P : Held(h, P) => Suits(w, s, h, P)
    BY <1>0, SuitsEmpty DEF Held
  <2>4. \A h \in Hooks : \A P : Held(h, P) => NoDelay(s)
    <3>1. op \in {"kill", "killready", "killnew", "killgone"}  OBVIOUS
    <3> HIDE DEF op
    <3> QED  BY <1>0, <2>1, <3>1, KillNoDelay, NoDelayUnder
  <2>5. x \in Emitters /\ Die \in Keys \ {Timeout}  BY DEF Emitters, Keys, Die, Timeout
  <2> HIDE DEF w, s, op
  <2>6. Fitting(w, s)  BY <2>3 DEF Fitting
  <2>7. Fitting(waiting', stack')  BY <2>1, <2>2, <2>4, <2>5, <2>6, EmitFitting
  <2> QED  BY <2>1, <2>7, QuietSolo
<1>7. ASSUME NEW x \in Tasks, KillNew(x) PROVE Solo'
  <2> DEFINE f == NewFrame(x, Die, FALSE, "resume", <<>>, "none", x)
  <2>1. f \in Frames
    BY NewFrameType, EmptySeq, AliveCells DEF Emitters, Keys, Owners
  <2>2. f.key # Timeout /\ f.todo = <<>> /\ f.who = x  BY DEF NewFrame, Timeout
  <2>3. /\ stack' = <<f>> \o stack /\ waiting' = waiting /\ hook' = hook /\ regs' = regs
        /\ MayKill("killnew", x)
    BY <1>7 DEF KillNew, cells
  <2> HIDE DEF f
  <2>4. \A h \in Hooks : ~Has(f, h)  BY <2>2, NilIn, Names DEF Has
  <2>5. ASSUME NEW h \in Hooks, NEW P, Held(h, P) PROVE Suits(waiting, <<f>> \o stack, h, P)
    <3>1. NoDelay(stack)  BY <2>3, <2>5, KillNoDelay
    <3>2. Suits(waiting, stack, h, P)  BY <2>5 DEF Held
    <3> QED  BY <1>0, <2>1, <2>2, <2>4, <3>1, <3>2, SuitsPush
  <2>6. Fitting(waiting', stack')  BY <2>3, <2>5 DEF Fitting
  <2> QED  BY <2>3, <2>6, QuietSolo
<1>8. ASSUME NEW x \in Tasks, KillGone(x) PROVE Solo'
  <2>1. x \in Emitters /\ Die \in Keys \ {Timeout}  BY DEF Emitters, Keys, Die, Timeout
  <2>2. MayKill("killgone", x) /\ Emit(x, Die, FALSE, waiting, stack)
        /\ hook' = hook /\ regs' = regs
    BY <1>8 DEF KillGone, cells
  <2>3. \A h \in Hooks : \A P : Held(h, P) => NoDelay(stack)  BY <2>2, KillNoDelay
  <2>4. Fitting(waiting', stack')  BY <1>0, <2>1, <2>2, <2>3, FittingNow, EmitFitting
  <2> QED  BY <2>2, <2>4, QuietSolo
<1>9. ASSUME NEW h0 \in Hooks, KillHook(h0) PROVE Solo'
  <2>1. /\ ClearHook(h0) /\ waiting' = EmptyWaiting(waiting, h0)
        /\ stack' = EmptyStack(stack, h0)
    BY <1>9 DEF KillHook
  <2>2. \A h \in Hooks : \A P : Held(h, P) =>
          Suits(EmptyWaiting(waiting, h0), EmptyStack(stack, h0), h, P)
    BY <1>0, SuitsEmpty DEF Held
  <2>3. Fitting(waiting', stack')  BY <2>1, <2>2 DEF Fitting
  <2> QED  BY <2>1, <2>3, ClearSolo
<1> QED  BY <1>1, <1>2, <1>3, <1>4, <1>5, <1>6, <1>7, <1>8, <1>9 DEF AnyCall

(* The calls that only hooks make, and their end.                          *)
LEMMA HookCallSolo == ASSUME Sound, Timely, Solo, HookCall PROVE Solo'
<1>0. Table(waiting, Entries)  BY SoundTypes
<1>1. CASE HookDone
  <2>1. Actor \in Hooks /\ HookReturns(FALSE, waiting)  BY <1>1 DEF HookDone
  <2> QED  BY <1>0, <2>1, FittingNow, ReturnsSolo
<1>2. ASSUME NEW em \in Objects, NEW ev \in Events, BlockInHook(em, ev) PROVE Solo'
  <2> DEFINE S == {<<em, ev>>}
             w == Register(waiting, running, S)
  <2>1. Actor \in Hooks /\ running \in Tasks /\ HookReturns(FALSE, w)
    BY <1>2, SoundTypes DEF BlockInHook
  <2>2. running \in Entries /\ S \in SUBSET Slots /\ \A h \in Hooks : running # h
    BY <2>1, Names DEF Slots, Emitters, Keys
  <2>3. Table(w, Entries)  BY <1>0, <2>2, RegisterType
  <2>4. ASSUME NEW h \in Hooks, NEW P, Held(h, P) PROVE Suits(w, stack, h, P)
    <3>1. Suits(waiting, stack, h, P)  BY <2>4 DEF Held
    <3> QED  BY <1>0, <2>2, <3>1, SuitsRegister
  <2> HIDE DEF w
  <2>5. Fitting(w, stack)  BY <2>4 DEF Fitting
  <2> QED  BY <2>1, <2>3, <2>5, ReturnsSolo
<1> QED  BY <1>1, <1>2 DEF HookCall

(* The cells of a queue.                                                   *)
LEMMA WakeTaskSolo == ASSUME Sound, Timely, Solo, NEW t \in Tasks, WakeTask(t) PROVE Solo'
<1> DEFINE s == EmptyStack(Taken, t)
           g == [Head(s) EXCEPT !.woken = Append(Head(s).woken, t)]
           w == EmptyWaiting(waiting, t)
<1>1. /\ NextCell(t) /\ waiting' = w /\ stack' = <<g>> \o Tail(s)
      /\ hook' = hook /\ regs' = regs
  BY DEF WakeTask
<1>2. stack \in Seq(Frames)  BY SoundTypes
<1>3. Taken \in Seq(Frames) /\ Taken # <<>>  BY <1>1, <1>2, TakenOk
<1>4. s \in Seq(Frames) /\ s # <<>>
  <2>1. Calling(s, Taken)  BY <1>3, EmptyOk
  <2> HIDE DEF s
  <2> QED  BY <1>3, <2>1, CallingTail DEF Calling
<1>5. \A h \in Hooks : \A P : Held(h, P) => Suits(w, s, h, P)
  <2> SUFFICES ASSUME NEW h \in Hooks, NEW P, Held(h, P) PROVE Suits(w, s, h, P)
    OBVIOUS
  <2>1. Suits(waiting, stack, h, P)  BY DEF Held
  <2>2. Suits(waiting, Taken, h, P)  BY <1>1, <1>2, <2>1, SuitsTaken
  <2> QED  BY <1>3, <2>2, SuitsEmpty
<1> HIDE DEF s, w
<1>6. /\ Head(s) \in Frames /\ Tail(s) \in Seq(Frames) /\ s = <<Head(s)>> \o Tail(s)
  BY <1>4, TopOk
<1>7. /\ g \in Frames /\ g.em = Head(s).em /\ g.key = Head(s).key
      /\ g.todo = Head(s).todo /\ g.who = Head(s).who
  <2>1. Append(Head(s).woken, t) \in Seq(Tasks)
    <3>1. Head(s).woken \in Seq(Tasks)  BY <1>6 DEF Frames
    <3> QED  BY <3>1, AppendProperties
  <2> QED  BY <1>6, <2>1 DEF Frames
<1> HIDE DEF g
<1>8. ASSUME NEW h \in Hooks, NEW P, Held(h, P) PROVE Suits(w, <<g>> \o Tail(s), h, P)
  <2>1. Suits(w, <<Head(s)>> \o Tail(s), h, P)  BY <1>5, <1>6, <1>8
  <2>2. Has(g, h) => Has(Head(s), h)  BY <1>7 DEF Has
  <2> QED  BY <1>6, <1>7, <2>1, <2>2, SuitsTop
<1>9. Fitting(waiting', stack')  BY <1>1, <1>8 DEF Fitting
<1> QED  BY <1>1, <1>9, QuietSolo

LEMMA CallSigRunSolo == ASSUME Sound, Timely, Solo, NEW h0 \in Hooks, CallSigRun(h0) PROVE Solo'
<1>1. NextCell(h0) /\ hook[h0] = "run"  BY DEF CallSigRun
<1>2. /\ stack \in Seq(Frames) /\ Table(waiting, Entries)
      /\ hook \in [Hooks -> HookKinds] /\ regs \in [Hooks -> SUBSET Slots]
  BY SoundTypes
<1>3. Taken \in Seq(Frames) /\ Taken # <<>>  BY <1>1, <1>2, TakenOk
<1>4. h0 \in Entries  BY Names
<1>5. ASSUME NEW h \in Hooks, NEW P, Held(h, P)
      PROVE  h0 # h /\ Suits(waiting, Taken, h, P)
  <2>1. Suits(waiting, stack, h, P) /\ h0 # h  BY <1>1, <1>5 DEF Held
  <2> QED  BY <1>1, <1>2, <2>1, SuitsTaken
<1>6. CASE Reattach(h0, waiting, Taken) /\ hook' = hook /\ regs' = regs
  <2>1. \A h \in Hooks : \A P : Held(h, P) => Suits(waiting', stack', h, P)
    BY <1>2, <1>3, <1>4, <1>5, <1>6, SuitsReattach
  <2>2. Fitting(waiting', stack')  BY <2>1 DEF Fitting
  <2> QED  BY <1>6, <2>2, QuietSolo
<1>7. ASSUME NEW t \in Unborn, NEW h2 \in Unused,
             Reattach(h0, Register(waiting, h2, {<<t, Die>>}), Taken),
             hook' = [hook EXCEPT ![h2] = "propagate"],
             regs' = [regs EXCEPT ![h2] = {<<t, Die>>}]
      PROVE  Solo'
  <2> DEFINE S == {<<t, Die>>}
             w == Register(waiting, h2, S)
  <2>1. h2 \in Hooks /\ t \in Tasks  BY DEF Unused, Unborn
  <2>2. h2 \in Entries /\ S \in SUBSET Slots  BY <2>1, Names DEF Slots
  <2>3. Table(w, Entries)  BY <1>2, <2>2, RegisterType
  <2>4. Settled  BY <1>2, <1>7, <2>1 DEF Settled
  <2>5. ASSUME NEW h \in Hooks, hook'[h] \in {"free", "once"}, NEW P, Held(h, P)
        PROVE  Suits(w, Taken, h, P) /\ h0 # h
    <3>1. h2 # h  BY <1>2, <1>7, <2>5
    <3> QED  BY <1>2, <1>5, <2>2, <2>5, <3>1, SuitsRegister
  <2>6. Reattach(h0, w, Taken)  BY <1>7
  <2> HIDE DEF w
  <2>7. Holding  BY <1>3, <1>4, <2>3, <2>5, <2>6, SuitsReattach DEF Holding
  <2> QED  BY <2>4, <2>7, SoloSettled
<1>8. \/ /\ Reattach(h0, waiting, Taken) /\ hook' = hook /\ regs' = regs
      \/ \E t \in Unborn, h2 \in Unused :
           /\ Reattach(h0, Register(waiting, h2, {<<t, Die>>}), Taken)
           /\ hook' = [hook EXCEPT ![h2] = "propagate"]
           /\ regs' = [regs EXCEPT ![h2] = {<<t, Die>>}]
  BY DEF CallSigRun
<1> QED  BY <1>6, <1>7, <1>8

LEMMA CallPropagateSolo ==
    ASSUME Sound, Timely, Solo, NEW h0 \in Hooks, CallPropagate(h0) PROVE Solo'
<1>1. PICK x : x = target[h0]  OBVIOUS
<1> DEFINE dead == IF Suicide /\ hook[x] # "emptied" THEN {h0, x} ELSE {h0}
           w    == EmptyWaiting(waiting, h0)
           s    == EmptyStack(Taken, h0)
<1>2. /\ NextCell(h0)
      /\ hook' = [c \in Hooks |-> IF c \in dead THEN "emptied" ELSE hook[c]]
      /\ regs' = [c \in Hooks |-> IF c \in dead THEN {} ELSE regs[c]]
      /\ waiting' = IF x \in dead THEN EmptyWaiting(w, x) ELSE w
      /\ stack' = IF x \in dead THEN EmptyStack(s, x) ELSE s
  BY <1>1 DEF CallPropagate
<1>3. stack \in Seq(Frames)  BY SoundTypes
<1>4. Taken \in Seq(Frames)  BY <1>2, <1>3, TakenOk
<1>5. s \in Seq(Frames)  BY <1>4, EmptyOk DEF Calling
<1> HIDE DEF dead
<1>6. ASSUME NEW h \in Hooks, NEW P, Held(h, P)
      PROVE  Suits(w, s, h, P) /\ Suits(EmptyWaiting(w, x), EmptyStack(s, x), h, P)
  <2>1. Suits(waiting, stack, h, P)  BY <1>6 DEF Held
  <2>2. Suits(waiting, Taken, h, P)  BY <1>2, <1>3, <2>1, SuitsTaken
  <2>3. Suits(w, s, h, P)  BY <1>4, <2>2, SuitsEmpty
  <2> HIDE DEF w, s
  <2> QED  BY <1>5, <2>3, SuitsEmpty
<1> HIDE DEF w, s
<1>7. \A h \in Hooks : \A P : Held(h, P) => Suits(waiting', stack', h, P)  BY <1>2, <1>6
<1>8. Settled  BY <1>2 DEF Settled
<1>9. Holding  BY <1>7 DEF Holding
<1> QED  BY <1>8, <1>9, SoloSettled

LEMMA ParseStepSolo == ASSUME Sound, Timely, Solo, ParseStep PROVE Solo'
<1>0. stack \in Seq(Frames)  BY SoundTypes
<1>1. CASE SkipEmptied
  <2>1. /\ NextCell(Emptied) /\ stack' = Taken /\ waiting' = waiting
        /\ hook' = hook /\ regs' = regs
    BY <1>1 DEF SkipEmptied, cells
  <2>2. \A h \in Hooks : \A P : Held(h, P) => Suits(waiting, Taken, h, P)
    BY <1>0, <2>1, SuitsTaken DEF Held
  <2>3. Fitting(waiting', stack')  BY <2>1, <2>2 DEF Fitting
  <2> QED  BY <2>1, <2>3, QuietSolo
<1>2. CASE EndQueue
  <2>1. hook' = hook /\ regs' = regs  BY <1>2 DEF EndQueue, cells
  <2>2. Fitting(waiting', stack')  BY <1>2, SuitsEndQueue DEF Fitting
  <2> QED  BY <2>1, <2>2, QuietSolo
<1>3. ASSUME NEW h0 \in Hooks, CallHook(h0) PROVE Solo'
  <2>1. /\ NextCell(h0) /\ stack' = <<[Head(Taken) EXCEPT !.who = h0]>> \o Tail(Taken)
        /\ waiting' = waiting /\ hook' = hook /\ regs' = regs
    BY <1>3 DEF CallHook
  <2>2. \A h \in Hooks : \A P : Held(h, P) =>
           Suits(waiting, <<[Head(Taken) EXCEPT !.who = h0]>> \o Tail(Taken), h, P)
    BY <1>0, <2>1, SuitsTaken DEF Held
  <2>3. Fitting(waiting', stack')  BY <2>1, <2>2 DEF Fitting
  <2> QED  BY <2>1, <2>3, QuietSolo
<1>4. ASSUME NEW h0 \in Hooks, CallSigRunOnce(h0) PROVE Solo'
  <2>1. /\ NextCell(h0) /\ ClearHook(h0) /\ waiting' = EmptyWaiting(waiting, h0)
        /\ stack' = EmptyStack(Taken, h0)
    BY <1>4 DEF CallSigRunOnce
  <2>2. Taken \in Seq(Frames)  BY <1>0, <2>1, TakenOk
  <2>3. \A h \in Hooks : \A P : Held(h, P) => Suits(waiting, Taken, h, P)
    BY <1>0, <2>1, SuitsTaken DEF Held
  <2>4. \A h \in Hooks : \A P : Held(h, P) =>
           Suits(EmptyWaiting(waiting, h0), EmptyStack(Taken, h0), h, P)
    BY <2>2, <2>3, SuitsEmpty
  <2>5. Fitting(waiting', stack')  BY <2>1, <2>4 DEF Fitting
  <2> QED  BY <2>1, <2>5, ClearSolo
<1> QED  BY <1>1, <1>2, <1>3, <1>4, WakeTaskSolo, CallSigRunSolo, CallPropagateSolo DEF ParseStep

(* The loop: nothing else is in progress.                                  *)
LEMMA TimerHookSolo == ASSUME Sound, Timely, Solo, NEW h0 \in Hooks, TimerHook(h0) PROVE Solo'
<1>1. PICK em \in Emitters :
         /\ <<em, Timeout>> \in regs[h0]
         /\ stack' = <<NewFrame(em, Timeout, FALSE, Timeout, <<>>, "none", h0)>>
  BY DEF TimerHook
<1>2. waiting' = waiting /\ hook' = hook /\ regs' = regs  BY DEF TimerHook
<1> DEFINE f == NewFrame(em, Timeout, FALSE, Timeout, <<>>, "none", h0)
           s == <<f>>
<1>3. f.key = Timeout /\ SlotOf(f) = <<em, Timeout>> /\ f.todo = <<>> /\ f.who = h0
  BY DEF NewFrame, SlotOf
<1>4. stack' = s  BY <1>1
<1> HIDE DEF f
<1>5. DOMAIN s = {1} /\ s[1] = f  OBVIOUS
<1> HIDE DEF s
<1>6. ASSUME NEW h \in Hooks, NEW P, Held(h, P) PROVE Suits(waiting, s, h, P)
  <2>1. Suits(waiting, stack, h, P) /\ P = regs[h]  BY <1>6 DEF Held
  <2>2. Still(s)  BY <1>3, <1>5 DEF Still
  <2>3. ASSUME Has(f, h) PROVE SlotOf(f) \in P
    <3>1. h = h0  BY <1>3, <2>3, NilIn DEF Has
    <3> QED  BY <1>1, <1>3, <2>1, <3>1
  <2> QED  BY <1>3, <1>5, <2>1, <2>2, <2>3 DEF Suits
<1>7. Fitting(waiting', stack')  BY <1>2, <1>4, <1>6 DEF Fitting
<1> QED  BY <1>2, <1>7, QuietSolo

LEMMA TimerRunSolo == ASSUME Sound, Timely, Solo, NEW h0 \in Hooks, TimerRun(h0) PROVE Solo'
<1> DEFINE w == EmptyWaiting(waiting, h0)
<1>1. /\ Table(waiting, Entries) /\ hook \in [Hooks -> HookKinds]
      /\ regs \in [Hooks -> SUBSET Slots]
  BY SoundTypes
<1>2. Table(w, Entries)
  <2>1. Emptied \in Entries /\ Entries \ {h0} \subseteq Entries  BY Names
  <2> QED  BY <1>1, <2>1, EmptyWaitingType
<1>3. stack' = stack  BY DEF TimerRun
<1>4. \A h \in Hooks : \A P : Held(h, P) => Suits(w, stack, h, P)
  BY SuitsEmptyTable DEF Held
<1>5. \/ /\ ClearHook(h0) /\ waiting' = w
      \/ \E t \in Unborn, h2 \in Unused :
            /\ hook' = [hook EXCEPT ![h0] = "emptied", ![h2] = "propagate"]
            /\ regs' = [regs EXCEPT ![h0] = {}, ![h2] = {<<t, Die>>}]
            /\ waiting' = Register(w, h2, {<<t, Die>>})
  BY DEF TimerRun
<1> HIDE DEF w
<1>6. CASE ClearHook(h0) /\ waiting' = w
  <2>1. Fitting(waiting', stack')  BY <1>3, <1>4, <1>6 DEF Fitting
  <2> QED  BY <1>6, <2>1, ClearSolo
<1>7. ASSUME NEW t \in Unborn, NEW h2 \in Unused,
             hook' = [hook EXCEPT ![h0] = "emptied", ![h2] = "propagate"],
             regs' = [regs EXCEPT ![h0] = {}, ![h2] = {<<t, Die>>}],
             waiting' = Register(w, h2, {<<t, Die>>})
      PROVE  Solo'
  <2> DEFINE S == {<<t, Die>>}
  <2>1. h2 \in Hooks /\ h2 \in Entries  BY Names DEF Unused
  <2>2. Settled  BY <1>1, <1>7, <2>1 DEF Settled
  <2>3. ASSUME NEW h \in Hooks, hook'[h] \in {"free", "once"}, NEW P, Held(h, P)
        PROVE  Suits(Register(w, h2, S), stack, h, P)
    <3>1. h2 # h  BY <1>1, <1>7, <2>1, <2>3
    <3>2. Suits(w, stack, h, P)  BY <1>4, <2>3
    <3> HIDE DEF S
    <3> QED  BY <1>2, <2>1, <3>1, <3>2, SuitsRegister
  <2>4. Holding  BY <1>3, <1>7, <2>3 DEF Holding
  <2> QED  BY <2>2, <2>4, SoloSettled
<1> QED  BY <1>5, <1>6, <1>7

LEMMA LoopStepSolo == ASSUME Sound, Timely, Solo, LoopStep PROVE Solo'
<1>0. Table(waiting, Entries) /\ stack \in Seq(Frames)  BY SoundTypes
<1>1. CASE StartLoop \/ TimersDone \/ SelectDone
  <2>1. hook' = hook /\ regs' = regs /\ waiting' = waiting /\ stack' = stack
    BY <1>1 DEF StartLoop, TimersDone, SelectDone, cells
  <2>2. Fitting(waiting', stack')  BY <2>1, FittingNow
  <2> QED  BY <2>1, <2>2, QuietSolo
<1>2. CASE StepDone
  <2>1. /\ hook' = hook /\ regs' = regs /\ stack' = stack
        /\ waiting' = IF cleanup THEN Collected(waiting, stack) ELSE waiting
    BY <1>2 DEF StepDone
  <2>2. \A h \in Hooks : \A P : Held(h, P) =>
          Suits(waiting, stack, h, P) /\ Suits(Collected(waiting, stack), stack, h, P)
    BY <1>0, SuitsCollected DEF Held
  <2>3. Fitting(waiting', stack')  BY <2>1, <2>2 DEF Fitting
  <2> QED  BY <2>1, <2>3, QuietSolo
<1>3. ASSUME NEW t \in Tasks, TimerTask(t) PROVE Solo'
  <2>1. /\ hook' = hook /\ regs' = regs /\ stack' = stack
        /\ waiting' = EmptyWaiting(waiting, t)
    BY <1>3 DEF TimerTask
  <2>2. \A h \in Hooks : \A P : Held(h, P) => Suits(EmptyWaiting(waiting, t), stack, h, P)
    BY SuitsEmptyTable DEF Held
  <2>3. Fitting(waiting', stack')  BY <2>1, <2>2 DEF Fitting
  <2> QED  BY <2>1, <2>3, QuietSolo
<1>4. stack = <<>> => \A h \in Hooks : \A P : Held(h, P) => NoDelay(stack)
  BY EmptySeq DEF NoDelay
<1>5. CASE Resume
  <2>1. ready # <<>> /\ ready \in Seq(Tasks) /\ stack = <<>> /\ hook' = hook /\ regs' = regs
    BY <1>5, SoundTypes DEF Resume, Loop, cells
  <2>2. PICK t \in Tasks : t = Head(ready)  BY <2>1, HeadTailProperties
  <2>3. \/ waiting' = waiting /\ stack' = stack
        \/ Emit(t, Die, FALSE, waiting, stack)
    BY <1>5, <2>2 DEF Resume
  <2>4. t \in Emitters /\ Die \in Keys \ {Timeout}  BY DEF Emitters, Keys, Die, Timeout
  <2>5. CASE waiting' = waiting /\ stack' = stack
    <3>1. Fitting(waiting', stack')  BY <2>5, FittingNow
    <3> QED  BY <2>1, <3>1, QuietSolo
  <2>6. CASE Emit(t, Die, FALSE, waiting, stack)
    <3>1. Fitting(waiting', stack')  BY <1>0, <1>4, <2>1, <2>4, <2>6, FittingNow, EmitFitting
    <3> QED  BY <2>1, <3>1, QuietSolo
  <2> QED  BY <2>3, <2>5, <2>6
<1>6. ASSUME NEW em \in Objects, NEW ev \in Events, LoopSignal(em, ev) PROVE Solo'
  <2>1. /\ em \in Emitters /\ ev \in Keys \ {Timeout}
    BY EventAssumption DEF Emitters, Keys
  <2>2. /\ stack = <<>> /\ Emit(em, ev, FALSE, waiting, stack) /\ hook' = hook /\ regs' = regs
    BY <1>6 DEF LoopSignal, Loop, cells
  <2>3. Fitting(waiting', stack')  BY <1>0, <1>4, <2>1, <2>2, FittingNow, EmitFitting
  <2> QED  BY <2>2, <2>3, QuietSolo
<1> QED  BY <1>1, <1>2, <1>3, <1>5, <1>6, TimerHookSolo, TimerRunSolo DEF LoopStep

LEMMA NextSolo == ASSUME Single, Sound, Timely, Solo, [Next]_vars PROVE Solo'
<1>1. CASE UNCHANGED vars
  <2>1. hook' = hook /\ regs' = regs /\ waiting' = waiting /\ stack' = stack
    BY <1>1 DEF vars
  <2>2. Fitting(waiting', stack')  BY <2>1, FittingNow
  <2> QED  BY <2>1, <2>2, QuietSolo
<1>2. CASE Next
  BY <1>2, TaskCallSolo, AnyCallSolo, HookCallSolo, ParseStepSolo, LoopStepSolo DEF Next
<1> QED  BY <1>1, <1>2

LEMMA InitSolo == ASSUME Init PROVE Solo
<1>1. stack = <<>> /\ DOMAIN waiting = {} /\ DOMAIN <<>> = {}
      /\ \A h \in Hooks : regs[h] = {}
  BY EmptySeq DEF Init
<1>2. \A h \in Hooks : \A P : Suits(waiting, stack, h, P)
  BY <1>1 DEF Suits, Still, Queued
<1>3. Lone({})  BY DEF Lone
<1> QED  BY <1>1, <1>2, <1>3 DEF Solo

(* Until it has run, a sigOnce hook is in one call at a time, and in no    *)
(* queue meanwhile, when it is registered for one event, and perhaps for a *)
(* delay in a program whose hooks are mute (sched/init.lua:600-625).       *)
THEOREM SoloInvariant == ASSUME Single PROVE Spec => []Solo
<1>1. Init => Solo  BY InitSolo
<1>2. Sound /\ Timely /\ Solo /\ [Next]_vars => Solo'  BY NextSolo
<1> QED  BY <1>1, <1>2, SoundInvariant, TimelyInvariant, PTL DEF Spec

(* "The hook will only be run once" (sched/init.lua:971): a sigOnce hook   *)
(* is never entered again while it runs, whatever it does and however      *)
(* signals nest, in programs which register it for one event: one which    *)
(* waits for two can be (Sched_once_twice.cfg).                            *)
THEOREM RunsOnce == ASSUME Single PROVE Spec => []OnceRunsOnce
<1>1. Sound /\ Solo => OnceRunsOnce
  <2> SUFFICES ASSUME Sound, Solo, NEW i \in DOMAIN stack, NEW j \in DOMAIN stack, i # j,
                      stack[i].who = stack[j].who, stack[i].who \in Hooks,
                      hook[stack[i].who] = "once"
               PROVE  FALSE
    BY DEF OnceRunsOnce
  <2>1. PICK h \in Hooks : h = stack[i].who  OBVIOUS
  <2>2. Has(stack[i], h) /\ Has(stack[j], h)  BY <2>1 DEF Has
  <2> QED  BY <2>1, <2>2 DEF Solo, Suits
<1> QED  BY <1>1, SoundInvariant, SoloInvariant, PTL

-----------------------------------------------------------------------------
(* The sweep is not forgotten. A cell is emptied where the signal that     *)
(* found it has taken it from; the others it has are left in the table,    *)
(* and CLEANUP_REQUIRED must be set for them. It is for the cells marked   *)
(* multi, so what has to be shown is that the others are in one place: in  *)
(* a queue, in the list of a call, or called by it. Programs that delay or *)
(* kill blocked tasks empty cells in a third way, which sets nothing.      *)

Thrifty == /\ Careful /\ "kill" \notin TaskOps \cup HookOps
           /\ \A evs \in EventLists : IsFiniteSet(evs) /\ Timeout \notin evs

AtMost(q, c) == \A i, j \in DOMAIN q : q[i] = c /\ q[j] = c => i = j

\* The cell of c is nowhere; it is in one place at most.
Absent(w, s, c) == /\ \A p : ~Queued(w, c, p)
                   /\ \A j \in DOMAIN s : ~Has(s[j], c)
Sole(w, s, c) ==
    /\ \A p, q : Queued(w, c, p) /\ Queued(w, c, q) => p = q
    /\ \A p \in DOMAIN w : AtMost(w[p], c)
    /\ \A j \in DOMAIN s : Has(s[j], c) =>
         /\ \A p : ~Queued(w, c, p)
         /\ AtMost(s[j].todo, c) /\ ~(InList(s[j].todo, c) /\ s[j].who = c)
    /\ \A i, j \in DOMAIN s : Has(s[i], c) /\ Has(s[j], c) => i = j

\* The hook h is being called.
Runs(s, h) == \E p : Called(s, h, p)

\* Cells that have been emptied are left in the table: cl says so.
Remembered(w, cl) == \A p : Queued(w, Emptied, p) => cl

\* A hook in several places, or which has been emptied, is called: cl says so.
Noticed(s, H, m, cl) ==
    \A h \in Hooks : Runs(s, h) /\ (h \in m \/ H[h] = "emptied") => cl

Counted ==
    /\ timers = {}
    /\ \A c \in Owners \ multi : c \in Alive => Sole(waiting, stack, c)
    /\ \A h \in Hooks : hook[h] = "free" => Absent(waiting, stack, h) /\ h \notin multi
    /\ Noticed(stack, hook, multi, cleanup)
    /\ Remembered(waiting, cleanup)

-----------------------------------------------------------------------------
(* Lists                                                                   *)
LEMMA NilAt == \A c : AtMost(<<>>, c)
BY EmptySeq DEF AtMost

LEMMA OneAt == \A c, x : AtMost(<<c>>, x)
BY DEF AtMost

LEMMA AbsentAt == ASSUME NEW q, NEW c, ~InList(q, c) PROVE AtMost(q, c)
BY DEF AtMost, InList

LEMMA AppendAt ==
    ASSUME NEW S, NEW q \in Seq(S), NEW c \in S, NEW x, AtMost(q, x), x = c => ~InList(q, c)
    PROVE  AtMost(Append(q, c), x)
<1> DEFINE r == Append(q, c)
           n == Len(q)
<1>1. n \in Nat /\ DOMAIN q = 1 .. n  BY LenProperties
<1>2. r \in Seq(S) /\ Len(r) = n + 1 /\ r[n + 1] = c /\ \A i \in 1 .. n : r[i] = q[i]
  BY AppendProperties
<1>3. DOMAIN r = 1 .. n + 1  BY <1>2, LenProperties
<1> HIDE DEF r, n
<1>4. \A i \in DOMAIN r : i \in DOMAIN q \/ i = n + 1  BY <1>1, <1>3
<1>5. AtMost(r, x)
  <2> SUFFICES ASSUME NEW i \in DOMAIN r, NEW j \in DOMAIN r, r[i] = x, r[j] = x PROVE i = j
    BY DEF AtMost
  <2>1. CASE i \in DOMAIN q /\ j \in DOMAIN q  BY <1>1, <1>2, <2>1 DEF AtMost
  <2>2. CASE i \notin DOMAIN q  BY <1>1, <1>2, <1>4, <2>2 DEF InList
  <2>3. CASE j \notin DOMAIN q  BY <1>1, <1>2, <1>4, <2>3 DEF InList
  <2> QED  BY <2>1, <2>2, <2>3
<1> QED  BY <1>5 DEF r

LEMMA TailAt ==
    ASSUME NEW S, NEW q \in Seq(S), q # <<>>, NEW c, AtMost(q, c)
    PROVE  AtMost(Tail(q), c) /\ (c = Head(q) => ~InList(Tail(q), c))
<1> DEFINE u == Tail(q)
           a == Head(q)
<1>1. q = <<a>> \o u /\ a \in S /\ u \in Seq(S)  BY Split
<1> HIDE DEF u, a
<1>2. /\ DOMAIN q = 1 .. Len(u) + 1 /\ DOMAIN u = 1 .. Len(u) /\ Len(u) \in Nat
      /\ q[1] = a /\ \A j \in DOMAIN u : q[j + 1] = u[j]
  BY <1>1, Consed
<1>3. 1 \in DOMAIN q /\ \A j \in DOMAIN u : j + 1 \in DOMAIN q /\ j + 1 # 1
  BY <1>2
<1>4. ASSUME NEW i \in DOMAIN u, NEW j \in DOMAIN u, u[i] = c, u[j] = c PROVE i = j
  <2>1. i + 1 = j + 1  BY <1>2, <1>3, <1>4 DEF AtMost
  <2> QED  BY <1>2, <2>1
<1>5. c = a => ~InList(u, c)  BY <1>2, <1>3 DEF AtMost, InList
<1>6. AtMost(u, c)  BY <1>4 DEF AtMost
<1> QED  BY <1>5, <1>6 DEF u, a

LEMMA EmptyInAt ==
    ASSUME NEW q, NEW c, NEW x, x # Emptied, AtMost(q, x)
    PROVE  AtMost(EmptyIn(q, c), x)
BY DEF EmptyIn, AtMost

(* The sweep keeps each cell once.                                         *)
LEMMA KeptAt ==
    ASSUME NEW S, NEW q \in Seq(S), NEW c, AtMost(q, c)
    PROVE  AtMost(Kept(q), c)
<1> DEFINE live == {i \in DOMAIN q : LiveCell(q[i])}
           n == Cardinality(live)
           at(i) == CHOOSE k \in live : Cardinality({j \in live : j < k}) = i - 1
<1>1. Len(q) \in Nat /\ DOMAIN q = 1 .. Len(q)  BY LenProperties
<1>2. live \in SUBSET (1 .. Len(q))  BY <1>1
<1>3. n \in Nat /\ IsFiniteSet(live)
  <2> HIDE DEF live
  <2>1. IsFiniteSet(1 .. Len(q))  BY <1>1, FS_Interval
  <2>2. IsFiniteSet(live)  BY <1>2, <2>1, FS_Subset
  <2> QED  BY <2>2, FS_CardinalityType
<1>4. Kept(q) = [i \in 1 .. n |-> q[at(i)]]  BY DEF Kept
<1>5. \A i \in 1 .. n : at(i) \in live /\ Cardinality({j \in live : j < at(i)}) = i - 1
  <2> HIDE DEF live
  <2>1. \A i \in 1 .. n : \E k \in live : Cardinality({j \in live : j < k}) = i - 1
    BY <1>1, <1>2, Nth
  <2> QED  BY <2>1
<1>6. \A k \in live : k \in DOMAIN q  OBVIOUS
<1> HIDE DEF at, n, live
<1>7. DOMAIN Kept(q) = 1 .. n /\ \A i \in 1 .. n : Kept(q)[i] = q[at(i)]  BY <1>4
<1>8. ASSUME NEW i \in 1 .. n, NEW j \in 1 .. n, q[at(i)] = c, q[at(j)] = c PROVE i = j
  <2>1. at(i) = at(j)  BY <1>5, <1>6, <1>8 DEF AtMost
  <2>2. i - 1 = j - 1  BY <1>5, <2>1
  <2> QED  BY <1>3, <2>2
<1> QED  BY <1>7, <1>8 DEF AtMost

-----------------------------------------------------------------------------
(* The places of a cell, in tables and stacks built from others            *)

LEMMA AbsentSole == ASSUME NEW w, NEW s, NEW c, Absent(w, s, c) PROVE Sole(w, s, c)
<1>1. \A p \in DOMAIN w : AtMost(w[p], c)  BY AbsentAt DEF Absent, Queued
<1> QED  BY <1>1 DEF Absent, Sole

(* The cell is in fewer places.                                            *)
LEMMA SoleLess ==
    ASSUME NEW w, NEW s, NEW c, NEW w1, NEW r, DOMAIN r = DOMAIN s,
           \A j \in DOMAIN s : /\ InList(r[j].todo, c) => InList(s[j].todo, c)
                               /\ r[j].who = c => s[j].who = c
                               /\ AtMost(s[j].todo, c) => AtMost(r[j].todo, c),
           \A p : Queued(w1, c, p) => Queued(w, c, p),
           \A p \in DOMAIN w1 : p \in DOMAIN w /\ AtMost(w[p], c) => AtMost(w1[p], c)
    PROVE  /\ Sole(w, s, c) => Sole(w1, r, c)
           /\ Absent(w, s, c) => Absent(w1, r, c)
<1>1. \A j \in DOMAIN s : Has(r[j], c) => Has(s[j], c)  BY DEF Has
<1>2. Absent(w, s, c) => Absent(w1, r, c)  BY <1>1 DEF Absent
<1>3. ASSUME Sole(w, s, c) PROVE Sole(w1, r, c)
  <2>1. ASSUME NEW p \in DOMAIN w1 PROVE AtMost(w1[p], c)
    <3>1. CASE Queued(w1, c, p)  BY <1>3, <3>1 DEF Sole, Queued
    <3>2. CASE ~Queued(w1, c, p)  BY <3>2, AbsentAt DEF Queued
    <3> QED  BY <3>1, <3>2
  <2>2. ASSUME NEW j \in DOMAIN r, Has(r[j], c)
        PROVE  /\ \A p : ~Queued(w1, c, p)
               /\ AtMost(r[j].todo, c) /\ ~(InList(r[j].todo, c) /\ r[j].who = c)
    BY <1>1, <1>3, <2>2 DEF Sole
  <2> QED  BY <1>1, <1>3, <2>1, <2>2 DEF Sole
<1> QED  BY <1>2, <1>3

(* The same calls.                                                         *)
LEMMA SoleTable ==
    ASSUME NEW w, NEW s, NEW c, NEW w1,
           \A p : Queued(w1, c, p) => Queued(w, c, p),
           \A p \in DOMAIN w1 : p \in DOMAIN w /\ AtMost(w[p], c) => AtMost(w1[p], c)
    PROVE  /\ Sole(w, s, c) => Sole(w1, s, c)
           /\ Absent(w, s, c) => Absent(w1, s, c)
BY SoleLess

(* A stack is its head and its tail.                                       *)
LEMMA ConsHas ==
    ASSUME NEW u \in Seq(Frames), NEW f \in Frames, NEW w, NEW c
    PROVE  LET s == <<f>> \o u
           IN  /\ Absent(w, s, c) <=> Absent(w, u, c) /\ ~Has(f, c)
               /\ Sole(w, s, c) <=> /\ Sole(w, u, c)
                                    /\ Has(f, c) => 
                                         /\ Absent(w, u, c)
                                         /\ AtMost(f.todo, c)
                                         /\ ~(InList(f.todo, c) /\ f.who = c)
<1> DEFINE s == <<f>> \o u
<1>1. /\ DOMAIN s = 1 .. Len(u) + 1 /\ DOMAIN u = 1 .. Len(u) /\ Len(u) \in Nat
      /\ s[1] = f /\ \A j \in DOMAIN u : s[j + 1] = u[j]
  BY Consed
<1> HIDE DEF s
<1>2. /\ 1 \in DOMAIN s /\ \A j \in DOMAIN u : j + 1 \in DOMAIN s /\ s[j + 1] = u[j] /\ j + 1 # 1
      /\ \A i \in DOMAIN s : i = 1 \/ (i - 1 \in DOMAIN u /\ s[i] = u[i - 1] /\ i = (i - 1) + 1)
      /\ \A i, j \in DOMAIN u : i + 1 = j + 1 => i = j
  <2>1. \A j \in DOMAIN u : j + 1 \in DOMAIN s /\ s[j + 1] = u[j] /\ j + 1 # 1  BY <1>1
  <2>2. ASSUME NEW i \in DOMAIN s, i # 1
        PROVE  i - 1 \in DOMAIN u /\ s[i] = u[i - 1] /\ i = (i - 1) + 1
    <3>1. i - 1 \in DOMAIN u /\ i = (i - 1) + 1  BY <1>1, <2>2
    <3> QED  BY <1>1, <3>1
  <2> QED  BY <1>1, <2>1, <2>2
<1>3. Absent(w, s, c) <=> Absent(w, u, c) /\ ~Has(f, c)
  BY <1>1, <1>2 DEF Absent
<1>4. ASSUME Sole(w, s, c)
      PROVE  /\ Sole(w, u, c)
             /\ Has(f, c) => /\ Absent(w, u, c) /\ AtMost(f.todo, c)
                             /\ ~(InList(f.todo, c) /\ f.who = c)
  <2>1. \A i, j \in DOMAIN u : Has(u[i], c) /\ Has(u[j], c) => i = j
    <3> SUFFICES ASSUME NEW i \in DOMAIN u, NEW j \in DOMAIN u, Has(u[i], c), Has(u[j], c)
                 PROVE  i = j
      OBVIOUS
    <3>1. i + 1 = j + 1  BY <1>2, <1>4 DEF Sole
    <3> QED  BY <1>2, <3>1
  <2>2. \A j \in DOMAIN u : Has(u[j], c) =>
         /\ \A p : ~Queued(w, c, p)
         /\ AtMost(u[j].todo, c) /\ ~(InList(u[j].todo, c) /\ u[j].who = c)
    <3> SUFFICES ASSUME NEW j \in DOMAIN u, Has(u[j], c)
                 PROVE  /\ \A p : ~Queued(w, c, p)
                        /\ AtMost(u[j].todo, c) /\ ~(InList(u[j].todo, c) /\ u[j].who = c)
      OBVIOUS
    <3>1. j + 1 \in DOMAIN s /\ s[j + 1] = u[j]  BY <1>2
    <3> QED  BY <1>4, <3>1 DEF Sole
  <2>3. Sole(w, u, c)  BY <1>4, <2>1, <2>2 DEF Sole
  <2>4. ASSUME Has(f, c) PROVE /\ Absent(w, u, c) /\ AtMost(f.todo, c)
                               /\ ~(InList(f.todo, c) /\ f.who = c)
    <3>1. /\ \A p : ~Queued(w, c, p)
          /\ AtMost(f.todo, c) /\ ~(InList(f.todo, c) /\ f.who = c)
      BY <1>1, <1>2, <1>4, <2>4 DEF Sole
    <3>2. ASSUME NEW j \in DOMAIN u, Has(u[j], c) PROVE FALSE
      <4>1. j + 1 \in DOMAIN s /\ s[j + 1] = u[j] /\ j + 1 # 1  BY <1>2
      <4> QED  BY <1>1, <1>2, <1>4, <2>4, <3>2, <4>1 DEF Sole
    <3> QED  BY <3>1, <3>2 DEF Absent
  <2> QED  BY <2>3, <2>4
<1>5. ASSUME Sole(w, u, c),
             Has(f, c) => /\ Absent(w, u, c) /\ AtMost(f.todo, c)
                          /\ ~(InList(f.todo, c) /\ f.who = c)
      PROVE  Sole(w, s, c)
  <2>1. ASSUME NEW i \in DOMAIN s, NEW j \in DOMAIN s, Has(s[i], c), Has(s[j], c) PROVE i = j
    <3>1. CASE i = 1 /\ j = 1  BY <3>1
    <3>2. CASE i = 1 /\ j # 1  BY <1>1, <1>2, <1>5, <2>1, <3>2 DEF Absent
    <3>3. CASE i # 1 /\ j = 1  BY <1>1, <1>2, <1>5, <2>1, <3>3 DEF Absent
    <3>4. CASE i # 1 /\ j # 1
      <4>1. i - 1 = j - 1  BY <1>2, <1>5, <2>1, <3>4 DEF Sole
      <4> QED  BY <1>2, <3>4, <4>1
    <3> QED  BY <3>1, <3>2, <3>3, <3>4
  <2>2. ASSUME NEW i \in DOMAIN s, Has(s[i], c)
        PROVE  /\ \A p : ~Queued(w, c, p)
               /\ AtMost(s[i].todo, c) /\ ~(InList(s[i].todo, c) /\ s[i].who = c)
    <3>1. CASE i = 1  BY <1>1, <1>5, <2>2, <3>1 DEF Absent
    <3>2. CASE i # 1
      <4>1. i - 1 \in DOMAIN u /\ s[i] = u[i - 1]  BY <1>2, <3>2
      <4> QED  BY <1>5, <2>2, <4>1 DEF Sole
    <3> QED  BY <3>1, <3>2
  <2> QED  BY <1>5, <2>1, <2>2 DEF Sole
<1> QED  BY <1>3, <1>4, <1>5 DEF s

(* Emptying a cell; then its owner is nowhere but in a call.               *)
LEMMA SoleEmpty ==
    ASSUME NEW w, NEW s \in Seq(Frames), NEW c \in Owners, NEW x
    PROVE  LET w1 == EmptyWaiting(w, x)
               r == EmptyStack(s, x)
           IN  /\ Sole(w, s, c) => Sole(w1, r, c)
               /\ Absent(w, s, c) => Absent(w1, r, c)
               /\ r \in Seq(Frames) /\ \A h : Runs(r, h) => Runs(s, h)
               /\ c = x /\ ~Runs(s, c) => Absent(w1, r, c)
               /\ \A p : Queued(w1, Emptied, p) => Queued(w, Emptied, p) \/ Queued(w, x, p)
<1> DEFINE w1 == EmptyWaiting(w, x)
           r  == EmptyStack(s, x)
<1>1. c # Emptied  BY CellOwner
<1>2. DOMAIN w1 = DOMAIN w /\ \A p \in DOMAIN w : w1[p] = EmptyIn(w[p], x)
  BY DEF EmptyWaiting
<1>3. \A j \in DOMAIN s : s[j] \in Frames  BY ElementOfSeq, LenProperties
<1>4. DOMAIN r = DOMAIN s
      /\ \A j \in DOMAIN s : r[j].who = s[j].who /\ r[j].todo = EmptyIn(s[j].todo, x)
  BY <1>3 DEF EmptyStack, Frames
<1>5. r \in Seq(Frames) /\ \A h : Runs(r, h) => Runs(s, h)
  <2>1. Calling(r, s)  BY EmptyOk
  <2> QED  BY <2>1, CallingOk DEF Calling, Runs
<1> HIDE DEF w1, r
<1>6. \A p : Queued(w1, c, p) <=> Queued(w, c, p) /\ c # x
  BY <1>1, <1>2, EmptyInIn DEF Queued
<1>7. \A j \in DOMAIN s : InList(r[j].todo, c) <=> InList(s[j].todo, c) /\ c # x
  BY <1>1, <1>4, EmptyInIn
<1>8. (Sole(w, s, c) => Sole(w1, r, c)) /\ (Absent(w, s, c) => Absent(w1, r, c))
  <2>1. \A j \in DOMAIN s : /\ InList(r[j].todo, c) => InList(s[j].todo, c)
                            /\ r[j].who = c => s[j].who = c
                            /\ AtMost(s[j].todo, c) => AtMost(r[j].todo, c)
    BY <1>1, <1>4, <1>7, EmptyInAt
  <2>2. \A p \in DOMAIN w1 : p \in DOMAIN w /\ AtMost(w[p], c) => AtMost(w1[p], c)
    BY <1>1, <1>2, EmptyInAt
  <2>3. \A p : Queued(w1, c, p) => Queued(w, c, p)  BY <1>6
  <2> QED  BY <1>4, <2>1, <2>2, <2>3, SoleLess
<1>9. c = x /\ ~Runs(s, c) => Absent(w1, r, c)
  BY <1>4, <1>6, <1>7 DEF Absent, Has, Runs, Called
<1>10. \A p : Queued(w1, Emptied, p) => Queued(w, Emptied, p) \/ Queued(w, x, p)
  BY <1>2 DEF Queued, InList, EmptyIn
<1> QED  BY <1>5, <1>8, <1>9, <1>10 DEF w1, r

(* Registering a cell: another one, or one that was nowhere, in one slot.  *)
LEMMA SoleRegister ==
    ASSUME NEW w, Table(w, Entries), NEW s, NEW c \in Owners, NEW x \in Owners, NEW S
    PROVE  LET w1 == Register(w, x, S)
           IN  /\ c # x => /\ Sole(w, s, c) => Sole(w1, s, c)
                           /\ Absent(w, s, c) => Absent(w1, s, c)
               /\ c = x /\ Absent(w, s, c) /\ (\A p, q \in S : p = q) => Sole(w1, s, c)
               /\ \A p : Queued(w1, Emptied, p) => Queued(w, Emptied, p)
<1> DEFINE w1 == Register(w, x, S)
<1>1. DOMAIN w1 = DOMAIN w \cup S /\ \A p \in DOMAIN w1 :
        w1[p] = IF p \notin S THEN w[p]
                ELSE IF p \in DOMAIN w THEN Append(w[p], x) ELSE <<x>>
  BY DEF Register
<1> HIDE DEF w1
<1>2. x # Emptied /\ x \in Entries  BY CellOwner DEF Entries
<1>3. \A p \in DOMAIN w : w[p] \in Seq(Entries)  BY DEF Table
<1>4. ASSUME NEW y, NEW p PROVE Queued(w1, y, p) <=> Queued(w, y, p) \/ (y = x /\ p \in S)
  <2>1. CASE p \notin S  BY <1>1, <2>1 DEF Queued
  <2>2. CASE p \in S /\ p \in DOMAIN w  BY <1>1, <1>2, <1>3, <2>2, AppendIn DEF Queued
  <2>3. CASE p \in S /\ p \notin DOMAIN w  BY <1>1, <2>3, OneIn DEF Queued
  <2> QED  BY <2>1, <2>2, <2>3
<1>5. ASSUME c # x
      PROVE  (Sole(w, s, c) => Sole(w1, s, c)) /\ (Absent(w, s, c) => Absent(w1, s, c))
  <2>1. Absent(w, s, c) => Absent(w1, s, c)  BY <1>4, <1>5 DEF Absent
  <2>2. ASSUME Sole(w, s, c), NEW p \in DOMAIN w1 PROVE AtMost(w1[p], c)
    <3>1. CASE p \notin S  BY <1>1, <2>2, <3>1 DEF Sole
    <3>2. CASE p \in S /\ p \in DOMAIN w
      <4>1. AtMost(w[p], c)  BY <2>2, <3>2 DEF Sole
      <4>2. AtMost(Append(w[p], x), c)  BY <1>2, <1>3, <1>5, <3>2, <4>1, AppendAt
      <4> QED  BY <1>1, <3>2, <4>2
    <3>3. CASE p \in S /\ p \notin DOMAIN w  BY <1>1, <3>3, OneAt
    <3> QED  BY <3>1, <3>2, <3>3
  <2>3. Sole(w, s, c) => Sole(w1, s, c)  BY <1>4, <1>5, <2>2 DEF Sole
  <2> QED  BY <2>1, <2>3
<1>6. ASSUME c = x, Absent(w, s, c), \A p, q \in S : p = q
      PROVE  Sole(w1, s, c)
  <2>1. \A p : Queued(w1, c, p) => p \in S  BY <1>4, <1>6 DEF Absent
  <2>2. ASSUME NEW p \in DOMAIN w1 PROVE AtMost(w1[p], c)
    <3>1. CASE p \notin S  BY <1>1, <1>6, <3>1, AbsentAt DEF Absent, Queued
    <3>2. CASE p \in S /\ p \in DOMAIN w
      <4>1. ~InList(w[p], c)  BY <1>6, <3>2 DEF Absent, Queued
      <4>2. AtMost(w[p], c)  BY <4>1, AbsentAt
      <4>3. AtMost(Append(w[p], x), c)  BY <1>2, <1>3, <1>6, <3>2, <4>1, <4>2, AppendAt
      <4> QED  BY <1>1, <3>2, <4>3
    <3>3. CASE p \in S /\ p \notin DOMAIN w  BY <1>1, <3>3, OneAt
    <3> QED  BY <3>1, <3>2, <3>3
  <2> QED  BY <1>6, <2>1, <2>2 DEF Sole, Absent
<1>7. \A p : Queued(w1, Emptied, p) => Queued(w, Emptied, p)  BY <1>2, <1>4
<1> QED  BY <1>5, <1>6, <1>7 DEF w1

(* The sweep.                                                              *)
LEMMA SoleCollected ==
    ASSUME NEW w, Table(w, Entries), NEW s, NEW c, NEW r
    PROVE  LET w1 == Collected(w, r)
           IN  /\ Sole(w, s, c) => Sole(w1, s, c)
               /\ Absent(w, s, c) => Absent(w1, s, c)
               /\ \A p : ~Queued(w1, Emptied, p)
<1> DEFINE kept == [p \in DOMAIN w |-> Kept(w[p])]
           gone == {p \in DOMAIN w : kept[p] = <<>>}
           w1   == Collected(w, r)
<1>1. w1 = IF Processing(r) THEN kept ELSE Without(kept, gone)  BY DEF Collected
<1>2. DOMAIN kept = DOMAIN w /\ \A p \in DOMAIN w : kept[p] = Kept(w[p])  OBVIOUS
<1> HIDE DEF kept, gone, w1
<1>3. DOMAIN w1 \subseteq DOMAIN w /\ \A p \in DOMAIN w1 : w1[p] = Kept(w[p])
  BY <1>1, <1>2 DEF Without
<1>4. \A p \in DOMAIN w : w[p] \in Seq(Entries)  BY DEF Table
<1>5. \A x : \A p \in DOMAIN w1 : InList(w1[p], x) => InList(w[p], x) /\ LiveCell(x)
  BY <1>3, <1>4, KeptIn
<1>6. \A p : Queued(w1, c, p) => Queued(w, c, p)  BY <1>3, <1>5 DEF Queued
<1>7. \A p \in DOMAIN w1 : p \in DOMAIN w /\ AtMost(w[p], c) => AtMost(w1[p], c)
  BY <1>3, <1>4, KeptAt
<1>8. \A p : ~Queued(w1, Emptied, p)  BY <1>5 DEF Queued, LiveCell
<1> QED  BY <1>6, <1>7, <1>8, SoleTable DEF w1

(* Putting back another cell, or one that was nowhere.                     *)
LEMMA SoleReattach ==
    ASSUME NEW w, Table(w, Entries), NEW s \in Seq(Frames), s # <<>>, NEW c,
           NEW x \in Entries, Reattach(x, w, s)
    PROVE  /\ c # x => /\ Sole(w, s, c) => Sole(waiting', stack', c)
                       /\ Absent(w, s, c) => Absent(waiting', stack', c)
           /\ c = x /\ Absent(w, s, c) => Sole(waiting', stack', c)
           /\ \A p : Queued(waiting', c, p) => Queued(w, c, p) \/ c = x
           /\ \A h : Runs(stack', h) => Runs(s, h)
<1> DEFINE f == Head(s)
           p == SlotOf(f)
           g == [f EXCEPT !.full = TRUE]
           u == Tail(s)
<1>1. f \in Frames /\ u \in Seq(Frames) /\ s = <<f>> \o u  BY TopOk
<1>2. \A h : Runs(stack', h) => Runs(s, h)
  BY ReattachOk, CallingOk DEF Runs
<1>3. CASE f.att = "queue"
  <2>1. waiting' = [w EXCEPT ![p] = Append(w[p], x)] /\ stack' = s
    BY <1>3 DEF Reattach, SlotOf
  <2> HIDE DEF p
  <2>2. \A p1 \in DOMAIN w : w[p1] \in Seq(Entries)  BY DEF Table
  <2>3. DOMAIN waiting' = DOMAIN w /\ \A p1 \in DOMAIN w :
          waiting'[p1] = IF p1 = p THEN Append(w[p1], x) ELSE w[p1]
    BY <2>1
  <2>4. \A p1 \in DOMAIN w : \A y : InList(Append(w[p1], x), y) <=> InList(w[p1], y) \/ y = x
    BY <2>2, AppendIn
  <2>5. \A p1 : Queued(waiting', c, p1) => Queued(w, c, p1) \/ (c = x /\ p1 = p)
    BY <2>3, <2>4 DEF Queued
  <2>6. ASSUME c # x
        PROVE  /\ Sole(w, s, c) => Sole(waiting', s, c)
               /\ Absent(w, s, c) => Absent(waiting', s, c)
    <3>1. ASSUME NEW p1 \in DOMAIN w, AtMost(w[p1], c) PROVE AtMost(waiting'[p1], c)
      <4>1. AtMost(Append(w[p1], x), c)  BY <2>2, <2>6, <3>1, AppendAt
      <4> QED  BY <2>3, <3>1, <4>1
    <3> QED  BY <2>3, <2>5, <2>6, <3>1, SoleTable
  <2>7. ASSUME c = x, Absent(w, s, c) PROVE Sole(waiting', s, c)
    <3>1. ASSUME NEW p1 \in DOMAIN w PROVE AtMost(waiting'[p1], c)
      <4>1. ~InList(w[p1], c)  BY <2>7, <3>1 DEF Absent, Queued
      <4>2. AtMost(w[p1], c)  BY <4>1, AbsentAt
      <4>3. AtMost(Append(w[p1], x), c)  BY <2>2, <2>7, <3>1, <4>1, <4>2, AppendAt
      <4> QED  BY <2>3, <4>2, <4>3
    <3>2. \A p1 : Queued(waiting', c, p1) => p1 = p  BY <2>5, <2>7 DEF Absent
    <3> QED  BY <2>3, <2>7, <3>1, <3>2 DEF Sole, Absent
  <2> QED  BY <1>2, <2>1, <2>5, <2>6, <2>7
<1>4. CASE f.att # "queue"
  <2>1. waiting' = w /\ stack' = <<g>> \o u  BY <1>4 DEF Reattach
  <2>2. g \in Frames /\ g.todo = f.todo /\ g.who = f.who
    BY <1>1 DEF Frames
  <2> HIDE DEF f, u, g, p
  <2>3. /\ Sole(w, s, c) => Sole(waiting', stack', c)
        /\ Absent(w, s, c) => Absent(waiting', stack', c)
    BY <1>1, <2>1, <2>2, ConsHas DEF Has
  <2>4. Absent(w, s, c) => Sole(waiting', stack', c)  BY <2>3, AbsentSole
  <2> QED  BY <1>2, <2>1, <2>3, <2>4
<1> QED  BY <1>3, <1>4

(* Taking the next cell: then its owner is nowhere, unless it is called.   *)
LEMMA SoleTaken ==
    ASSUME stack \in Seq(Frames), NEW x, NextCell(x), NEW w, NEW c
    PROVE  LET r == <<[Head(Taken) EXCEPT !.who = x]>> \o Tail(Taken)
           IN  /\ Sole(w, stack, c) => Sole(w, Taken, c)
               /\ Absent(w, stack, c) => Absent(w, Taken, c) /\ c # x
               /\ c = x /\ Sole(w, stack, c) => Absent(w, Taken, c)
               /\ \A h : Runs(Taken, h) => Runs(stack, h)
               /\ x \in Hooks => /\ Sole(w, stack, c) => Sole(w, r, c)
                                 /\ Absent(w, stack, c) => Absent(w, r, c)
                                 /\ \A h : Runs(r, h) => Runs(stack, h) \/ h = x
<1> DEFINE f == Head(stack)
           u == Tail(stack)
           g == [f EXCEPT !.todo = Tail(f.todo)]
           k == [g EXCEPT !.who = x]
<1>1. stack # <<>> /\ f.todo # <<>> /\ Head(f.todo) = x /\ f.who = None
  BY DEF NextCell, Parsing
<1>2. f \in Frames /\ u \in Seq(Frames) /\ stack = <<f>> \o u  BY <1>1, TopOk
<1>3. f.todo \in Seq(Entries)  BY <1>2 DEF Frames
<1>4. Tail(f.todo) \in Seq(Entries) /\ \A y : InList(f.todo, y) <=> y = x \/ InList(Tail(f.todo), y)
  BY <1>1, <1>3, TailIn
<1>5. AtMost(f.todo, c) => AtMost(Tail(f.todo), c) /\ (c = x => ~InList(Tail(f.todo), c))
  BY <1>1, <1>3, TailAt
<1>6. g \in Frames /\ g.who = None /\ g.todo = Tail(f.todo)
  BY <1>1, <1>2, <1>4 DEF Frames
<1>7. Taken = <<g>> \o u  BY DEF Taken
<1> HIDE DEF f, u
<1>8. k.who = x /\ k.todo = Tail(f.todo) /\ (x \in Hooks => k \in Frames)
  <2> HIDE DEF g
  <2>1. g.todo = Tail(f.todo) /\ g \in Frames  BY <1>6
  <2> QED  BY <2>1, Names DEF Frames
<1> HIDE DEF g, k
<1>9. Head(Taken) = g /\ Tail(Taken) = u  BY <1>2, <1>6, <1>7, Consed
<1>10. /\ Absent(w, stack, c) <=> Absent(w, u, c) /\ ~Has(f, c)
       /\ Sole(w, stack, c) <=> /\ Sole(w, u, c)
                                /\ Has(f, c) => /\ Absent(w, u, c) /\ AtMost(f.todo, c)
                                                /\ ~(InList(f.todo, c) /\ f.who = c)
  BY <1>2, ConsHas
<1>11. /\ Absent(w, Taken, c) <=> Absent(w, u, c) /\ ~Has(g, c)
       /\ Sole(w, Taken, c) <=> /\ Sole(w, u, c)
                                /\ Has(g, c) => /\ Absent(w, u, c) /\ AtMost(g.todo, c)
                                                /\ ~(InList(g.todo, c) /\ g.who = c)
  BY <1>2, <1>6, <1>7, ConsHas
<1>12. /\ Sole(w, stack, c) => Sole(w, Taken, c)
       /\ Absent(w, stack, c) => Absent(w, Taken, c) /\ c # x
       /\ c = x /\ Sole(w, stack, c) => Absent(w, Taken, c)
  BY <1>1, <1>4, <1>5, <1>6, <1>10, <1>11 DEF Has
<1>13. \A h : Runs(Taken, h) => Runs(stack, h)  BY TakenOk DEF Runs
<1>14. ASSUME x \in Hooks
       PROVE  LET r == <<k>> \o u
              IN  /\ Sole(w, stack, c) => Sole(w, r, c)
                  /\ Absent(w, stack, c) => Absent(w, r, c)
                  /\ \A h : Runs(r, h) => Runs(stack, h) \/ h = x
  <2> DEFINE r == <<k>> \o u
  <2>1. k \in Frames /\ x # None  BY <1>8, <1>14, Names
  <2>2. /\ Absent(w, r, c) <=> Absent(w, u, c) /\ ~Has(k, c)
        /\ Sole(w, r, c) <=> /\ Sole(w, u, c)
                             /\ Has(k, c) => /\ Absent(w, u, c) /\ AtMost(k.todo, c)
                                             /\ ~(InList(k.todo, c) /\ k.who = c)
    BY <1>2, <2>1, ConsHas
  <2>3. OnTop(r, k, u) /\ OnTop(stack, f, u)  BY <1>2, <2>1, OnTopOk
  <2> HIDE DEF r
  <2>4. /\ Sole(w, stack, c) => Sole(w, r, c)
        /\ Absent(w, stack, c) => Absent(w, r, c)
    BY <1>1, <1>4, <1>5, <1>8, <1>10, <2>1, <2>2 DEF Has
  <2>5. \A h : Runs(r, h) => Runs(stack, h) \/ h = x  BY <1>8, <2>3 DEF OnTop, Runs
  <2> QED  BY <2>4, <2>5 DEF r
<1>15. [Head(Taken) EXCEPT !.who = x] = k  BY <1>9 DEF k
<1> QED  BY <1>9, <1>12, <1>13, <1>14, <1>15

(* A call that starts to parse a queue takes the cells of the queue.       *)
LEMMA SoleCall ==
    ASSUME NEW w, NEW s \in Seq(Frames), NEW c, c # None, NEW f \in Frames, f.who = None,
           SlotOf(f) \in DOMAIN w, f.todo = w[SlotOf(f)]
    PROVE  LET p  == SlotOf(f)
               r  == <<f>> \o Displace(s, p, w[p])
               w1 == [w EXCEPT ![p] = <<>>]
           IN  /\ Sole(w, s, c) => Sole(w1, r, c)
               /\ Absent(w, s, c) => Absent(w1, r, c)
<1> DEFINE p  == SlotOf(f)
           d  == Displace(s, p, w[p])
           w1 == [w EXCEPT ![p] = <<>>]
           b  == w[p] # <<>>
<1>1. \A j \in DOMAIN s : s[j] \in Frames  BY ElementOfSeq, LenProperties
<1>2. Calling(d, s)  BY DisplaceOk
<1>3. \A j \in DOMAIN s : d[j].who = s[j].who /\ d[j].todo = s[j].todo
  <2>1. \A j \in DOMAIN s : d[j] = IF <<s[j].em, s[j].key>> = p /\ s[j].att = "queue"
                                   THEN [s[j] EXCEPT !.att = "row", !.full = b] ELSE s[j]
    BY DEF Displace
  <2> HIDE DEF d, b, p
  <2> QED  BY <1>1, <2>1 DEF Frames
<1>4. \A x, p1 : Queued(w1, x, p1) <=> Queued(w, x, p1) /\ p1 # p  BY NilIn DEF Queued
<1>5. \A p1 \in DOMAIN w1 : p1 \in DOMAIN w /\ AtMost(w[p1], c) => AtMost(w1[p1], c)
  BY NilAt
<1>6. f.todo = w[p] /\ p \in DOMAIN w  OBVIOUS
<1> HIDE DEF d, w1, p
<1>7. d \in Seq(Frames) /\ DOMAIN d = DOMAIN s  BY <1>2 DEF Calling
<1>8. /\ Absent(w1, <<f>> \o d, c) <=> Absent(w1, d, c) /\ ~Has(f, c)
      /\ Sole(w1, <<f>> \o d, c) <=> /\ Sole(w1, d, c)
                                     /\ Has(f, c) => /\ Absent(w1, d, c) /\ AtMost(f.todo, c)
                                                     /\ ~(InList(f.todo, c) /\ f.who = c)
  BY <1>7, ConsHas
<1>9. (Sole(w, s, c) => Sole(w1, d, c)) /\ (Absent(w, s, c) => Absent(w1, d, c))
  <2>1. \A p1 : Queued(w1, c, p1) => Queued(w, c, p1)  BY <1>4
  <2> QED  BY <1>3, <1>5, <1>7, <2>1, SoleLess
<1>10. Has(f, c) <=> Queued(w, c, p)  BY <1>6 DEF Has, Queued
<1>11. ASSUME Sole(w, s, c), Has(f, c)
       PROVE  Absent(w1, d, c) /\ AtMost(f.todo, c) /\ ~(InList(f.todo, c) /\ f.who = c)
  <2>1. \A p1 : ~Queued(w1, c, p1)  BY <1>4, <1>10, <1>11 DEF Sole
  <2>2. \A j \in DOMAIN s : ~Has(s[j], c)  BY <1>10, <1>11 DEF Sole
  <2>3. \A j \in DOMAIN d : ~Has(d[j], c)  BY <1>3, <1>7, <2>2 DEF Has
  <2>4. AtMost(f.todo, c)  BY <1>6, <1>11 DEF Sole
  <2> QED  BY <2>1, <2>3, <2>4 DEF Absent
<1>12. Absent(w, s, c) => ~Has(f, c)  BY <1>10 DEF Absent
<1> QED  BY <1>4, <1>8, <1>9, <1>11, <1>12 DEF d, w1, p

\* A step from the table w and the calls s moves the cells, and makes none.
Moved(w, s) == /\ \A c \in Owners : /\ Sole(w, s, c) => Sole(waiting', stack', c)
                                    /\ Absent(w, s, c) => Absent(waiting', stack', c)
               /\ \A h \in Hooks : Runs(stack', h) => Runs(s, h)
               /\ \A p : Queued(waiting', Emptied, p) => Queued(w, Emptied, p)

LEMMA CallMoved ==
    ASSUME NEW w, NEW s \in Seq(Frames), NEW f \in Frames, f.who = None,
           NEW p, p = SlotOf(f), p \in DOMAIN w, f.todo = w[p],
           waiting' = [w EXCEPT ![p] = <<>>], stack' = <<f>> \o Displace(s, p, w[p])
    PROVE  Moved(w, s)
<1> DEFINE d == Displace(s, p, w[p])
<1>1. Calling(d, s)  BY DisplaceOk
<1>2. \A x, p1 : Queued(waiting', x, p1) => Queued(w, x, p1)  BY NilIn DEF Queued
<1>3. ASSUME NEW c \in Owners
      PROVE  /\ Sole(w, s, c) => Sole(waiting', stack', c)
             /\ Absent(w, s, c) => Absent(waiting', stack', c)
  BY CellOwner, SoleCall
<1>4. stack' = <<f>> \o d  OBVIOUS
<1> HIDE DEF d
<1>5. \A h \in Hooks : Runs(stack', h) => Runs(s, h)
  <2>1. d \in Seq(Frames)  BY <1>1 DEF Calling
  <2>2. OnTop(stack', f, d)  BY <1>4, <2>1, OnTopOk
  <2>3. \A h : Runs(d, h) => Runs(s, h)  BY <1>1, CallingOk DEF Runs
  <2> QED  BY <2>2, <2>3, Names DEF OnTop, Runs
<1> QED  BY <1>2, <1>3, <1>5 DEF Moved

(* Entering signal().                                                      *)
LEMMA EmitMoved ==
    ASSUME NEW em \in Emitters, NEW ev \in Keys, NEW slain \in BOOLEAN,
           NEW w, Table(w, Entries), NEW s \in Seq(Frames), Emit(em, ev, slain, w, s)
    PROVE  Moved(w, s)
<1> DEFINE queues == {k \in {Star, ev} : <<em, k>> \in DOMAIN w}
           key == IF Star \in queues THEN Star ELSE ev
           p == <<em, key>>
           f == NewFrame(em, ev, slain, key, w[p], "queue", None)
<1>1. CASE queues = {}
  <2>1. waiting' = w /\ stack' = s  BY <1>1 DEF Emit
  <2> QED  BY <2>1 DEF Moved
<1>2. CASE queues # {}
  <2>1. p \in DOMAIN w /\ key \in Keys
    BY <1>2 DEF Keys, Star
  <2>2. w[p] \in Seq(Entries)  BY <2>1 DEF Table
  <2>3. /\ waiting' = [w EXCEPT ![p] = <<>>]
        /\ stack' = <<f>> \o Displace(s, p, w[p])
    BY <1>2 DEF Emit
  <2>4. Entries \in SUBSET Entries /\ "queue" \in {"queue", "row", "none"}
        /\ None \in Owners \cup {None} /\ key \in Keys \cup {"resume"}
    BY <2>1
  <2>5. f \in Frames
    <3> HIDE DEF key, f
    <3>1. LET g == NewFrame(em, ev, slain, key, w[p], "queue", None)
          IN  g \in Frames /\ g.todo \in Seq(Entries)
      BY <2>2, <2>4, NewFrameType
    <3> QED  BY <3>1 DEF f
  <2>6. f.who = None /\ SlotOf(f) = p /\ f.todo = w[p]
    BY DEF NewFrame, SlotOf
  <2> HIDE DEF f, p, key, queues
  <2>7. f.todo = w[SlotOf(f)] /\ SlotOf(f) \in DOMAIN w  BY <2>1, <2>6
  <2> QED  BY <2>1, <2>3, <2>5, <2>6, CallMoved
<1> QED  BY <1>1, <1>2

(* The end of a queue.                                                     *)
LEMMA EndQueueMoved == ASSUME Sound, EndQueue PROVE Moved(waiting, stack)
<1> DEFINE f == Head(stack)
           u == Tail(stack)
<1>1. Table(waiting, Entries) /\ stack \in Seq(Frames)  BY SoundTypes
<1>2. stack # <<>> /\ f.who = None /\ f.todo = <<>>  BY <1>1, EndQueueIs
<1>3. PICK w, v : Ended(w, v)  BY <1>1, EndQueueIs
<1>4. f \in Frames /\ u \in Seq(Frames) /\ stack = <<f>> \o u /\ OnTop(stack, f, u)
  BY <1>1, <1>2, TopOk
<1>5. /\ DOMAIN w \subseteq DOMAIN waiting /\ \A p \in DOMAIN w : w[p] = waiting[p]
      /\ Calling(v, u) /\ \A j \in DOMAIN u : v[j].todo = u[j].todo
  BY <1>3 DEF Ended
<1> HIDE DEF f, u
<1>6. v \in Seq(Frames) /\ DOMAIN v = DOMAIN u /\ \A j \in DOMAIN u : v[j].who = u[j].who
  BY <1>5 DEF Calling
<1>7. \A h : Runs(v, h) => Runs(stack, h)  BY <1>4, <1>5, CallingOk DEF OnTop, Runs
<1>8. \A x, p : Queued(w, x, p) => Queued(waiting, x, p)  BY <1>5 DEF Queued
<1>9. ASSUME NEW c
      PROVE  (Sole(waiting, stack, c) => Sole(w, v, c)) /\ (Absent(waiting, stack, c) => Absent(w, v, c))
  <2>1. (Sole(waiting, u, c) => Sole(w, v, c)) /\ (Absent(waiting, u, c) => Absent(w, v, c))
    BY <1>5, <1>6, <1>8, SoleLess
  <2>2. /\ Sole(waiting, stack, c) => Sole(waiting, u, c)
        /\ Absent(waiting, stack, c) => Absent(waiting, u, c)
    BY <1>4, ConsHas
  <2> QED  BY <2>1, <2>2
<1>10. Moved(w, v)
  <2>1. CASE waiting' = w /\ stack' = v
    <3>1. \A c \in Owners : /\ Sole(w, v, c) => Sole(waiting', stack', c)
                            /\ Absent(w, v, c) => Absent(waiting', stack', c)
      BY <2>1
    <3> QED  BY <2>1, <3>1 DEF Moved
  <2>2. ASSUME NEW next \in Frames, next.who = None,
               SlotOf(next) \in DOMAIN w, next.todo = w[SlotOf(next)],
               waiting' = [w EXCEPT ![SlotOf(next)] = <<>>],
               stack' = <<next>> \o Displace(v, SlotOf(next), w[SlotOf(next)])
        PROVE  Moved(w, v)
    BY <1>6, <2>2, CallMoved
  <2>3. \/ waiting' = w /\ stack' = v
        \/ \E next \in Frames :
             /\ next.who = None /\ SlotOf(next) \in DOMAIN w /\ next.todo = w[SlotOf(next)]
             /\ waiting' = [w EXCEPT ![SlotOf(next)] = <<>>]
             /\ stack' = <<next>> \o Displace(v, SlotOf(next), w[SlotOf(next)])
    BY <1>3 DEF Ended
  <2> QED  BY <2>1, <2>2, <2>3
<1> QED  BY <1>7, <1>8, <1>9, <1>10 DEF Moved

\* The step moves the cell c: it is in no more places than it was.
Tracked(c) ==
    /\ Sole(waiting, stack, c) => Sole(waiting', stack', c)
    /\ Absent(waiting, stack, c) => Absent(waiting', stack', c)

(* A step that empties the cells in D and registers those in N.            *)
LEMMA CountedNew ==
    ASSUME Sound, Counted, NEW D \in SUBSET Owners, NEW N \in SUBSET Hooks,
           timers' \subseteq timers, multi' = multi \ D, cleanup => cleanup',
           \A h \in Hooks \ N : hook'[h] = IF h \in D THEN "emptied" ELSE hook[h],
           \A h \in N : /\ hook[h] = "free" /\ hook'[h] \notin {"free", "emptied"}
                        /\ Sole(waiting', stack', h),
           \A c \in Owners \ N : Tracked(c),
           \A t \in D : t \in Tasks => Sole(waiting', stack', t),
           \/ cleanup'
           \/ /\ \A p : Queued(waiting', Emptied, p) => Queued(waiting, Emptied, p)
              /\ \A h \in Hooks : Runs(stack', h) =>
                    h \notin D /\ (Runs(stack, h) \/ (h \notin multi /\ hook'[h] # "emptied"))
    PROVE  Counted'
<1>1. timers' = {}  BY DEF Counted
<1>2. \A c : c \in Alive' <=> c \in Entries /\ ~(c \in Hooks /\ hook'[c] = "emptied")
  BY DEF Alive, Zombies
<1>3. ASSUME NEW c \in Owners, c \notin multi', c \in Alive' PROVE Sole(waiting', stack', c)
  <2>1. CASE c \in D
    <3>1. c \in Tasks \/ c \in N  BY <1>2, <1>3, <2>1 DEF Owners
    <3> QED  BY <2>1, <3>1
  <2>2. CASE c \notin D /\ c \notin N
    <3>1. c \notin multi  BY <1>3, <2>2
    <3>2. c \in Alive  BY <1>2, <1>3, <2>2 DEF Alive, Zombies
    <3> QED  BY <2>2, <3>1, <3>2 DEF Counted, Tracked
  <2> QED  BY <2>1, <2>2
<1>4. ASSUME NEW h \in Hooks, hook'[h] = "free"
      PROVE  Absent(waiting', stack', h) /\ h \notin multi'
  <2>1. hook[h] = "free" /\ h \notin N  BY <1>4
  <2>2. h \in Owners  BY Names
  <2> QED  BY <2>1, <2>2 DEF Counted, Tracked
<1>5. Noticed(stack', hook', multi', cleanup')  BY DEF Noticed, Counted
<1>6. Remembered(waiting', cleanup')  BY DEF Remembered, Counted
<1> QED  BY <1>1, <1>3, <1>4, <1>5, <1>6 DEF Counted

LEMMA CountedStep ==
    ASSUME Sound, Counted, NEW D \in SUBSET Owners,
           timers' \subseteq timers, multi' = multi \ D, cleanup => cleanup',
           hook' = [h \in Hooks |-> IF h \in D THEN "emptied" ELSE hook[h]],
           \A c \in Owners : Tracked(c),
           \A t \in D : t \in Tasks => Sole(waiting', stack', t),
           \/ cleanup'
           \/ /\ \A p : Queued(waiting', Emptied, p) => Queued(waiting, Emptied, p)
              /\ \A h \in Hooks : Runs(stack', h) =>
                    h \notin D /\ (Runs(stack, h) \/ (h \notin multi /\ hook[h] # "emptied"))
    PROVE  Counted'
<1>1. \A h \in Hooks : hook'[h] = IF h \in D THEN "emptied" ELSE hook[h]  OBVIOUS
<1>2. {} \in SUBSET Hooks /\ Hooks \ {} = Hooks /\ Owners \ {} = Owners
      /\ \A h \in {} : FALSE
  OBVIOUS
<1>3. \/ cleanup'
      \/ /\ \A p : Queued(waiting', Emptied, p) => Queued(waiting, Emptied, p)
         /\ \A h \in Hooks : Runs(stack', h) =>
               h \notin D /\ (Runs(stack, h) \/ (h \notin multi /\ hook'[h] # "emptied"))
  BY <1>1
<1> QED  BY <1>1, <1>2, <1>3, CountedNew

(* Nothing is emptied.                                                     *)
LEMMA KeepCounted ==
    ASSUME Sound, Counted, timers' = timers, multi' = multi, hook' = hook, cleanup' = cleanup,
           \A c \in Owners : Tracked(c),
           cleanup \/ \A p : Queued(waiting', Emptied, p) => Queued(waiting, Emptied, p),
           \A h \in Hooks : Runs(stack', h) => Runs(stack, h)
    PROVE  Counted'
<1>1. hook \in [Hooks -> HookKinds]  BY SoundTypes
<1>2. hook' = [h \in Hooks |-> IF h \in {} THEN "emptied" ELSE hook[h]]  BY <1>1
<1>3. \/ cleanup'
      \/ /\ \A p : Queued(waiting', Emptied, p) => Queued(waiting, Emptied, p)
         /\ \A h \in Hooks : Runs(stack', h) =>
                 h \notin {} /\ (Runs(stack, h) \/ (h \notin multi /\ hook[h] # "emptied"))
  OBVIOUS
<1>4. {} \in SUBSET Owners /\ multi' = multi \ {} /\ timers' \subseteq timers  OBVIOUS
<1>5. \A t \in {} : t \in Tasks => Sole(waiting', stack', t)  OBVIOUS
<1> QED  BY <1>2, <1>3, <1>4, <1>5, CountedStep

LEMMA MovedCounted ==
    ASSUME Sound, Counted, Moved(waiting, stack),
           timers' = timers, multi' = multi, hook' = hook, cleanup' = cleanup
    PROVE  Counted'
<1>1. \A c \in Owners : Tracked(c)  BY DEF Tracked, Moved
<1>2. /\ \A p : Queued(waiting', Emptied, p) => Queued(waiting, Emptied, p)
      /\ \A h \in Hooks : Runs(stack', h) => Runs(stack, h)
  BY DEF Moved
<1> QED  BY <1>1, <1>2, KeepCounted

LEMMA QuietCounted ==
    ASSUME Sound, Counted, waiting' = waiting, stack' = stack,
           timers' = timers, multi' = multi, hook' = hook, cleanup' = cleanup
    PROVE  Counted'
<1>1. Moved(waiting, stack)  BY DEF Moved
<1> QED  BY <1>1, MovedCounted

LEMMA EmitCounted ==
    ASSUME Sound, Counted, NEW em \in Emitters, NEW ev \in Keys, NEW slain \in BOOLEAN,
           Emit(em, ev, slain, waiting, stack),
           timers' = timers, multi' = multi, hook' = hook, cleanup' = cleanup
    PROVE  Counted'
<1>1. Moved(waiting, stack)  BY SoundTypes, EmitMoved
<1> QED  BY <1>1, MovedCounted

LEMMA ClearCounted ==
    ASSUME Sound, Counted, NEW h0 \in Hooks, ClearHook(h0), cleanup => cleanup',
           \A c \in Owners : Tracked(c),
           \/ cleanup'
           \/ /\ \A p : Queued(waiting', Emptied, p) => Queued(waiting, Emptied, p)
              /\ \A h \in Hooks : Runs(stack', h) => h # h0 /\ Runs(stack, h)
    PROVE  Counted'
<1>1. hook \in [Hooks -> HookKinds]  BY SoundTypes
<1>2. hook' = [h \in Hooks |-> IF h \in {h0} THEN "emptied" ELSE hook[h]]
  BY <1>1 DEF ClearHook
<1>3. {h0} \in SUBSET Owners /\ multi' = multi \ {h0} /\ timers' \subseteq timers
  BY Names DEF ClearHook
<1>4. \A t \in {h0} : t \in Tasks => Sole(waiting', stack', t)  BY Names
<1> QED  BY <1>2, <1>3, <1>4, CountedStep

(* A hook returns.                                                         *)
LEMMA ReturnsCounted ==
    ASSUME Sound, Counted, Actor \in Hooks, NEW killed \in BOOLEAN, HookReturns(killed, waiting)
    PROVE  Counted'
<1> DEFINE f == Head(stack)
           u == Tail(stack)
           g == [f EXCEPT !.who = None]
           s == <<g>> \o u
<1>1. stack # <<>> /\ f.who \in Hooks /\ stack \in Seq(Frames) /\ Table(waiting, Entries)
  BY ActorType, SoundTypes DEF Actor
<1>2. f \in Frames /\ u \in Seq(Frames) /\ stack = <<f>> \o u /\ OnTop(stack, f, u)
  BY <1>1, TopOk
<1>3. g \in Frames /\ g.em = f.em /\ g.key = f.key /\ g.who = None /\ g.todo = f.todo
  BY <1>2 DEF Frames
<1>4. PICK h0 \in Hooks : h0 = f.who  BY <1>1
<1>5. /\ cleanup' = cleanup
      /\ \/ /\ ClearHook(h0) /\ waiting' = EmptyWaiting(waiting, h0)
            /\ \/ stack' = EmptyStack(u, h0)
               \/ stack' = EmptyStack(s, h0)
         \/ /\ KeepHook
            /\ Reattach(IF hook[h0] = "emptied" THEN Emptied ELSE h0, waiting, s)
  BY <1>4 DEF HookReturns
<1> HIDE DEF f, u, g
<1>6. s \in Seq(Frames) /\ s # <<>> /\ OnTop(s, g, u)  BY <1>2, <1>3, OnTopOk
<1>7. \A h \in Hooks : Runs(u, h) => Runs(stack, h) /\ Runs(s, h)
  BY <1>2, <1>6 DEF OnTop, Runs
<1>8. \A h \in Hooks : Runs(s, h) => Runs(u, h)
  BY <1>3, <1>6, Names DEF OnTop, Runs
<1>9. ASSUME NEW c \in Owners
      PROVE  /\ Sole(waiting, stack, c) => Sole(waiting, s, c) /\ Sole(waiting, u, c)
             /\ Absent(waiting, stack, c) => Absent(waiting, s, c) /\ Absent(waiting, u, c)
             /\ c = h0 => /\ ~Absent(waiting, stack, c)
                          /\ Sole(waiting, stack, c) => Absent(waiting, s, c) /\ Absent(waiting, u, c)
  <2>1. /\ Absent(waiting, stack, c) <=> Absent(waiting, u, c) /\ ~Has(f, c)
        /\ Sole(waiting, stack, c) <=> /\ Sole(waiting, u, c)
                                       /\ Has(f, c) => /\ Absent(waiting, u, c) /\ AtMost(f.todo, c)
                                                       /\ ~(InList(f.todo, c) /\ f.who = c)
    BY <1>2, ConsHas
  <2>2. /\ Absent(waiting, s, c) <=> Absent(waiting, u, c) /\ ~Has(g, c)
        /\ Sole(waiting, s, c) <=> /\ Sole(waiting, u, c)
                                   /\ Has(g, c) => /\ Absent(waiting, u, c) /\ AtMost(g.todo, c)
                                                   /\ ~(InList(g.todo, c) /\ g.who = c)
    BY <1>2, <1>3, ConsHas
  <2>3. None # c  BY CellOwner
  <2>4. Has(f, c) <=> InList(f.todo, c) \/ h0 = c  BY <1>4 DEF Has
  <2>5. Has(g, c) <=> InList(f.todo, c)  BY <1>3, <2>3 DEF Has
  <2> HIDE DEF s
  <2> QED  BY <1>3, <1>4, <2>1, <2>2, <2>3, <2>4, <2>5
<1>10. h0 \in Owners /\ h0 \in Entries /\ h0 # Emptied  BY Names
<1>11. cleanup \/ (hook[h0] # "emptied" /\ Absent(waiting, s, h0) /\ Absent(waiting, u, h0))
  <2> SUFFICES ASSUME ~cleanup
               PROVE  hook[h0] # "emptied" /\ Absent(waiting, s, h0) /\ Absent(waiting, u, h0)
    OBVIOUS
  <2>1. Runs(stack, h0)  BY <1>2, <1>4 DEF OnTop, Runs
  <2>2. h0 \notin multi /\ hook[h0] # "emptied"  BY <2>1 DEF Counted, Noticed
  <2>3. h0 \in Alive  BY <2>2, AliveCells
  <2> HIDE DEF s
  <2> QED  BY <1>9, <1>10, <2>2, <2>3 DEF Counted
<1> HIDE DEF s
<1>12. ASSUME NEW r, r = s \/ r = u, ClearHook(h0), waiting' = EmptyWaiting(waiting, h0),
              stack' = EmptyStack(r, h0)
       PROVE  Counted'
  <2>0. r \in Seq(Frames) /\ \A h \in Hooks : Runs(r, h) => Runs(stack, h)
    BY <1>2, <1>6, <1>7, <1>8, <1>12
  <2>1. \A c \in Owners : /\ Sole(waiting, r, c) => Sole(waiting', stack', c)
                          /\ Absent(waiting, r, c) => Absent(waiting', stack', c)
    BY <1>12, <2>0, SoleEmpty
  <2>2. \A c \in Owners : Tracked(c)  BY <1>9, <1>12, <2>1 DEF Tracked
  <2>3. \A h \in Hooks : Runs(stack', h) => Runs(r, h)
    BY <1>10, <1>12, <2>0, SoleEmpty
  <2>4. \A p : Queued(waiting', Emptied, p) => Queued(waiting, Emptied, p) \/ Queued(waiting, h0, p)
    BY <1>10, <1>12, <2>0, SoleEmpty
  <2>5. ASSUME ~cleanup
        PROVE  /\ \A p : Queued(waiting', Emptied, p) => Queued(waiting, Emptied, p)
               /\ \A h \in Hooks : Runs(stack', h) => h # h0 /\ Runs(stack, h)
    <3>1. Absent(waiting, r, h0)  BY <1>11, <1>12, <2>5
    <3>2. ~Runs(r, h0)  BY <3>1 DEF Absent, Has, Runs, Called
    <3>3. \A p : ~Queued(waiting, h0, p)  BY <3>1 DEF Absent
    <3> QED  BY <2>0, <2>3, <2>4, <3>2, <3>3
  <2> QED  BY <1>5, <1>12, <2>2, <2>5, ClearCounted
<1>13. CASE KeepHook /\ Reattach(IF hook[h0] = "emptied" THEN Emptied ELSE h0, waiting, s)
  <2>1. PICK x \in Entries : /\ Reattach(x, waiting, s)
                             /\ x = IF hook[h0] = "emptied" THEN Emptied ELSE h0
    BY <1>10, <1>13, Names
  <2>2. ASSUME NEW c
        PROVE /\ c # x => /\ Sole(waiting, s, c) => Sole(waiting', stack', c)
                          /\ Absent(waiting, s, c) => Absent(waiting', stack', c)
              /\ c = x /\ Absent(waiting, s, c) => Sole(waiting', stack', c)
              /\ \A p : Queued(waiting', c, p) => Queued(waiting, c, p) \/ c = x
              /\ \A h : Runs(stack', h) => Runs(s, h)
    BY <1>1, <1>6, <2>1, SoleReattach
  <2>3. ASSUME NEW c \in Owners PROVE Tracked(c)
    <3>1. CASE c # x  BY <1>9, <2>2, <3>1 DEF Tracked
    <3>2. CASE c = x
      <4>1. c = h0  BY <2>1, <3>2, CellOwner
      <4> QED  BY <1>9, <2>2, <3>2, <4>1 DEF Tracked
    <3> QED  BY <3>1, <3>2
  <2>4. \A h \in Hooks : Runs(stack', h) => Runs(stack, h)  BY <1>7, <1>8, <2>2
  <2>5. cleanup \/ \A p : Queued(waiting', Emptied, p) => Queued(waiting, Emptied, p)
    BY <1>10, <1>11, <2>1, <2>2
  <2>6. hook' = hook /\ multi' = multi /\ timers' = timers  BY <1>13 DEF KeepHook
  <2> QED  BY <1>5, <2>3, <2>4, <2>5, <2>6, KeepCounted
<1> QED  BY <1>5, <1>12, <1>13

(* What the program does not do, no one does.                              *)
LEMMA NotCalled ==
    ASSUME Thrifty, NEW op \in {"kill", "killready", "killnew", "killgone", "block"}
    PROVE  ~May(op)
BY DEF Thrifty, Careful, May

(* A list without two events has one.                                      *)
LEMMA OneEvent ==
    ASSUME NEW evs, IsFiniteSet(evs), ~(Cardinality(evs) > 1), NEW a \in evs, NEW b \in evs
    PROVE  a = b
<1> SUFFICES ASSUME a # b PROVE FALSE  OBVIOUS
<1>1. IsFiniteSet({a}) /\ Cardinality({a}) = 1  BY FS_Singleton
<1>2. {a} \subseteq evs /\ {a} # evs  OBVIOUS
<1>3. Cardinality(evs) \in Nat /\ Cardinality({a}) <= Cardinality(evs)
      /\ (Cardinality({a}) = Cardinality(evs) => {a} = evs)
  BY <1>1, <1>2, FS_Subset, FS_CardinalityType
<1> QED  BY <1>1, <1>2, <1>3

(* A cell is registered, which was nowhere.                                *)
LEMMA RegisterCounted ==
    ASSUME Sound, Counted, NEW x \in Owners, NEW S,
           waiting' = Register(waiting, x, S), stack' = stack, timers' = timers,
           cleanup' = cleanup, multi' \in {multi, multi \cup {x}},
           x \in multi' \/ \A p, q \in S : p = q,
           Absent(waiting, stack, x),
           \A h \in Hooks : h # x => hook'[h] = hook[h],
           x \in Hooks => hook'[x] # "free"
    PROVE  Counted'
<1>1. ASSUME NEW c \in Owners
      PROVE  /\ c # x => /\ Sole(waiting, stack, c) => Sole(waiting', stack', c)
                         /\ Absent(waiting, stack, c) => Absent(waiting', stack', c)
             /\ c = x /\ x \notin multi' => Sole(waiting', stack', c)
  BY SoundTypes, SoleRegister
<1>2. \A p : Queued(waiting', Emptied, p) => Queued(waiting, Emptied, p)
  BY SoundTypes, SoleRegister
<1>3. ASSUME NEW c \in Owners, c \notin multi', c \in Alive' PROVE Sole(waiting', stack', c)
  <2>1. CASE c = x  BY <1>1, <1>3, <2>1
  <2>2. CASE c # x
    <3>1. c \notin multi  BY <1>3, <2>2
    <3>2. c \in Alive  BY <1>3, <2>2 DEF Alive, Zombies
    <3> QED  BY <1>1, <2>2, <3>1, <3>2 DEF Counted
  <2> QED  BY <2>1, <2>2
<1>4. ASSUME NEW h \in Hooks, hook'[h] = "free"
      PROVE  Absent(waiting', stack', h) /\ h \notin multi'
  <2>1. h # x /\ hook[h] = "free" /\ h \in Owners  BY <1>4, Names
  <2> QED  BY <1>1, <2>1 DEF Counted
<1>5. Noticed(stack', hook', multi', cleanup')
  <2>1. ~Runs(stack, x)  BY DEF Absent, Has, Runs, Called
  <2> QED  BY <2>1 DEF Counted, Noticed
<1>6. Remembered(waiting', cleanup')  BY <1>2 DEF Counted, Remembered
<1> QED  BY <1>3, <1>4, <1>5, <1>6 DEF Counted

LEMMA BlockCounted ==
    ASSUME Thrifty, Sound, Alone, Counted, NEW ems, NEW evs \in EventLists,
           NEW isMulti \in BOOLEAN,
           ~isMulti => ~(Cardinality(evs) > 1) /\ \A a, b \in ems : a = b,
           Block(ems \X evs, isMulti)
    PROVE  Counted'
<1> DEFINE S == ems \X evs
<1>1. Actor \in Tasks /\ stack = <<>> /\ running = Actor /\ co[Actor] = "active"
  BY ActorAlone DEF Block
<1>2. PICK t \in Tasks : t = running  BY <1>1
<1>3. /\ waiting' = Register(waiting, t, S) /\ stack' = stack
      /\ multi' = IF isMulti THEN multi \cup {t} ELSE multi
      /\ hook' = hook /\ cleanup' = cleanup
      /\ timers' = IF IsTimed(S) THEN timers \cup {t} ELSE timers
  BY <1>1, <1>2 DEF Block, Suspend
<1>4. \A p \in S : p[1] \in ems /\ p[2] \in evs /\ p = <<p[1], p[2]>>  OBVIOUS
<1> HIDE DEF S
<1>5. timers' = timers  BY <1>3, <1>4 DEF IsTimed, Thrifty
<1>6. Absent(waiting, stack, t)
  <2>1. ~HasCell(t)  BY <1>1, <1>2 DEF Alone
  <2>2. DOMAIN stack = {}  BY <1>1
  <2> QED  BY <2>1, <2>2, HasCellOk DEF Absent, Cell
<1>7. t \in multi' \/ \A p, q \in S : p = q
  <2>1. CASE isMulti  BY <1>3, <2>1
  <2>2. CASE ~isMulti
    <3>1. \A a, b \in evs : a = b  BY <2>2, OneEvent DEF Thrifty
    <3> QED  BY <1>4, <2>2, <3>1
  <2> QED  BY <2>1, <2>2
<1> QED  BY <1>2, <1>3, <1>5, <1>6, <1>7, Names, RegisterCounted

LEMMA EndCounted ==
    ASSUME Sound, Alone, Counted, Actor \in Tasks, NEW slain \in BOOLEAN, End(slain)
    PROVE  Counted'
<1>1. stack = <<>>  BY ActorAlone
<1>2. /\ Emit(Actor, Die, slain, waiting, stack)
      /\ timers' = timers /\ multi' = multi /\ hook' = hook /\ cleanup' = cleanup
  BY <1>1 DEF End, cells
<1> QED  BY <1>2, Names, EmitCounted

LEMMA TaskCallCounted == ASSUME Thrifty, Sound, Alone, Counted, TaskCall PROVE Counted'
<1>1. CASE Finish  BY <1>1, EndCounted DEF Finish
<1>2. CASE WaitFails  BY <1>2, EndCounted DEF WaitFails
<1>3. CASE Yield
  <2>1. stack = <<>>  BY <1>3, ActorAlone DEF Yield
  <2>2. /\ waiting' = waiting /\ stack' = stack
        /\ timers' = timers /\ multi' = multi /\ hook' = hook /\ cleanup' = cleanup
    BY <1>3, <2>1 DEF Yield, Suspend, cells
  <2> QED  BY <2>2, QuietCounted
<1>4. ASSUME NEW em \in Known, NEW evs \in Lists(em), Wait(em, evs) PROVE Counted'
  <2>1. evs \in EventLists  BY DEF Lists
  <2>2. Block({em} \X evs, Cardinality(evs) > 1)  BY <1>4 DEF Wait
  <2>3. CASE Cardinality(evs) > 1
    <3>1. Block({em} \X evs, TRUE)  BY <2>2, <2>3 DEF Block
    <3> QED  BY <2>1, <3>1, BlockCounted
  <2>4. CASE ~(Cardinality(evs) > 1)
    <3>1. Block({em} \X evs, FALSE)  BY <2>2, <2>4 DEF Block
    <3>2. \A a, b \in {em} : a = b  OBVIOUS
    <3> QED  BY <2>1, <2>4, <3>1, <3>2, BlockCounted
  <2> QED  BY <2>3, <2>4
<1>5. ASSUME NEW ems \in SUBSET (Known \ {Clock}),
             NEW evs \in UNION {Lists(em) : em \in ems}, MultiWait(ems, evs)
      PROVE  Counted'
  <2>1. evs \in EventLists  BY DEF Lists
  <2>2. Block(ems \X evs, TRUE)  BY <1>5 DEF MultiWait
  <2> QED  BY <2>1, <2>2, BlockCounted
<1> QED  BY <1>1, <1>2, <1>3, <1>4, <1>5 DEF TaskCall

LEMMA SigHookCounted ==
    ASSUME Thrifty, Sound, Counted,
           NEW h0 \in Hooks, NEW kind \in {"hook", "once", "run", "runonce"}, NEW em,
           NEW evs \in Lists(em), SigHook(h0, kind, em, evs)
    PROVE  Counted'
<1> DEFINE S == {em} \X evs
<1>1. /\ hook[h0] = "free" /\ waiting' = Register(waiting, h0, S) /\ stack' = stack
      /\ hook' = [hook EXCEPT ![h0] = kind] /\ cleanup' = cleanup
      /\ timers' = IF IsTimed(S) THEN timers \cup {h0} ELSE timers
      /\ multi' = IF Cardinality(evs) > 1 THEN multi \cup {h0} ELSE multi
  BY DEF SigHook
<1>2. evs \in EventLists /\ hook \in [Hooks -> HookKinds]  BY SoundTypes DEF Lists
<1>3. \A p \in S : p[1] = em /\ p[2] \in evs /\ p = <<p[1], p[2]>>  OBVIOUS
<1> HIDE DEF S
<1>4. timers' = timers  BY <1>1, <1>2, <1>3 DEF IsTimed, Thrifty
<1>5. Absent(waiting, stack, h0)  BY <1>1 DEF Counted
<1>6. h0 \in multi' \/ \A p, q \in S : p = q
  <2>1. CASE Cardinality(evs) > 1  BY <1>1, <2>1
  <2>2. CASE ~(Cardinality(evs) > 1)
    <3>1. \A a, b \in evs : a = b  BY <1>2, <2>2, OneEvent DEF Thrifty
    <3> QED  BY <1>3, <3>1
  <2> QED  BY <2>1, <2>2
<1>7. /\ \A h \in Hooks : h # h0 => hook'[h] = hook[h]
      /\ hook'[h0] # "free" /\ multi' \in {multi, multi \cup {h0}}
  BY <1>1, <1>2
<1> QED  BY <1>1, <1>4, <1>5, <1>6, <1>7, Names, RegisterCounted

LEMMA AnyCallCounted == ASSUME Thrifty, Sound, Alone, Counted, AnyCall PROVE Counted'
<1>0. Table(waiting, Entries) /\ stack \in Seq(Frames)  BY SoundTypes
<1>1. ASSUME NEW t \in Tasks, Run(t) PROVE Counted'
  <2>1. /\ waiting' = waiting /\ stack' = stack
        /\ timers' = timers /\ multi' = multi /\ hook' = hook /\ cleanup' = cleanup
    BY <1>1 DEF Run, cells
  <2> QED  BY <2>1, QuietCounted
<1>2. ASSUME NEW em \in Objects, NEW ev \in Events, Signal(em, ev) PROVE Counted'
  <2>1. em \in Emitters /\ ev \in Keys  BY DEF Emitters, Keys
  <2>2. /\ Emit(em, ev, FALSE, waiting, stack)
        /\ timers' = timers /\ multi' = multi /\ hook' = hook /\ cleanup' = cleanup
    BY <1>2 DEF Signal, cells
  <2> QED  BY <2>1, <2>2, EmitCounted
<1>3. CASE Gc
  <2>1. /\ stack' = stack /\ waiting' = Collected(waiting, stack)
        /\ timers' = timers /\ multi' = multi /\ hook' = hook /\ cleanup' = cleanup
    BY <1>3 DEF Gc, cells
  <2>2. Moved(waiting, stack)
    <3>1. \A c : /\ Sole(waiting, stack, c) => Sole(waiting', stack', c)
                 /\ Absent(waiting, stack, c) => Absent(waiting', stack', c)
                 /\ \A p : ~Queued(waiting', Emptied, p)
      BY <1>0, <2>1, SoleCollected
    <3> QED  BY <2>1, <3>1 DEF Moved
  <2> QED  BY <2>1, <2>2, MovedCounted
<1>4. CASE KillSelf
  <2>1. CASE Actor \in Tasks
    <3>1. End(TRUE)  BY <1>4, <2>1 DEF KillSelf
    <3> QED  BY <2>1, <3>1, EndCounted
  <2>2. CASE Actor \notin Tasks
    <3>1. Actor \in Hooks  BY <1>4, <2>2, ActorType DEF KillSelf, May, Owners
    <3>2. HookReturns(TRUE, waiting)  BY <1>4, <2>2 DEF KillSelf
    <3> QED  BY <3>1, <3>2, ReturnsCounted
  <2> QED  BY <2>1, <2>2
<1>5. ASSUME NEW x \in Tasks, KillSuspended(x) \/ KillNew(x) \/ KillGone(x) PROVE FALSE
  <2>1. PICK op \in {"kill", "killready", "killnew", "killgone"} : MayKill(op, x)
    BY <1>5 DEF KillSuspended, KillNew, KillGone
  <2> QED  BY <2>1, NotCalled DEF MayKill
<1>6. ASSUME NEW h0 \in Hooks, KillHook(h0) PROVE Counted'
  <2>1. /\ ClearHook(h0) /\ waiting' = EmptyWaiting(waiting, h0)
        /\ stack' = EmptyStack(stack, h0) /\ cleanup'
    BY <1>6 DEF KillHook
  <2>2. \A c \in Owners : Tracked(c)  BY <1>0, <2>1, SoleEmpty DEF Tracked
  <2> QED  BY <2>1, <2>2, ClearCounted
<1>7. ASSUME NEW h \in Hooks, NEW kind \in {"hook", "once", "run", "runonce"},
             NEW em \in Known, NEW evs \in Lists(em), SigHook(h, kind, em, evs)
      PROVE  Counted'
  BY <1>7, SigHookCounted
<1> QED  BY <1>1, <1>2, <1>3, <1>4, <1>5, <1>6, <1>7 DEF AnyCall

LEMMA HookCallCounted == ASSUME Thrifty, Sound, Counted, HookCall PROVE Counted'
<1>1. CASE HookDone  BY <1>1, ReturnsCounted DEF HookDone
<1>2. ASSUME NEW em, NEW ev, BlockInHook(em, ev) PROVE FALSE
  BY <1>2, NotCalled DEF BlockInHook
<1> QED  BY <1>1, <1>2 DEF HookCall

(* A cell that is taken is nowhere else, or the sweep will be made.        *)
LEMMA TakenCounted ==
    ASSUME Sound, Counted, NEW c \in Owners, NextCell(c), Noted(c)
    PROVE  /\ cleanup => cleanup'
           /\ c \in multi => cleanup'
           /\ Sole(waiting, stack, c) => Absent(waiting, Taken, c)
           /\ c \in Alive => cleanup' \/ Absent(waiting, Taken, c)
<1>1. Sole(waiting, stack, c) => Absent(waiting, Taken, c)
  BY SoundTypes, SoleTaken
<1> QED  BY <1>1 DEF Counted, Noted

(* It is emptied.                                                          *)
LEMMA EmptiedCounted ==
    ASSUME Sound, Counted, NEW x \in Owners, NextCell(x)
    PROVE  LET w == EmptyWaiting(waiting, x)
               s == EmptyStack(Taken, x)
           IN  /\ s \in Seq(Frames)
               /\ \A c \in Owners : /\ Sole(waiting, stack, c) => Sole(w, s, c)
                                    /\ Absent(waiting, stack, c) => Absent(w, s, c)
               /\ \A h : Runs(s, h) => Runs(stack, h)
               /\ ~Runs(stack, x) => Absent(w, s, x)
               /\ Absent(waiting, Taken, x) =>
                     /\ \A p : Queued(w, Emptied, p) => Queued(waiting, Emptied, p)
                     /\ ~Runs(s, x) /\ Absent(w, s, x)
<1> DEFINE w == EmptyWaiting(waiting, x)
           s == EmptyStack(Taken, x)
<1>1. stack \in Seq(Frames) /\ Taken \in Seq(Frames)  BY SoundTypes, TakenOk
<1>2. ASSUME NEW c \in Owners
      PROVE  /\ Sole(waiting, stack, c) => Sole(waiting, Taken, c)
             /\ Absent(waiting, stack, c) => Absent(waiting, Taken, c)
  BY <1>1, SoleTaken
<1>3. \A h : Runs(Taken, h) => Runs(stack, h)  BY <1>1, SoleTaken
<1>4. ASSUME NEW c \in Owners
      PROVE  /\ Sole(waiting, Taken, c) => Sole(w, s, c)
             /\ Absent(waiting, Taken, c) => Absent(w, s, c)
  BY <1>1, SoleEmpty
<1>5. /\ s \in Seq(Frames) /\ \A h : Runs(s, h) => Runs(Taken, h)
      /\ \A p : Queued(w, Emptied, p) => Queued(waiting, Emptied, p) \/ Queued(waiting, x, p)
      /\ ~Runs(Taken, x) => Absent(w, s, x)
  BY <1>1, SoleEmpty
<1> HIDE DEF w, s
<1>6. Absent(waiting, Taken, x) => ~Runs(Taken, x) /\ \A p : ~Queued(waiting, x, p)
  BY DEF Absent, Has, Runs, Called
<1> QED  BY <1>2, <1>3, <1>4, <1>5, <1>6 DEF w, s

LEMMA WakeTaskCounted == ASSUME Sound, Alone, Counted, NEW t \in Tasks, WakeTask(t) PROVE Counted'
<1> DEFINE s == EmptyStack(Taken, t)
           g == [Head(s) EXCEPT !.woken = Append(Head(s).woken, t)]
           w == EmptyWaiting(waiting, t)
<1>1. /\ NextCell(t) /\ waiting' = w /\ stack' = <<g>> \o Tail(s)
      /\ hook' = hook /\ multi' = multi \ {t} /\ timers' \subseteq timers /\ Noted(t)
  BY DEF WakeTask
<1>2. t \in Owners /\ t \in Alive /\ stack \in Seq(Frames) /\ hook \in [Hooks -> HookKinds]
  BY Names, AliveCells, SoundTypes
<1>3. /\ s \in Seq(Frames)
      /\ \A c \in Owners : /\ Sole(waiting, stack, c) => Sole(w, s, c)
                           /\ Absent(waiting, stack, c) => Absent(w, s, c)
      /\ \A h : Runs(s, h) => Runs(stack, h)
      /\ ~Runs(stack, t) => Absent(w, s, t)
      /\ Absent(waiting, Taken, t) => /\ \A p : Queued(w, Emptied, p) => Queued(waiting, Emptied, p)
                                      /\ ~Runs(s, t) /\ Absent(w, s, t)
  BY <1>1, <1>2, EmptiedCounted
<1>4. s # <<>>
  <2>1. Taken \in Seq(Frames) /\ Taken # <<>>  BY <1>1, <1>2, TakenOk
  <2>2. Calling(s, Taken)  BY <2>1, EmptyOk
  <2> HIDE DEF s
  <2> QED  BY <2>1, <2>2, CallingTail
<1>5. (cleanup => cleanup') /\ (cleanup' \/ Absent(waiting, Taken, t))
  BY <1>1, <1>2, TakenCounted
<1> HIDE DEF s, w
<1>6. Head(s) \in Frames /\ Tail(s) \in Seq(Frames) /\ s = <<Head(s)>> \o Tail(s)
      /\ OnTop(s, Head(s), Tail(s))
  BY <1>3, <1>4, TopOk
<1>7. /\ g \in Frames /\ g.em = Head(s).em /\ g.key = Head(s).key
      /\ g.todo = Head(s).todo /\ g.who = Head(s).who
  <2>1. Append(Head(s).woken, t) \in Seq(Tasks)
    <3>1. Head(s).woken \in Seq(Tasks)  BY <1>6 DEF Frames
    <3> QED  BY <3>1, AppendProperties
  <2> QED  BY <1>6, <2>1 DEF Frames
<1> HIDE DEF g
<1>8. ASSUME NEW c
      PROVE  /\ Sole(w, s, c) => Sole(waiting', stack', c)
             /\ Absent(w, s, c) => Absent(waiting', stack', c)
  <2>1. Has(g, c) <=> Has(Head(s), c)  BY <1>7 DEF Has
  <2>2. /\ Absent(w, <<g>> \o Tail(s), c) <=> Absent(w, Tail(s), c) /\ ~Has(g, c)
        /\ Sole(w, <<g>> \o Tail(s), c) <=>
             /\ Sole(w, Tail(s), c)
             /\ Has(g, c) => /\ Absent(w, Tail(s), c) /\ AtMost(g.todo, c)
                             /\ ~(InList(g.todo, c) /\ g.who = c)
    BY <1>6, <1>7, ConsHas
  <2>3. /\ Absent(w, s, c) <=> Absent(w, Tail(s), c) /\ ~Has(Head(s), c)
        /\ Sole(w, s, c) <=>
             /\ Sole(w, Tail(s), c)
             /\ Has(Head(s), c) => /\ Absent(w, Tail(s), c) /\ AtMost(Head(s).todo, c)
                                   /\ ~(InList(Head(s).todo, c) /\ Head(s).who = c)
    <3> DEFINE f == Head(s)
               u == Tail(s)
    <3>1. f \in Frames /\ u \in Seq(Frames) /\ s = <<f>> \o u  BY <1>6
    <3> HIDE DEF f, u
    <3>2. /\ Absent(w, s, c) <=> Absent(w, u, c) /\ ~Has(f, c)
          /\ Sole(w, s, c) <=> /\ Sole(w, u, c)
                               /\ Has(f, c) => /\ Absent(w, u, c) /\ AtMost(f.todo, c)
                                               /\ ~(InList(f.todo, c) /\ f.who = c)
      BY <3>1, ConsHas
    <3> QED  BY <3>2 DEF f, u
  <2> QED  BY <1>1, <1>7, <2>1, <2>2, <2>3
<1>9. \A h : Runs(stack', h) => Runs(s, h)
  <2>1. OnTop(stack', g, Tail(s))  BY <1>1, <1>6, <1>7, OnTopOk
  <2>2. SlotOf(g) = SlotOf(Head(s))  BY <1>7 DEF SlotOf
  <2> QED  BY <1>6, <1>7, <2>1, <2>2 DEF OnTop, Runs
<1>10. \A c \in Owners : Tracked(c)  BY <1>3, <1>8 DEF Tracked
<1>11. Sole(waiting', stack', t)
  <2>1. ~Runs(stack, t)  BY DEF Runs, Called, Alone, Calm
  <2> QED  BY <1>3, <1>8, <2>1, AbsentSole
<1>12. \/ cleanup'
       \/ /\ \A p : Queued(waiting', Emptied, p) => Queued(waiting, Emptied, p)
          /\ \A h \in Hooks : Runs(stack', h) =>
                h \notin {t} /\ (Runs(stack, h) \/ (h \notin multi /\ hook[h] # "emptied"))
  BY <1>1, <1>3, <1>5, <1>9, Names
<1>13. hook' = [h \in Hooks |-> IF h \in {t} THEN "emptied" ELSE hook[h]]
  <2>1. \A h \in Hooks : h \notin {t}  BY Names
  <2> QED  BY <1>1, <1>2, <2>1
<1>14. {t} \in SUBSET Owners  BY <1>2
<1>15. \A t1 \in {t} : t1 \in Tasks => Sole(waiting', stack', t1)  BY <1>11
<1> QED  BY <1>1, <1>5, <1>10, <1>12, <1>13, <1>14, <1>15, CountedStep

LEMMA CallHookCounted == ASSUME Sound, Counted, NEW h0 \in Hooks, CallHook(h0) PROVE Counted'
<1> DEFINE r == <<[Head(Taken) EXCEPT !.who = h0]>> \o Tail(Taken)
<1>1. /\ NextCell(h0) /\ Noted(h0) /\ hook[h0] # "emptied" /\ stack' = r
      /\ waiting' = waiting /\ hook' = hook /\ multi' = multi /\ timers' = timers
  BY DEF CallHook
<1>2. h0 \in Owners /\ stack \in Seq(Frames)  BY Names, SoundTypes
<1>3. ASSUME NEW c
      PROVE  /\ Sole(waiting, stack, c) => Sole(waiting, r, c)
             /\ Absent(waiting, stack, c) => Absent(waiting, r, c)
             /\ \A h : Runs(r, h) => Runs(stack, h) \/ h = h0
  BY <1>1, <1>2, SoleTaken
<1> HIDE DEF r
<1>4. (cleanup => cleanup') /\ (h0 \in multi => cleanup')  BY <1>1, <1>2, TakenCounted
<1>5. \A c \in Owners : Tracked(c)  BY <1>1, <1>3 DEF Tracked
<1>6. /\ \A h \in Hooks \ {} : hook'[h] = IF h \in {} THEN "emptied" ELSE hook[h]
      /\ \A h \in {} : FALSE
      /\ {} \in SUBSET Owners /\ {} \in SUBSET Hooks /\ Owners \ {} = Owners
      /\ multi' = multi \ {} /\ timers' \subseteq timers
  BY <1>1
<1>7. \/ cleanup'
      \/ /\ \A p : Queued(waiting', Emptied, p) => Queued(waiting, Emptied, p)
         /\ \A h \in Hooks : Runs(stack', h) =>
               h \notin {} /\ (Runs(stack, h) \/ (h \notin multi /\ hook'[h] # "emptied"))
  BY <1>1, <1>3, <1>4
<1> QED  BY <1>4, <1>5, <1>6, <1>7, CountedNew

\* The hook h0 is put back after the cells of N have been registered in w.
Joined(h0, w, N) ==
    /\ Reattach(h0, w, Taken) /\ Table(w, Entries)
    /\ \A c \in Owners \ N : /\ Sole(waiting, Taken, c) => Sole(w, Taken, c)
                             /\ Absent(waiting, Taken, c) => Absent(w, Taken, c)
    /\ \A c \in N : Sole(w, Taken, c) /\ hook'[c] = "propagate"
    /\ \A h \in Hooks \ N : hook'[h] = hook[h]
    /\ \A p : Queued(w, Emptied, p) => Queued(waiting, Emptied, p)

(* sigRun's hook is put back, with the cell of the new task's death.       *)
LEMMA CallSigRunCounted == ASSUME Sound, Counted, NEW h0 \in Hooks, CallSigRun(h0) PROVE Counted'
<1>1. /\ NextCell(h0) /\ Noted(h0) /\ hook[h0] = "run"
      /\ multi' = multi /\ timers' = timers
  BY DEF CallSigRun
<1>2. /\ stack \in Seq(Frames) /\ Table(waiting, Entries) /\ hook \in [Hooks -> HookKinds]
      /\ h0 \in Owners /\ h0 \in Entries /\ h0 # Emptied
  BY SoundTypes, Names
<1>3. Taken \in Seq(Frames) /\ Taken # <<>>  BY <1>1, <1>2, TakenOk
<1>4. ASSUME NEW c
      PROVE  /\ Sole(waiting, stack, c) => Sole(waiting, Taken, c)
             /\ Absent(waiting, stack, c) => Absent(waiting, Taken, c) /\ c # h0
             /\ c = h0 /\ Sole(waiting, stack, c) => Absent(waiting, Taken, c)
             /\ \A h : Runs(Taken, h) => Runs(stack, h)
  BY <1>1, <1>2, SoleTaken
<1>5. cleanup => cleanup'  BY <1>1, <1>2, TakenCounted
<1>6. \E N \in SUBSET Unused : \E w : Joined(h0, w, N)
  <2>1. CASE Reattach(h0, waiting, Taken) /\ hook' = hook
    <3>1. {} \in SUBSET Unused  OBVIOUS
    <3>2. Joined(h0, waiting, {})  BY <1>2, <2>1 DEF Joined
    <3> QED  BY <3>1, <3>2
  <2>2. ASSUME NEW t \in Unborn, NEW h2 \in Unused,
               Reattach(h0, Register(waiting, h2, {<<t, Die>>}), Taken),
               hook' = [hook EXCEPT ![h2] = "propagate"]
        PROVE  \E N \in SUBSET Unused : \E w : Joined(h0, w, N)
    <3> DEFINE S == {<<t, Die>>}
               w == Register(waiting, h2, S)
    <3>1. h2 \in Hooks /\ hook[h2] = "free" /\ t \in Tasks  BY DEF Unused, Unborn
    <3>2. h2 \in Entries /\ h2 \in Owners /\ S \in SUBSET Slots /\ \A p, q \in S : p = q
      BY <3>1, Names DEF Slots
    <3>3. Table(w, Entries)  BY <1>2, <3>2, RegisterType
    <3>4. Absent(waiting, Taken, h2)  BY <1>4, <3>1 DEF Counted
    <3>5. ASSUME NEW c \in Owners
          PROVE  /\ c # h2 => /\ Sole(waiting, Taken, c) => Sole(w, Taken, c)
                              /\ Absent(waiting, Taken, c) => Absent(w, Taken, c)
                 /\ c = h2 /\ Absent(waiting, Taken, c) => Sole(w, Taken, c)
                 /\ \A p : Queued(w, Emptied, p) => Queued(waiting, Emptied, p)
      <4> HIDE DEF S
      <4> QED  BY <1>2, <3>2, SoleRegister
    <3>6. Reattach(h0, w, Taken)  BY <2>2
    <3> HIDE DEF w
    <3>7. /\ \A c \in {h2} : Sole(w, Taken, c) /\ hook'[c] = "propagate"
          /\ \A h \in Hooks \ {h2} : hook'[h] = hook[h]
      BY <1>2, <2>2, <3>1, <3>2, <3>4, <3>5
    <3>8. /\ \A c \in Owners \ {h2} : /\ Sole(waiting, Taken, c) => Sole(w, Taken, c)
                                      /\ Absent(waiting, Taken, c) => Absent(w, Taken, c)
          /\ \A p : Queued(w, Emptied, p) => Queued(waiting, Emptied, p)
      BY <3>2, <3>5
    <3>9. {h2} \in SUBSET Unused  OBVIOUS
    <3>10. Joined(h0, w, {h2})  BY <3>3, <3>6, <3>7, <3>8 DEF Joined
    <3> QED  BY <3>9, <3>10
  <2>3. \/ Reattach(h0, waiting, Taken) /\ hook' = hook
        \/ \E t \in Unborn, h2 \in Unused :
             /\ Reattach(h0, Register(waiting, h2, {<<t, Die>>}), Taken)
             /\ hook' = [hook EXCEPT ![h2] = "propagate"]
    BY DEF CallSigRun
  <2> QED  BY <2>1, <2>2, <2>3
<1>7. PICK N \in SUBSET Unused : \E w : Joined(h0, w, N)  BY <1>6
<1>8. PICK w : Joined(h0, w, N)  BY <1>7
<1>9. ASSUME NEW c
      PROVE  /\ c # h0 => /\ Sole(w, Taken, c) => Sole(waiting', stack', c)
                          /\ Absent(w, Taken, c) => Absent(waiting', stack', c)
             /\ c = h0 /\ Absent(w, Taken, c) => Sole(waiting', stack', c)
             /\ \A p : Queued(waiting', c, p) => Queued(w, c, p) \/ c = h0
             /\ \A h : Runs(stack', h) => Runs(Taken, h)
  BY <1>2, <1>3, <1>8, SoleReattach DEF Joined
<1>10. h0 \notin N /\ N \in SUBSET Hooks /\ \A h \in N : hook[h] = "free" /\ h # h0
  BY <1>1 DEF Unused
<1>11. \A c \in Owners \ N : Tracked(c)  BY <1>4, <1>8, <1>9 DEF Tracked, Joined
<1>12. \A h \in N : /\ hook[h] = "free" /\ hook'[h] \notin {"free", "emptied"}
                    /\ Sole(waiting', stack', h)
  BY <1>8, <1>9, <1>10 DEF Joined
<1>13. /\ \A p : Queued(waiting', Emptied, p) => Queued(waiting, Emptied, p)
       /\ \A h : Runs(stack', h) => Runs(stack, h)
  BY <1>2, <1>4, <1>8, <1>9 DEF Joined
<1>14. /\ \A h \in Hooks \ N : hook'[h] = IF h \in {} THEN "emptied" ELSE hook[h]
       /\ {} \in SUBSET Owners /\ multi' = multi \ {} /\ timers' \subseteq timers
       /\ \A t \in {} : t \in Tasks => Sole(waiting', stack', t)
  BY <1>1, <1>8 DEF Joined
<1>15. \/ cleanup'
       \/ /\ \A p : Queued(waiting', Emptied, p) => Queued(waiting, Emptied, p)
          /\ \A h \in Hooks : Runs(stack', h) =>
                h \notin {} /\ (Runs(stack, h) \/ (h \notin multi /\ hook'[h] # "emptied"))
  BY <1>13
<1> QED  BY <1>5, <1>10, <1>11, <1>12, <1>14, <1>15, CountedNew

LEMMA CallSigRunOnceCounted ==
    ASSUME Sound, Counted, NEW h0 \in Hooks, CallSigRunOnce(h0) PROVE Counted'
<1>1. /\ NextCell(h0) /\ Noted(h0) /\ hook[h0] # "emptied" /\ ClearHook(h0)
      /\ waiting' = EmptyWaiting(waiting, h0) /\ stack' = EmptyStack(Taken, h0)
  BY DEF CallSigRunOnce
<1>2. h0 \in Owners /\ h0 \in Alive  BY <1>1, Names, AliveCells
<1>3. (cleanup => cleanup') /\ (cleanup' \/ Absent(waiting, Taken, h0))
  BY <1>1, <1>2, TakenCounted
<1>4. /\ \A c \in Owners : Tracked(c)
      /\ \A h : Runs(stack', h) => Runs(stack, h)
      /\ Absent(waiting, Taken, h0) =>
            /\ \A p : Queued(waiting', Emptied, p) => Queued(waiting, Emptied, p)
            /\ ~Runs(stack', h0)
  BY <1>1, <1>2, EmptiedCounted DEF Tracked
<1> QED  BY <1>1, <1>3, <1>4, ClearCounted

LEMMA CallPropagateCounted ==
    ASSUME Sound, Counted, NEW h0 \in Hooks, CallPropagate(h0) PROVE Counted'
<1>1. PICK x : x = target[h0]  OBVIOUS
<1> DEFINE dead == IF Suicide /\ hook[x] # "emptied" THEN {h0, x} ELSE {h0}
           w    == EmptyWaiting(waiting, h0)
           s    == EmptyStack(Taken, h0)
           D    == dead \cap Owners
<1>2. /\ NextCell(h0) /\ hook[h0] = "propagate"
      /\ cleanup' = (cleanup \/ h0 \in multi \/ x \in dead)
      /\ hook' = [c \in Hooks |-> IF c \in dead THEN "emptied" ELSE hook[c]]
      /\ timers' = timers \ dead /\ multi' = multi \ dead
      /\ waiting' = IF x \in dead THEN EmptyWaiting(w, x) ELSE w
      /\ stack' = IF x \in dead THEN EmptyStack(s, x) ELSE s
  BY <1>1 DEF CallPropagate
<1>3. x \in Hooks \cup {None} /\ h0 \in Owners /\ h0 \in Alive
  BY <1>1, <1>2, SoundTypes, Names, AliveCells
<1>4. /\ s \in Seq(Frames)
      /\ \A c \in Owners : /\ Sole(waiting, stack, c) => Sole(w, s, c)
                           /\ Absent(waiting, stack, c) => Absent(w, s, c)
      /\ \A h : Runs(s, h) => Runs(stack, h)
      /\ Absent(waiting, Taken, h0) =>
            /\ \A p : Queued(w, Emptied, p) => Queued(waiting, Emptied, p)
            /\ ~Runs(s, h0)
  BY <1>2, <1>3, EmptiedCounted
<1>5. h0 \in multi \/ Absent(waiting, Taken, h0)
  <2>1. Sole(waiting, stack, h0) => Absent(waiting, Taken, h0)
    BY <1>2, SoundTypes, SoleTaken
  <2> QED  BY <1>3, <2>1 DEF Counted
<1>6. x \in dead \/ dead = {h0}  OBVIOUS
<1> HIDE DEF dead, w, s
<1>7. ASSUME NEW c \in Owners PROVE Tracked(c)
  <2>1. /\ Sole(w, s, c) => Sole(EmptyWaiting(w, x), EmptyStack(s, x), c)
        /\ Absent(w, s, c) => Absent(EmptyWaiting(w, x), EmptyStack(s, x), c)
    BY <1>4, SoleEmpty
  <2> QED  BY <1>2, <1>4, <2>1 DEF Tracked
<1>8. /\ D \in SUBSET Owners /\ multi' = multi \ D /\ timers' \subseteq timers
      /\ \A h \in Hooks : h \in D <=> h \in dead
      /\ \A t \in D : t \notin Tasks
  <2>1. multi \in SUBSET Owners  BY DEF Sound
  <2>2. dead \subseteq {h0, x}  BY DEF dead
  <2>3. \A t \in dead : t \notin Tasks  BY <1>3, <2>2, Names
  <2>4. \A h \in Hooks : h \in Owners  BY Names
  <2> QED  BY <1>2, <2>1, <2>3, <2>4
<1> HIDE DEF D
<1>9. hook' = [h \in Hooks |-> IF h \in D THEN "emptied" ELSE hook[h]]  BY <1>2, <1>8
<1>10. \/ cleanup'
       \/ /\ \A p : Queued(waiting', Emptied, p) => Queued(waiting, Emptied, p)
          /\ \A h \in Hooks : Runs(stack', h) =>
                h \notin D /\ (Runs(stack, h) \/ (h \notin multi /\ hook[h] # "emptied"))
  <2> SUFFICES ASSUME ~cleanup'
               PROVE  /\ \A p : Queued(waiting', Emptied, p) => Queued(waiting, Emptied, p)
                      /\ \A h \in Hooks : Runs(stack', h) => h \notin D /\ Runs(stack, h)
    OBVIOUS
  <2>1. x \notin dead /\ h0 \notin multi  BY <1>2
  <2>2. Absent(waiting, Taken, h0) /\ dead = {h0} /\ waiting' = w /\ stack' = s
    BY <1>2, <1>5, <1>6, <2>1
  <2> QED  BY <1>4, <1>8, <2>2
<1>11. cleanup => cleanup'  BY <1>2
<1> QED  BY <1>7, <1>8, <1>9, <1>10, <1>11, CountedStep

LEMMA ParseStepCounted == ASSUME Sound, Alone, Counted, ParseStep PROVE Counted'
<1>1. CASE SkipEmptied
  <2>1. /\ NextCell(Emptied) /\ stack' = Taken /\ waiting' = waiting
        /\ timers' = timers /\ multi' = multi /\ hook' = hook /\ cleanup' = cleanup
    BY <1>1 DEF SkipEmptied, cells
  <2>2. \A c : /\ Sole(waiting, stack, c) => Sole(waiting, Taken, c)
               /\ Absent(waiting, stack, c) => Absent(waiting, Taken, c)
               /\ \A h : Runs(Taken, h) => Runs(stack, h)
    BY <2>1, SoundTypes, SoleTaken
  <2>3. Moved(waiting, stack)  BY <2>1, <2>2 DEF Moved
  <2> QED  BY <2>1, <2>3, MovedCounted
<1>2. CASE EndQueue
  <2>1. timers' = timers /\ multi' = multi /\ hook' = hook /\ cleanup' = cleanup
    BY <1>2 DEF EndQueue, cells
  <2> QED  BY <1>2, <2>1, EndQueueMoved, MovedCounted
<1> QED  BY <1>1, <1>2, WakeTaskCounted, CallHookCounted, CallSigRunCounted,
            CallSigRunOnceCounted, CallPropagateCounted DEF ParseStep

LEMMA LoopStepCounted == ASSUME Sound, Counted, LoopStep PROVE Counted'
<1>0. Table(waiting, Entries) /\ stack \in Seq(Frames)  BY SoundTypes
<1>1. CASE StartLoop \/ TimersDone \/ SelectDone
  <2>1. /\ waiting' = waiting /\ stack' = stack
        /\ timers' = timers /\ multi' = multi /\ hook' = hook /\ cleanup' = cleanup
    BY <1>1 DEF StartLoop, TimersDone, SelectDone, cells
  <2> QED  BY <2>1, QuietCounted
<1>2. ASSUME NEW c, TimerTask(c) \/ TimerHook(c) \/ TimerRun(c) PROVE FALSE
  BY <1>2 DEF TimerTask, TimerHook, TimerRun, Counted
<1>3. CASE StepDone
  <2>1. /\ stack = <<>> /\ stack' = stack /\ cleanup' = FALSE
        /\ waiting' = IF cleanup THEN Collected(waiting, stack) ELSE waiting
        /\ timers' = timers /\ multi' = multi /\ hook' = hook
    BY <1>3 DEF StepDone, Loop
  <2>2. ASSUME NEW c
        PROVE  /\ Sole(waiting, stack, c) => Sole(waiting', stack', c)
               /\ Absent(waiting, stack, c) => Absent(waiting', stack', c)
               /\ cleanup => \A p : ~Queued(waiting', Emptied, p)
    BY <1>0, <2>1, SoleCollected
  <2>3. \A h : ~Runs(stack', h)
    <3>1. DOMAIN stack = {}  BY <2>1, EmptySeq
    <3> QED  BY <2>1, <3>1 DEF Runs, Called
  <2>4. Noticed(stack', hook', multi', cleanup')  BY <2>3 DEF Noticed
  <2>5. Remembered(waiting', cleanup')  BY <2>1, <2>2 DEF Remembered, Counted
  <2>6. Alive' = Alive  BY <2>1, AliveKept
  <2>7. \A h \in Hooks : h \in Owners  BY Names
  <2> QED  BY <2>1, <2>2, <2>4, <2>5, <2>6, <2>7 DEF Counted
<1>4. CASE Resume
  <2>1. /\ ready # <<>> /\ ready \in Seq(Tasks)
        /\ timers' = timers /\ multi' = multi /\ hook' = hook /\ cleanup' = cleanup
    BY <1>4, SoundTypes DEF Resume, cells
  <2>2. PICK t \in Tasks : t = Head(ready)  BY <2>1, HeadTailProperties
  <2>3. \/ waiting' = waiting /\ stack' = stack
        \/ Emit(t, Die, FALSE, waiting, stack)
    BY <1>4, <2>2 DEF Resume
  <2> QED  BY <2>1, <2>3, Names, QuietCounted, EmitCounted
<1>5. ASSUME NEW em \in Objects, NEW ev \in Events, LoopSignal(em, ev) PROVE Counted'
  <2>1. em \in Emitters /\ ev \in Keys  BY DEF Emitters, Keys
  <2>2. /\ Emit(em, ev, FALSE, waiting, stack)
        /\ timers' = timers /\ multi' = multi /\ hook' = hook /\ cleanup' = cleanup
    BY <1>5 DEF LoopSignal, cells
  <2> QED  BY <2>1, <2>2, EmitCounted
<1> QED  BY <1>1, <1>2, <1>3, <1>4, <1>5 DEF LoopStep

LEMMA NextCounted ==
    ASSUME Thrifty, Sound, Placed, Counted, [Next]_vars PROVE Counted'
<1>0. Alone  BY DEF Placed
<1>1. CASE UNCHANGED vars
  <2>1. /\ waiting' = waiting /\ stack' = stack
        /\ timers' = timers /\ multi' = multi /\ hook' = hook /\ cleanup' = cleanup
    BY <1>1 DEF vars
  <2> QED  BY <2>1, QuietCounted
<1>2. CASE Next
  BY <1>0, <1>2, TaskCallCounted, AnyCallCounted, HookCallCounted, ParseStepCounted,
     LoopStepCounted DEF Next
<1> QED  BY <1>1, <1>2

LEMMA InitCounted == ASSUME Init PROVE Counted
<1>1. /\ stack = <<>> /\ DOMAIN waiting = {} /\ DOMAIN <<>> = {} /\ timers = {} /\ multi = {}
  BY EmptySeq DEF Init
<1>2. \A c : Absent(waiting, stack, c)  BY <1>1 DEF Absent, Queued
<1>3. Noticed(stack, hook, multi, cleanup)  BY <1>1 DEF Noticed, Runs, Called
<1>4. Remembered(waiting, cleanup)  BY <1>1 DEF Remembered, Queued
<1> QED  BY <1>1, <1>2, <1>3, <1>4, AbsentSole DEF Counted

(* A cell which is not marked multi is in one place at most: a queue, the  *)
(* list of a call, or running. The cells of hooks that were never          *)
(* registered are nowhere, and a hook that runs while its cell is marked,  *)
(* or has been emptied, has set CLEANUP_REQUIRED (sched/init.lua:593, 1128).*)
THEOREM CountedInvariant == ASSUME Thrifty PROVE Spec => []Counted
<1>1. Careful  BY DEF Thrifty
<1>2. Spec => []Placed  BY <1>1, PlacedInvariant
<1>3. Init => Counted  BY InitCounted
<1>4. Sound /\ Placed /\ Counted /\ [Next]_vars => Counted'  BY NextCounted
<1> QED  BY <1>2, <1>3, <1>4, SoundInvariant, PTL DEF Spec

(* "It is triggered automatically when it's needed" (sched/init.lua:1075): *)
(* no emptied cell is left in the table without CLEANUP_REQUIRED, in       *)
(* programs without delays which do not kill blocked tasks. In the others  *)
(* a cell is emptied by a timer or by its task's wait(), which sets        *)
(* nothing.                                                                *)
THEOREM CleanupKept == ASSUME Thrifty PROVE Spec => []CleanupRemembered
<1>1. Sound /\ Counted => CleanupRemembered
  <2> SUFFICES ASSUME Sound, Counted, NEW p \in DOMAIN waiting, Count(waiting[p], Emptied) > 0
               PROVE  cleanup
    BY DEF CleanupRemembered
  <2>1. waiting[p] \in Seq(Entries)  BY SoundTypes DEF Table
  <2>2. Queued(waiting, Emptied, p)
    <3> SUFFICES ASSUME ~InList(waiting[p], Emptied) PROVE FALSE  BY DEF Queued
    <3>1. {i \in DOMAIN waiting[p] : waiting[p][i] = Emptied} = {}  BY DEF InList
    <3> QED  BY <3>1, FS_EmptySet DEF Count
  <2> QED  BY <2>2 DEF Counted, Remembered
<1> QED  BY <1>1, SoundInvariant, CountedInvariant, PTL

-----------------------------------------------------------------------------
(* The refinement of TaskLife. What follows is about what a signal in      *)
(* progress has taken and has yet to do.                                   *)

\* The call f, when it goes on, will find the cell of t in a queue.
Finds(w, f, t) == \/ InList(f.todo, t)
                  \/ f.key = Star /\ f.att # "none" /\ Queued(w, t, <<f.em, f.ev>>)
Hit(w, s, t) == \E j \in DOMAIN s : Finds(w, s[j], t)

\* No task waits in the slot p.
Free(w, p) == \A t \in Tasks : ~Queued(w, t, p)

\* A timer calls a hook; a signal has taken the tasks out of the queue it
\* parses, and out of all those of its emitter once its row is detached.
Fits(w, f) ==
    IF f.key = Timeout
    THEN f.who \in Hooks /\ f.woken = <<>> /\ \A t \in Tasks : ~InList(f.todo, t)
    ELSE /\ f.ev \notin {Star, Timeout} /\ Free(w, SlotOf(f))
         /\ f.att = "none" => \A k \in Keys : Free(w, <<f.em, k>>)

Parsed(w, s) == \A j \in DOMAIN s : Fits(w, s[j])

\* A task with a delay waits in the slot of a delay.
Booked(w, T) == \A t \in Tasks \cap T : \E em \in Emitters : Queued(w, t, <<em, Timeout>>)

\* A task that lives waits, or is ready, or is to be made ready.
Found == \A t \in Tasks : co[t] \in {"created", "suspended"} =>
            HasCell(t) \/ InList(ready, t) \/ Woken(stack, t)

\* No task comes where a signal in progress would lose or miss it.
Apart == Parsed(waiting, stack) /\ Booked(waiting, timers)

\* The tasks of T wait, or are about to be woken, as before.
Steady(T, w1, s1, w, s) ==
    /\ \A t \in T : /\ Hit(w1, s1, t) <=> Hit(w, s, t)
                    /\ ~Hit(w, s, t) => \A p : Queued(w1, t, p) <=> Queued(w, t, p)
                    /\ \A em : Queued(w1, t, <<em, Timeout>>) <=> Queued(w, t, <<em, Timeout>>)
    /\ Parsed(w, s) => Parsed(w1, s1)

\* The calls of r are those of s, with the tasks of T in the same lists.
Like(T, r, s) ==
    /\ DOMAIN r = DOMAIN s
    /\ \A j \in DOMAIN s :
          /\ r[j].em = s[j].em /\ r[j].ev = s[j].ev /\ r[j].key = s[j].key
          /\ r[j].att = "none" <=> s[j].att = "none"
          /\ s[j].key = Timeout /\ s[j].who \in Hooks => r[j].who \in Hooks
          /\ s[j].key = Timeout => r[j].woken = s[j].woken
          /\ \A t \in T : InList(r[j].todo, t) <=> InList(s[j].todo, t)
          /\ \A t \in Tasks : InList(r[j].todo, t) => InList(s[j].todo, t)

-----------------------------------------------------------------------------
(* Stacks and tables, for the tasks *)

(* Steps that leave tasks steady follow each other. *)
LEMMA SteadyTwice ==
    ASSUME NEW T, NEW w, NEW s, NEW w1, NEW s1, NEW w2, NEW s2,
           Steady(T, w1, s1, w, s), Steady(T, w2, s2, w1, s1)
    PROVE  Steady(T, w2, s2, w, s)
BY DEF Steady

(* The same calls over the same cells of tasks. *)
LEMMA LikeSteady ==
    ASSUME NEW T \in SUBSET Tasks, NEW s, NEW r, Like(T, r, s), NEW w, NEW w1,
           \A t \in T : \A p : Queued(w1, t, p) <=> Queued(w, t, p),
           \A t \in Tasks : \A p : Queued(w1, t, p) => Queued(w, t, p)
    PROVE  Steady(T, w1, r, w, s)
<1>1. \A t \in T : Hit(w1, r, t) <=> Hit(w, s, t)  BY DEF Like, Hit, Finds
<1>2. ASSUME Parsed(w, s), NEW j \in DOMAIN s PROVE Fits(w1, r[j])
  <2>1. Fits(w, s[j])  BY <1>2 DEF Parsed
  <2>2. \A p : Free(w, p) => Free(w1, p)  BY DEF Free
  <2>3. /\ r[j].em = s[j].em /\ r[j].ev = s[j].ev /\ r[j].key = s[j].key
        /\ r[j].att = "none" <=> s[j].att = "none"
        /\ s[j].key = Timeout /\ s[j].who \in Hooks => r[j].who \in Hooks
        /\ s[j].key = Timeout => r[j].woken = s[j].woken
        /\ \A t \in Tasks : InList(r[j].todo, t) => InList(s[j].todo, t)
    BY DEF Like
  <2>4. SlotOf(r[j]) = SlotOf(s[j])  BY <2>3 DEF SlotOf
  <2> HIDE DEF SlotOf
  <2>5. CASE s[j].key = Timeout  BY <2>1, <2>3, <2>5 DEF Fits
  <2>6. CASE s[j].key # Timeout  BY <2>1, <2>2, <2>3, <2>4, <2>6 DEF Fits
  <2> QED  BY <2>5, <2>6
<1>3. Parsed(w, s) => Parsed(w1, r)  BY <1>2 DEF Parsed, Like
<1> QED  BY <1>1, <1>3 DEF Steady

(* What a call adds to the stack under it. *)
LEMMA ConsHit ==
    ASSUME NEW u \in Seq(Frames), NEW f \in Frames
    PROVE  /\ \A w, t : Hit(w, <<f>> \o u, t) <=> Finds(w, f, t) \/ Hit(w, u, t)
           /\ \A w : Parsed(w, <<f>> \o u) <=> Fits(w, f) /\ Parsed(w, u)
<1> DEFINE r == <<f>> \o u
<1>1. /\ DOMAIN r = 1 .. Len(u) + 1 /\ DOMAIN u = 1 .. Len(u) /\ Len(u) \in Nat
      /\ r[1] = f /\ \A j \in DOMAIN u : r[j + 1] = u[j]
  BY Consed
<1> HIDE DEF r
<1>2. 1 \in DOMAIN r /\ \A j \in DOMAIN u : j + 1 \in DOMAIN r
  BY <1>1
<1>3. \A j \in DOMAIN r : j = 1 \/ \E i \in DOMAIN u : j = i + 1
  <2> SUFFICES ASSUME NEW j \in DOMAIN r, j # 1 PROVE \E i \in DOMAIN u : j = i + 1
    OBVIOUS
  <2>1. j - 1 \in DOMAIN u /\ j = (j - 1) + 1  BY <1>1
  <2> QED  BY <2>1
<1>4. \A w, t : Hit(w, r, t) <=> Finds(w, f, t) \/ Hit(w, u, t)
  <2> TAKE w, t
  <2> DEFINE P(g) == Finds(w, g, t)
  <2>1. (\E j \in DOMAIN r : P(r[j])) <=> P(f) \/ \E j \in DOMAIN u : P(u[j])
    <3> HIDE DEF P
    <3> QED  BY <1>1, <1>2, <1>3
  <2> QED  BY <2>1 DEF Hit
<1>5. \A w : Parsed(w, r) <=> Fits(w, f) /\ Parsed(w, u)
  <2> TAKE w
  <2> DEFINE P(g) == Fits(w, g)
  <2>1. (\A j \in DOMAIN r : P(r[j])) <=> P(f) /\ \A j \in DOMAIN u : P(u[j])
    <3> HIDE DEF P
    <3> QED  BY <1>1, <1>2, <1>3
  <2> QED  BY <2>1 DEF Parsed
<1> QED  BY <1>4, <1>5 DEF r

(* Another call on top of the same stack. *)
LEMMA HeadSteady ==
    ASSUME NEW T \in SUBSET Tasks, NEW u \in Seq(Frames), NEW f \in Frames, NEW g \in Frames,
           g.em = f.em, g.ev = f.ev, g.key = f.key, g.att = "none" <=> f.att = "none",
           f.key = Timeout /\ f.who \in Hooks => g.who \in Hooks,
           f.key = Timeout => g.woken = f.woken,
           \A t \in T : InList(g.todo, t) <=> InList(f.todo, t),
           \A t \in Tasks : InList(g.todo, t) => InList(f.todo, t),
           NEW w
    PROVE  Steady(T, w, <<g>> \o u, w, <<f>> \o u)
<1>1. \A t \in T : Finds(w, g, t) <=> Finds(w, f, t)  BY DEF Finds
<1>2. SlotOf(g) = SlotOf(f)  BY DEF SlotOf
<1>3. Fits(w, f) => Fits(w, g)
  <2> HIDE DEF SlotOf
  <2>1. CASE f.key = Timeout  BY <2>1 DEF Fits
  <2>2. CASE f.key # Timeout  BY <1>2, <2>2 DEF Fits
  <2> QED  BY <2>1, <2>2
<1>4. \A t : Hit(w, <<g>> \o u, t) <=> Finds(w, g, t) \/ Hit(w, u, t)  BY ConsHit
<1>5. \A t : Hit(w, <<f>> \o u, t) <=> Finds(w, f, t) \/ Hit(w, u, t)  BY ConsHit
<1>6. Parsed(w, <<g>> \o u) <=> Fits(w, g) /\ Parsed(w, u)  BY ConsHit
<1>7. Parsed(w, <<f>> \o u) <=> Fits(w, f) /\ Parsed(w, u)  BY ConsHit
<1> DEFINE r == <<g>> \o u
           s == <<f>> \o u
<1> HIDE DEF r, s
<1>8. Steady(T, w, r, w, s)
  <2>1. \A t \in T : Hit(w, r, t) <=> Hit(w, s, t)  BY <1>1, <1>4, <1>5 DEF r, s
  <2>2. Parsed(w, s) => Parsed(w, r)  BY <1>3, <1>6, <1>7 DEF r, s
  <2> QED  BY <2>1, <2>2 DEF Steady
<1> QED  BY <1>8 DEF r, s

-----------------------------------------------------------------------------
(* Where a cell is queued *)

(* A cell that is registered is queued in its slots. *)
LEMMA RegisterQueued ==
    ASSUME NEW w, Table(w, Entries), NEW c \in Entries, NEW S \in SUBSET Slots
    PROVE  \A x, p : Queued(Register(w, c, S), x, p) <=> Queued(w, x, p) \/ (x = c /\ p \in S)
<1>1. \A x, p : Cell(Register(w, c, S), <<>>, x, p) <=> Cell(w, <<>>, x, p) \/ (x = c /\ p \in S)
  BY RegisterOk
<1> QED  BY <1>1, NilOk DEF Cell

(* The sweep leaves the live cells where they are queued. *)
LEMMA CollectedQueued ==
    ASSUME NEW w, Table(w, Entries), NEW s
    PROVE  \A x, p : Queued(Collected(w, s), x, p) <=> Queued(w, x, p) /\ LiveCell(x)
<1> DEFINE kept == [p \in DOMAIN w |-> Kept(w[p])]
           gone == {p \in DOMAIN w : kept[p] = <<>>}
           w1   == Collected(w, s)
<1>1. w1 = IF Processing(s) THEN kept ELSE Without(kept, gone)  BY DEF Collected
<1>2. DOMAIN kept = DOMAIN w /\ \A p \in DOMAIN w : kept[p] = Kept(w[p])  OBVIOUS
<1>3. \A p \in gone : p \in DOMAIN w /\ kept[p] = <<>>  OBVIOUS
<1> HIDE DEF kept, gone, w1
<1>4. \A x : \A p \in DOMAIN w : InList(kept[p], x) <=> InList(w[p], x) /\ LiveCell(x)
  BY <1>2, KeptIn DEF Table
<1>5. \A x, p : Queued(kept, x, p) <=> Queued(w, x, p) /\ LiveCell(x)
  BY <1>2, <1>4 DEF Queued
<1>6. \A x, p : Queued(Without(kept, gone), x, p) <=> Queued(kept, x, p)
  BY <1>2, <1>3, NilIn DEF Queued, Without
<1>7. \A x, p : Queued(w1, x, p) <=> Queued(w, x, p) /\ LiveCell(x)
  BY <1>1, <1>5, <1>6
<1> QED  BY <1>7 DEF w1

-----------------------------------------------------------------------------
(* What the helpers of the actions do to the tasks *)

(* Nothing moves when nothing changes. *)
LEMMA SteadyNot == \A T, w, s : Steady(T, w, s, w, s)
BY DEF Steady

(* Emptying the cell of c leaves the other tasks where they are. *)
LEMMA EmptySteady ==
    ASSUME NEW w, NEW s \in Seq(Frames), NEW c
    PROVE  LET w1 == EmptyWaiting(w, c)
               s1 == EmptyStack(s, c)
           IN  /\ Steady(Tasks \ {c}, w1, s1, w, s)
               /\ c # Emptied => ~Hit(w1, s1, c) /\ \A p : ~Queued(w1, c, p)
<1> DEFINE w1 == EmptyWaiting(w, c)
           s1 == EmptyStack(s, c)
<1>1. \A x : x # Emptied => \A p : Queued(w1, x, p) <=> Queued(w, x, p) /\ x # c
  <2>1. DOMAIN w1 = DOMAIN w /\ \A p \in DOMAIN w : w1[p] = EmptyIn(w[p], c)
    BY DEF EmptyWaiting
  <2> HIDE DEF w1
  <2> QED  BY <2>1, EmptyInIn DEF Queued
<1>2. /\ DOMAIN s1 = DOMAIN s
      /\ \A j \in DOMAIN s : s[j] \in Frames /\ s1[j] = [s[j] EXCEPT !.todo = EmptyIn(s[j].todo, c)]
  BY DEF EmptyStack
<1>3. \A j \in DOMAIN s :
         /\ s1[j].em = s[j].em /\ s1[j].ev = s[j].ev /\ s1[j].key = s[j].key
         /\ s1[j].att = s[j].att /\ s1[j].who = s[j].who /\ s1[j].woken = s[j].woken
         /\ s1[j].todo = EmptyIn(s[j].todo, c)
  BY <1>2 DEF Frames
<1> HIDE DEF w1, s1
<1>4. \A j \in DOMAIN s : \A x : x # Emptied =>
         (InList(s1[j].todo, x) <=> InList(s[j].todo, x) /\ x # c)
  BY <1>3, EmptyInIn
<1>5. Like(Tasks \ {c}, s1, s)  BY <1>2, <1>3, <1>4, Names DEF Like
<1>6. Steady(Tasks \ {c}, w1, s1, w, s)
  <2>1. \A t \in Tasks \ {c} : \A p : Queued(w1, t, p) <=> Queued(w, t, p)  BY <1>1, Names
  <2>2. \A t \in Tasks : \A p : Queued(w1, t, p) => Queued(w, t, p)  BY <1>1, Names
  <2> QED  BY <1>5, <2>1, <2>2, LikeSteady
<1>7. c # Emptied => ~Hit(w1, s1, c) /\ \A p : ~Queued(w1, c, p)
  BY <1>1, <1>2, <1>4 DEF Hit, Finds
<1> QED  BY <1>6, <1>7 DEF w1, s1

(* Emptying the cell of a hook leaves all the tasks where they are. *)
LEMMA EmptyHookSteady ==
    ASSUME NEW w, NEW s \in Seq(Frames), NEW h \in Hooks
    PROVE  Steady(Tasks, EmptyWaiting(w, h), EmptyStack(s, h), w, s)
<1>1. Tasks \ {h} = Tasks  BY Names
<1> QED  BY <1>1, EmptySteady

(* So does registering it. *)
LEMMA RegisterSteady ==
    ASSUME NEW w, Table(w, Entries), NEW c \in Entries \ Tasks, NEW S \in SUBSET Slots, NEW s
    PROVE  Steady(Tasks, Register(w, c, S), s, w, s)
<1> DEFINE w1 == Register(w, c, S)
<1>1. \A t \in Tasks : \A p : Queued(w1, t, p) <=> Queued(w, t, p)
  BY RegisterQueued
<1> HIDE DEF w1
<1>2. Like(Tasks, s, s)  BY DEF Like
<1>3. Steady(Tasks, w1, s, w, s)  BY <1>1, <1>2, LikeSteady
<1> QED  BY <1>3 DEF w1

(* So does reattaching it. *)
LEMMA ReattachSteady ==
    ASSUME NEW w, Table(w, Entries), NEW c \in Entries \ Tasks, NEW s \in Seq(Frames), s # <<>>,
           Reattach(c, w, s)
    PROVE  Steady(Tasks, waiting', stack', w, s)
<1> DEFINE f == Head(s)
           u == Tail(s)
           p == <<f.em, f.key>>
<1>1. f \in Frames /\ u \in Seq(Frames) /\ s = <<f>> \o u  BY TopOk
<1>2. CASE f.att = "queue"
  <2>1. waiting' = [w EXCEPT ![p] = Append(w[p], c)] /\ stack' = s
    BY <1>2 DEF Reattach
  <2> HIDE DEF p
  <2>2. \A p1 \in DOMAIN w : w[p1] \in Seq(Entries)  BY DEF Table
  <2>3. DOMAIN waiting' = DOMAIN w /\ \A p1 \in DOMAIN w :
          waiting'[p1] = IF p1 = p THEN Append(w[p1], c) ELSE w[p1]
    BY <2>1
  <2>4. \A t \in Tasks : \A p1 : Queued(waiting', t, p1) <=> Queued(w, t, p1)
    <3>1. \A x : \A p1 \in DOMAIN w : InList(Append(w[p1], c), x) <=> InList(w[p1], x) \/ x = c
      BY <2>2, AppendIn
    <3> QED  BY <2>3, <3>1 DEF Queued
  <2>5. Like(Tasks, s, s)  BY DEF Like
  <2>6. Steady(Tasks, waiting', s, w, s)  BY <2>4, <2>5, LikeSteady
  <2> QED  BY <2>1, <2>6
<1>3. CASE f.att # "queue"
  <2> DEFINE g == [f EXCEPT !.full = TRUE]
  <2>1. waiting' = w /\ stack' = <<g>> \o u  BY <1>3 DEF Reattach
  <2>2. /\ g \in Frames /\ g.em = f.em /\ g.ev = f.ev /\ g.key = f.key /\ g.att = f.att
        /\ g.who = f.who /\ g.todo = f.todo /\ g.woken = f.woken
    BY <1>1 DEF Frames
  <2> HIDE DEF g, f, u
  <2>3. Steady(Tasks, w, <<g>> \o u, w, <<f>> \o u)  BY <1>1, <2>2, HeadSteady
  <2> QED  BY <1>1, <2>1, <2>3
<1> QED  BY <1>2, <1>3

(* So does passing over it in the list that is parsed. *)
LEMMA TakenSteady ==
    ASSUME stack \in Seq(Frames), NEW c, NextCell(c)
    PROVE  LET f == Head(stack)
               g == [f EXCEPT !.todo = Tail(f.todo)]
           IN  /\ Taken = <<g>> \o Tail(stack) /\ g \in Frames /\ Tail(stack) \in Seq(Frames)
               /\ g.em = f.em /\ g.ev = f.ev /\ g.key = f.key /\ g.att = f.att /\ g.who = None
               /\ g.woken = f.woken /\ f.who = None /\ stack # <<>>
               /\ InList(f.todo, c)
               /\ \A w : Steady(Tasks \ {c}, w, Taken, w, stack)
<1> DEFINE f == Head(stack)
           u == Tail(stack)
           g == [f EXCEPT !.todo = Tail(f.todo)]
<1>1. stack # <<>> /\ f.who = None /\ f.todo # <<>> /\ Head(f.todo) = c
  BY DEF NextCell, Parsing
<1>2. f \in Frames /\ u \in Seq(Frames) /\ stack = <<f>> \o u  BY <1>1, TopOk
<1>3. f.todo \in Seq(Entries)  BY <1>2 DEF Frames
<1>4. Tail(f.todo) \in Seq(Entries) /\ \A x : InList(f.todo, x) <=> x = c \/ InList(Tail(f.todo), x)
  BY <1>1, <1>3, TailIn
<1>5. /\ g \in Frames /\ g.em = f.em /\ g.ev = f.ev /\ g.key = f.key /\ g.att = f.att
      /\ g.who = f.who /\ g.woken = f.woken /\ g.todo = Tail(f.todo)
  BY <1>2, <1>4 DEF Frames
<1>6. Taken = <<g>> \o u  BY DEF Taken
<1> HIDE DEF f, g, u
<1>7. \A w : Steady(Tasks \ {c}, w, <<g>> \o u, w, <<f>> \o u)
  BY <1>2, <1>4, <1>5, HeadSteady
<1>8. \A w : Steady(Tasks \ {c}, w, Taken, w, stack)  BY <1>2, <1>6, <1>7
<1> QED  BY <1>1, <1>2, <1>4, <1>5, <1>6, <1>8 DEF f, g, u

(* The sweep keeps the cells of the tasks that live. *)
LEMMA CollectedSteady ==
    ASSUME Sound, Alone
    PROVE  Steady(Tasks, Collected(waiting, stack), stack, waiting, stack)
<1> DEFINE w1 == Collected(waiting, stack)
<1>1. Table(waiting, Entries)  BY SoundTypes
<1>2. \A x, p : Queued(w1, x, p) <=> Queued(waiting, x, p) /\ LiveCell(x)
  BY <1>1, CollectedQueued
<1> HIDE DEF w1
<1>3. \A t \in Tasks : \A p : Queued(waiting, t, p) => LiveCell(t)
  <2> SUFFICES ASSUME NEW t \in Tasks, NEW p, Queued(waiting, t, p) PROVE LiveCell(t)
    OBVIOUS
  <2>1. HasCell(t)  BY HasCellOk DEF Cell
  <2>2. co[t] = "suspended"  BY <2>1 DEF Alone
  <2> QED  BY <2>2, Names DEF LiveCell
<1>4. \A t \in Tasks : \A p : Queued(w1, t, p) <=> Queued(waiting, t, p)  BY <1>2, <1>3
<1>5. Like(Tasks, stack, stack)  BY DEF Like
<1>6. Steady(Tasks, w1, stack, waiting, stack)  BY <1>4, <1>5, LikeSteady
<1> QED  BY <1>6 DEF w1

-----------------------------------------------------------------------------
(* What a signal does to the tasks *)

(* Detaching calls from the queue of a slot leaves them as they are. *)
LEMMA DisplaceLike ==
    ASSUME NEW s \in Seq(Frames), NEW p, NEW q
    PROVE  LET r == Displace(s, p, q)
           IN  /\ DOMAIN r = DOMAIN s
               /\ \A j \in DOMAIN s :
                     /\ r[j].em = s[j].em /\ r[j].ev = s[j].ev /\ r[j].key = s[j].key
                     /\ r[j].todo = s[j].todo /\ r[j].who = s[j].who /\ r[j].woken = s[j].woken
                     /\ r[j].att = "none" <=> s[j].att = "none"
<1> DEFINE r == Displace(s, p, q)
           b == q # <<>>
<1>1. DOMAIN r = DOMAIN s /\ \A j \in DOMAIN s : s[j] \in Frames
  BY DEF Displace
<1>2. \A j \in DOMAIN s : r[j] = IF <<s[j].em, s[j].key>> = p /\ s[j].att = "queue"
                                 THEN [s[j] EXCEPT !.att = "row", !.full = b] ELSE s[j]
  BY DEF Displace
<1> HIDE DEF r, b
<1>3. ASSUME NEW j \in DOMAIN s
      PROVE  /\ r[j].em = s[j].em /\ r[j].ev = s[j].ev /\ r[j].key = s[j].key
             /\ r[j].todo = s[j].todo /\ r[j].who = s[j].who /\ r[j].woken = s[j].woken
             /\ r[j].att = "none" <=> s[j].att = "none"
  <2>1. CASE <<s[j].em, s[j].key>> = p /\ s[j].att = "queue"
    <3>1. r[j] = [s[j] EXCEPT !.att = "row", !.full = b]  BY <1>2, <2>1
    <3> QED  BY <1>1, <2>1, <3>1 DEF Frames
  <2>2. CASE ~(<<s[j].em, s[j].key>> = p /\ s[j].att = "queue")
    <3>1. r[j] = s[j]  BY <1>2, <2>2
    <3> QED  BY <3>1
  <2> QED  BY <2>1, <2>2
<1> QED  BY <1>1, <1>3 DEF r

(* A call that starts to parse a queue has found the tasks in it, and will *)
(* find those in the queue of its event.                                   *)
LEMMA CallSteady ==
    ASSUME NEW w, NEW s \in Seq(Frames), NEW f \in Frames,
           f.att = "queue", f.key # Timeout, f.ev \notin {Star, Timeout}, f.who = None,
           SlotOf(f) \in DOMAIN w, f.todo = w[SlotOf(f)]
    PROVE  LET p  == SlotOf(f)
               s1 == <<f>> \o Displace(s, p, w[p])
               w1 == [w EXCEPT ![p] = <<>>]
           IN  /\ \A x, p1 : Queued(w1, x, p1) <=> Queued(w, x, p1) /\ p1 # p
               /\ \A t : Hit(w1, s1, t) <=> \/ Hit(w, s, t) \/ Queued(w, t, p)
                                            \/ f.key = Star /\ Queued(w, t, <<f.em, f.ev>>)
               /\ Parsed(w, s) => Parsed(w1, s1)
<1> DEFINE p  == SlotOf(f)
           d  == Displace(s, p, w[p])
           s1 == <<f>> \o d
           w1 == [w EXCEPT ![p] = <<>>]
<1>1. /\ DOMAIN d = DOMAIN s
      /\ \A j \in DOMAIN s :
            /\ d[j].em = s[j].em /\ d[j].ev = s[j].ev /\ d[j].key = s[j].key
            /\ d[j].todo = s[j].todo /\ d[j].who = s[j].who /\ d[j].woken = s[j].woken
            /\ d[j].att = "none" <=> s[j].att = "none"
  BY DisplaceLike
<1>2. d \in Seq(Frames)
  <2>1. Calling(d, s)  BY DisplaceOk
  <2> QED  BY <2>1 DEF Calling
<1>3. \A x, p1 : Queued(w1, x, p1) <=> Queued(w, x, p1) /\ p1 # p  BY NilIn DEF Queued
<1> HIDE DEF d, w1
<1>4. /\ \A t : Hit(w1, s1, t) <=> Finds(w1, f, t) \/ Hit(w1, d, t)
      /\ Parsed(w1, s1) <=> Fits(w1, f) /\ Parsed(w1, d)
  BY <1>2, ConsHit
<1>5. p = <<f.em, f.key>> /\ \A x : Queued(w, x, p) <=> InList(f.todo, x)  BY DEF SlotOf, Queued
<1> HIDE DEF p, s1
<1>6. \A t : Finds(w1, f, t) <=> \/ Queued(w, t, p)
                                 \/ f.key = Star /\ Queued(w, t, <<f.em, f.ev>>)
  BY <1>3, <1>5 DEF Finds
<1>7. \A t : Hit(w1, d, t) => Hit(w, s, t)  BY <1>1, <1>3 DEF Hit, Finds
<1>8. \A t : Hit(w, s, t) => Hit(w1, d, t) \/ Queued(w, t, p)
  BY <1>1, <1>3 DEF Hit, Finds
<1>9. ASSUME Parsed(w, s) PROVE Parsed(w1, s1)
  <2>1. Fits(w1, f)  BY <1>3 DEF Fits, Free, p
  <2>2. Like(Tasks, d, s)  BY <1>1 DEF Like
  <2>3. ASSUME NEW j \in DOMAIN s PROVE Fits(w1, d[j])
    <3>1. Fits(w, s[j])  BY <1>9 DEF Parsed
    <3>2. \A p1 : Free(w, p1) => Free(w1, p1)  BY <1>3 DEF Free
    <3>3. SlotOf(d[j]) = SlotOf(s[j])  BY <1>1 DEF SlotOf
    <3> HIDE DEF SlotOf
    <3>4. CASE s[j].key = Timeout  BY <1>1, <3>1, <3>4 DEF Fits
    <3>5. CASE s[j].key # Timeout  BY <1>1, <3>1, <3>2, <3>3, <3>5 DEF Fits
    <3> QED  BY <3>4, <3>5
  <2>4. Parsed(w1, d)  BY <1>1, <2>3 DEF Parsed
  <2> QED  BY <1>4, <2>1, <2>4
<1> QED  BY <1>3, <1>4, <1>6, <1>7, <1>8, <1>9 DEF p, d, s1, w1

\* The task t waits, and no call in progress is about to find it.
Out(w, s, t) == (\E p : Queued(w, t, p)) /\ ~Hit(w, s, t)

\* A signal (em, ev) finds the cell of t.
Matched(w, t, em, ev) == Queued(w, t, <<em, Star>>) \/ Queued(w, t, <<em, ev>>)

(* A signal finds the tasks that wait for it, and leaves the others.       *)
LEMMA EmitWakes ==
    ASSUME NEW em \in Emitters, NEW ev \in Keys \ {Star, Timeout}, NEW slain \in BOOLEAN,
           NEW w, Table(w, Entries), NEW s \in Seq(Frames), Emit(em, ev, slain, w, s)
    PROVE  /\ \A t \in Tasks :
                 /\ Out(waiting', stack', t) <=> Out(w, s, t) /\ ~Matched(w, t, em, ev)
                 /\ ~Hit(waiting', stack', t) =>
                       \A p : Queued(waiting', t, p) <=> Queued(w, t, p)
                 /\ \A em1 : Queued(waiting', t, <<em1, Timeout>>) <=> Queued(w, t, <<em1, Timeout>>)
           /\ \A x, p : Queued(waiting', x, p) => Queued(w, x, p)
           /\ Parsed(w, s) => Parsed(waiting', stack')
<1> DEFINE queues == {k \in {Star, ev} : <<em, k>> \in DOMAIN w}
           key == IF Star \in queues THEN Star ELSE ev
           p == <<em, key>>
           f == NewFrame(em, ev, slain, key, w[p], "queue", None)
<1>1. CASE queues = {}
  <2>1. waiting' = w /\ stack' = s  BY <1>1 DEF Emit
  <2>2. \A t : ~Matched(w, t, em, ev)  BY <1>1 DEF Matched, Queued
  <2> HIDE DEF queues
  <2> QED  BY <2>1, <2>2
<1>2. CASE queues # {}
  <2>1. /\ p \in DOMAIN w /\ key \in Keys /\ key # Timeout
        /\ key = Star \/ (key = ev /\ <<em, Star>> \notin DOMAIN w)
    BY <1>2, EventAssumption DEF Keys, Star, Timeout, Die
  <2>2. w[p] \in Seq(Entries)  BY <2>1 DEF Table
  <2>3. /\ waiting' = [w EXCEPT ![p] = <<>>]
        /\ stack' = <<f>> \o Displace(s, p, w[p])
    BY <1>2 DEF Emit
  <2>4. Entries \in SUBSET Entries /\ "queue" \in {"queue", "row", "none"}
        /\ None \in Owners \cup {None} /\ key \in Keys \cup {"resume"}
    BY <2>1
  <2>5. f \in Frames
    <3> HIDE DEF key, f
    <3>1. LET g == NewFrame(em, ev, slain, key, w[p], "queue", None)
          IN  g \in Frames /\ g.todo \in Seq(Entries)
      BY <2>2, <2>4, NewFrameType
    <3> QED  BY <3>1 DEF f
  <2>6. /\ f.who = None /\ f.key = key /\ f.att = "queue" /\ f.em = em /\ f.ev = ev
        /\ SlotOf(f) = p /\ f.todo = w[p]
    BY DEF NewFrame, SlotOf
  <2> HIDE DEF f, key, queues
  <2>7. /\ \A x, p1 : Queued(waiting', x, p1) <=> Queued(w, x, p1) /\ p1 # p
        /\ \A t : Hit(waiting', stack', t) <=> \/ Hit(w, s, t) \/ Queued(w, t, p)
                                               \/ key = Star /\ Queued(w, t, <<em, ev>>)
        /\ Parsed(w, s) => Parsed(waiting', stack')
    <3>1. SlotOf(f) \in DOMAIN w /\ f.todo = w[SlotOf(f)]  BY <2>1, <2>6
    <3>2. f.key # Timeout /\ f.ev \notin {Star, Timeout}  BY <2>1, <2>6
    <3> DEFINE p1 == SlotOf(f)
               s1 == <<f>> \o Displace(s, p1, w[p1])
               w1 == [w EXCEPT ![p1] = <<>>]
    <3>3. /\ \A x, p2 : Queued(w1, x, p2) <=> Queued(w, x, p2) /\ p2 # p1
          /\ \A t : Hit(w1, s1, t) <=> \/ Hit(w, s, t) \/ Queued(w, t, p1)
                                       \/ f.key = Star /\ Queued(w, t, <<f.em, f.ev>>)
          /\ Parsed(w, s) => Parsed(w1, s1)
      BY <2>5, <2>6, <3>1, <3>2, CallSteady
    <3>4. p1 = p  BY <2>6
    <3>5. w1 = waiting' /\ s1 = stack'  BY <2>3, <3>4
    <3> HIDE DEF p1, s1, w1, p
    <3> QED  BY <2>6, <3>3, <3>4, <3>5
  <2>8. \A t : Matched(w, t, em, ev) <=> \/ Queued(w, t, p)
                                         \/ key = Star /\ Queued(w, t, <<em, ev>>)
    <3>1. CASE key = Star  BY <3>1 DEF Matched
    <3>2. CASE key = ev /\ <<em, Star>> \notin DOMAIN w  BY <3>2 DEF Matched, Queued
    <3> QED  BY <2>1, <3>1, <3>2
  <2>9. p # <<em, Timeout>> /\ \A em1 : p # <<em1, Timeout>>  BY <2>1
  <2> HIDE DEF p
  <2>10. \A t : Hit(waiting', stack', t) <=> Hit(w, s, t) \/ Matched(w, t, em, ev)
    BY <2>7, <2>8
  <2>11. ASSUME NEW t, ~Matched(w, t, em, ev), NEW p1
         PROVE  Queued(waiting', t, p1) <=> Queued(w, t, p1)
    BY <2>7, <2>8, <2>11
  <2>12. ASSUME NEW t \in Tasks
         PROVE  /\ Out(waiting', stack', t) <=> Out(w, s, t) /\ ~Matched(w, t, em, ev)
                /\ ~Hit(waiting', stack', t) =>
                      \A p1 : Queued(waiting', t, p1) <=> Queued(w, t, p1)
    BY <2>10, <2>11 DEF Out
  <2> QED  BY <2>7, <2>9, <2>12
<1> QED  BY <1>1, <1>2

(* The end of a queue leaves the tasks where they are: those in the queue  *)
(* of the event are found now, and the queues that are removed hold none.  *)
LEMMA EndQueueSteady ==
    ASSUME Table(waiting, Entries), stack \in Seq(Frames), EndQueue, Parsed(waiting, stack)
    PROVE  Steady(Tasks, waiting', stack', waiting, stack)
<1> DEFINE f     == Head(stack)
           u     == Tail(stack)
           p     == <<f.em, f.key>>
           empty == IF f.att = "queue" THEN waiting[p] = <<>> ELSE ~f.full
           gone  == IF f.att # "none" THEN {p} ELSE {}
           w1    == IF empty THEN Without(waiting, gone) ELSE waiting
           drop  == empty /\ (f.att = "none" \/ RowOf(w1, f.em) = {})
           w     == IF drop THEN Without(w1, RowOf(w1, f.em)) ELSE w1
           cut   == [i \in DOMAIN stack |->
                       IF stack[i].em = f.em
                       THEN [stack[i] EXCEPT !.att = "none"] ELSE stack[i]]
           s     == IF drop THEN cut ELSE stack
           q     == <<f.em, f.ev>>
           more  == f.key = Star /\ q \in DOMAIN w /\ Head(s).att # "none"
           base  == NewFrame(f.em, f.ev, f.slain, f.ev, w[q], "queue", None)
           next  == [base EXCEPT !.woken = f.woken]
<1>1. /\ Parsing /\ f.todo = <<>>
      /\ IF more
         THEN /\ waiting' = [w EXCEPT ![q] = <<>>]
              /\ stack' = <<next>> \o Displace(Tail(s), q, w[q])
         ELSE /\ waiting' = w
              /\ stack' = Tail(s)
  BY ZenonT(60) DEF EndQueue
<1>2. stack # <<>> /\ f.who = None  BY <1>1 DEF Parsing
<1>3. f \in Frames /\ u \in Seq(Frames) /\ stack = <<f>> \o u  BY <1>2, TopOk
<1>4. Fits(waiting, f) /\ Parsed(waiting, u)
  <2> HIDE DEF f, u
  <2> QED  BY <1>3, ConsHit
<1>5. /\ f.key # Timeout /\ f.ev \notin {Star, Timeout} /\ Free(waiting, p)
      /\ f.att = "none" => \A k \in Keys : Free(waiting, <<f.em, k>>)
  BY <1>2, <1>4, Names DEF Fits, SlotOf
<1>6. \A t \in Tasks : \A p1 : Queued(w1, t, p1) <=> Queued(waiting, t, p1)
  <2>1. \A p1 \in gone : p1 = p  OBVIOUS
  <2> HIDE DEF empty, gone, p
  <2>2. CASE empty
    <3>1. w1 = Without(waiting, gone)  BY <2>2
    <3> HIDE DEF w1
    <3>2. DOMAIN w1 = DOMAIN waiting \ gone /\ \A p1 \in DOMAIN w1 : w1[p1] = waiting[p1]
      BY <3>1 DEF Without
    <3> QED  BY <1>5, <2>1, <3>2 DEF Queued, Free
  <2>3. CASE ~empty  BY <2>3
  <2> QED  BY <2>2, <2>3
<1>7. drop => \A k \in Keys : Free(w1, <<f.em, k>>)
  <2> SUFFICES ASSUME drop, NEW k \in Keys PROVE Free(w1, <<f.em, k>>)  OBVIOUS
  <2>1. CASE f.att = "none"
    <3> HIDE DEF w1, f
    <3> QED  BY <1>5, <1>6, <2>1 DEF Free
  <2>2. CASE RowOf(w1, f.em) = {}
    <3>1. <<f.em, k>>[1] = f.em  OBVIOUS
    <3> HIDE DEF w1, f, drop
    <3>2. <<f.em, k>> \notin DOMAIN w1  BY <2>2, <3>1 DEF RowOf
    <3> QED  BY <3>2 DEF Free, Queued
  <2> QED  BY <2>1, <2>2
<1>8. Table(w, Entries)
  <2>1. Table(w1, Entries)  BY WithoutType
  <2> HIDE DEF w1, drop
  <2> QED  BY <2>1, WithoutType
<1>9. /\ \A t \in Tasks : \A p1 : Queued(w, t, p1) <=> Queued(waiting, t, p1)
      /\ ~drop => w = w1
  <2>1. DOMAIN w1 \in SUBSET Slots
    <3>1. Table(w1, Entries)  BY WithoutType
    <3> QED  BY <3>1 DEF Table
  <2>2. CASE drop
    <3>1. w = Without(w1, RowOf(w1, f.em))  BY <2>2
    <3> HIDE DEF w, w1, f, drop
    <3>2. /\ DOMAIN w = DOMAIN w1 \ RowOf(w1, f.em)
          /\ \A p1 \in DOMAIN w : w[p1] = w1[p1]
      BY <3>1 DEF Without
    <3>3. ASSUME NEW t \in Tasks, NEW p1, Queued(w1, t, p1) PROVE p1 \notin RowOf(w1, f.em)
      <4> SUFFICES ASSUME p1 \in RowOf(w1, f.em) PROVE FALSE  OBVIOUS
      <4>1. p1 \in Slots /\ p1[1] = f.em  BY <2>1 DEF RowOf
      <4>2. PICK k \in Keys : p1 = <<f.em, k>>  BY <4>1 DEF Slots
      <4> QED  BY <1>7, <2>2, <3>3, <4>2 DEF Free
    <3>4. \A t \in Tasks : \A p1 : Queued(w, t, p1) <=> Queued(w1, t, p1)
      BY <3>2, <3>3 DEF Queued
    <3> QED  BY <1>6, <2>2, <3>4
  <2>3. CASE ~drop
    <3>1. w = w1  BY <2>3
    <3> HIDE DEF w, w1, drop
    <3> QED  BY <1>6, <2>3, <3>1
  <2> QED  BY <2>2, <2>3
<1>10. cut \in Seq(Frames)
  <2>1. Calls(stack, Entries)
    <3>1. {g \in Frames : g.todo \in Seq(Entries)} = Frames  BY DEF Frames
    <3> QED  BY <3>1 DEF Calls
  <2>2. Calls(cut, Entries)  BY <2>1, DropType
  <2> QED  BY <2>2, CallsSeq
<1>11. /\ DOMAIN cut = DOMAIN stack
       /\ \A j \in DOMAIN stack : stack[j] \in Frames
       /\ \A j \in DOMAIN stack : cut[j] = IF stack[j].em = f.em
                                    THEN [stack[j] EXCEPT !.att = "none"] ELSE stack[j]
  OBVIOUS
<1> HIDE DEF cut
<1>12. \A j \in DOMAIN stack :
         /\ cut[j].em = stack[j].em /\ cut[j].ev = stack[j].ev /\ cut[j].key = stack[j].key
         /\ cut[j].who = stack[j].who /\ cut[j].todo = stack[j].todo
         /\ cut[j].woken = stack[j].woken
         /\ cut[j].att = IF stack[j].em = f.em THEN "none" ELSE stack[j].att
  <2> HIDE DEF f
  <2> TAKE j \in DOMAIN stack
  <2>1. CASE stack[j].em = f.em
    <3>1. cut[j] = [stack[j] EXCEPT !.att = "none"]  BY <1>11, <2>1
    <3> QED  BY <1>11, <2>1, <3>1 DEF Frames
  <2>2. CASE stack[j].em # f.em
    <3>1. cut[j] = stack[j]  BY <1>11, <2>2
    <3> QED  BY <2>2, <3>1
  <2> QED  BY <2>1, <2>2
<1>13. /\ s \in Seq(Frames) /\ DOMAIN s = DOMAIN stack
       /\ \A j \in DOMAIN stack :
            /\ s[j].em = stack[j].em /\ s[j].ev = stack[j].ev /\ s[j].key = stack[j].key
            /\ s[j].who = stack[j].who /\ s[j].todo = stack[j].todo
            /\ s[j].woken = stack[j].woken
            /\ s[j].att = IF drop /\ stack[j].em = f.em THEN "none" ELSE stack[j].att
  <2> HIDE DEF f, drop
  <2>1. CASE drop  BY <1>10, <1>11, <1>12, <2>1
  <2>2. CASE ~drop  BY <2>2
  <2> QED  BY <2>1, <2>2
<1> HIDE DEF s, w, w1, drop, p, empty, gone
<1>14. \A j \in DOMAIN stack : stack[j].ev \in Keys /\ stack[j] \in Frames
  BY <1>11 DEF Frames
<1>15. Steady(Tasks, w, s, waiting, stack)
  <2>1. drop => \A k \in Keys : Free(w, <<f.em, k>>)  BY <1>6, <1>7, <1>9 DEF Free
  <2> HIDE DEF f
  <2>2. ASSUME NEW t \in Tasks, NEW j \in DOMAIN stack
        PROVE  Finds(w, s[j], t) <=> Finds(waiting, stack[j], t)
    <3>1. CASE drop /\ stack[j].em = f.em
      <4>1. ~Queued(w, t, <<stack[j].em, stack[j].ev>>)  BY <1>14, <2>1, <3>1 DEF Free
      <4>2. ~Queued(waiting, t, <<stack[j].em, stack[j].ev>>)  BY <1>9, <4>1
      <4> QED  BY <1>13, <4>1, <4>2 DEF Finds
    <3>2. CASE ~(drop /\ stack[j].em = f.em)
      <4>1. s[j].att = stack[j].att  BY <1>13, <3>2
      <4> QED  BY <1>9, <1>13, <4>1 DEF Finds
    <3> QED  BY <3>1, <3>2
  <2>3. \A t \in Tasks : Hit(w, s, t) <=> Hit(waiting, stack, t)
    <3> TAKE t \in Tasks
    <3>1. \A j \in DOMAIN stack : Finds(w, s[j], t) <=> Finds(waiting, stack[j], t)  BY <2>2
    <3> QED  BY <1>13, <3>1 DEF Hit
  <2>4. ASSUME NEW j \in DOMAIN stack PROVE Fits(w, s[j])
    <3>1. Fits(waiting, stack[j])  BY DEF Parsed
    <3>2. \A p1 : Free(waiting, p1) => Free(w, p1)  BY <1>9 DEF Free
    <3>3. SlotOf(s[j]) = SlotOf(stack[j])  BY <1>13 DEF SlotOf
    <3> HIDE DEF SlotOf
    <3>4. CASE stack[j].key = Timeout  BY <1>13, <3>1, <3>4 DEF Fits
    <3>5. CASE stack[j].key # Timeout
      <4>1. s[j].att = "none" => \A k \in Keys : Free(w, <<s[j].em, k>>)
        <5>1. CASE drop /\ stack[j].em = f.em  BY <1>13, <2>1, <5>1
        <5>2. CASE ~(drop /\ stack[j].em = f.em)
          <6>1. s[j].att = stack[j].att  BY <1>13, <5>2
          <6> QED  BY <1>13, <3>1, <3>2, <3>5, <6>1 DEF Fits
        <5> QED  BY <5>1, <5>2
      <4> QED  BY <1>13, <3>1, <3>2, <3>3, <3>5, <4>1 DEF Fits
    <3> QED  BY <3>4, <3>5
  <2>5. Parsed(w, s)  BY <1>13, <2>4 DEF Parsed
  <2> QED  BY <1>9, <2>3, <2>5 DEF Steady
<1>16. s # <<>>  BY <1>2, <1>13, EmptySeq
<1> DEFINE g == Head(s)
           v == Tail(s)
<1>17. g \in Frames /\ v \in Seq(Frames) /\ s = <<g>> \o v  BY <1>13, <1>16, TopOk
<1>18. /\ g.em = f.em /\ g.ev = f.ev /\ g.key = f.key /\ g.todo = <<>>
       /\ ~drop => g.att = f.att
  <2> HIDE DEF f, g, u, v
  <2>1. g = s[1] /\ 1 \in DOMAIN s  BY <1>17, Consed
  <2>2. f = stack[1]  BY <1>3, Consed
  <2> QED  BY <1>1, <1>13, <2>1, <2>2
<1>19. /\ \A t : Hit(w, s, t) <=> Finds(w, g, t) \/ Hit(w, v, t)
       /\ Parsed(w, s) <=> Fits(w, g) /\ Parsed(w, v)
  <2> HIDE DEF g, v
  <2> QED  BY <1>17, ConsHit
<1>20. Parsed(w, v)  BY <1>15, <1>19 DEF Steady
<1>21. \A t : Finds(w, g, t) <=> g.key = Star /\ g.att # "none" /\ Queued(w, t, q)
  <2>1. \A t : ~InList(g.todo, t)  BY <1>18, NilIn
  <2> QED  BY <1>18, <2>1 DEF Finds
<1> HIDE DEF f, g, u, v
<1>22. CASE ~more
  <2>1. waiting' = w /\ stack' = v  BY <1>1, <1>22 DEF v
  <2>2. \A t : ~Finds(w, g, t)
    <3>1. \A t : Queued(w, t, q) => q \in DOMAIN w  BY DEF Queued
    <3> HIDE DEF q
    <3> QED  BY <1>18, <1>21, <1>22, <3>1 DEF g
  <2>3. Steady(Tasks, w, v, w, s)  BY <1>19, <1>20, <2>2 DEF Steady
  <2> HIDE DEF more
  <2> QED  BY <1>15, <2>1, <2>3, SteadyTwice
<1>23. CASE more
  <2>1. /\ waiting' = [w EXCEPT ![q] = <<>>] /\ q \in DOMAIN w
        /\ stack' = <<next>> \o Displace(v, q, w[q])
        /\ g.key = Star /\ g.att # "none"
    BY <1>1, <1>18, <1>23 DEF v, g
  <2>2. w[q] \in Seq(Entries) /\ q \in Slots  BY <1>8, <2>1 DEF Table
  <2>3. f.em \in Emitters /\ f.ev \in Keys /\ f.slain \in BOOLEAN /\ f.woken \in Seq(Tasks)
    BY <1>3 DEF Frames
  <2>4. base \in Frames
    <3>1. LET b == NewFrame(f.em, f.ev, f.slain, f.ev, w[q], "queue", None)
          IN  b \in Frames /\ b.todo \in Seq(Entries)
      BY <2>2, <2>3, NewFrameType
    <3> QED  BY <3>1
  <2>5. next \in Frames /\ next.em = f.em /\ next.ev = f.ev /\ next.key = f.ev
        /\ next.todo = w[q] /\ next.att = "queue" /\ next.who = None /\ SlotOf(next) = q
    <3>1. base.em = f.em /\ base.ev = f.ev /\ base.key = f.ev
          /\ base.todo = w[q] /\ base.att = "queue" /\ base.who = None
      BY DEF NewFrame
    <3> HIDE DEF base
    <3> QED  BY <2>3, <2>4, <3>1 DEF Frames, SlotOf
  <2> HIDE DEF next, more
  <2>6. /\ \A x, p1 : Queued(waiting', x, p1) <=> Queued(w, x, p1) /\ p1 # q
        /\ \A t : Hit(waiting', stack', t) <=> Hit(w, v, t) \/ Queued(w, t, q)
        /\ Parsed(waiting', stack')
    <3>1. SlotOf(next) \in DOMAIN w /\ next.todo = w[SlotOf(next)]  BY <2>1, <2>5
    <3>2. next.key # Timeout /\ next.ev \notin {Star, Timeout}  BY <1>5, <2>5
    <3> DEFINE p1 == SlotOf(next)
               s1 == <<next>> \o Displace(v, p1, w[p1])
               x1 == [w EXCEPT ![p1] = <<>>]
    <3>3. /\ \A x, p2 : Queued(x1, x, p2) <=> Queued(w, x, p2) /\ p2 # p1
          /\ \A t : Hit(x1, s1, t) <=> \/ Hit(w, v, t) \/ Queued(w, t, p1)
                                       \/ next.key = Star /\ Queued(w, t, <<next.em, next.ev>>)
          /\ Parsed(w, v) => Parsed(x1, s1)
      BY <1>17, <2>5, <3>1, <3>2, CallSteady
    <3>4. p1 = q  BY <2>5
    <3>5. x1 = waiting' /\ s1 = stack'  BY <2>1, <3>4
    <3> HIDE DEF p1, s1, x1, q
    <3> QED  BY <1>5, <1>20, <2>5, <3>3, <3>4, <3>5
  <2>7. \A t : Hit(w, s, t) <=> Queued(w, t, q) \/ Hit(w, v, t)  BY <1>19, <1>21, <2>1
  <2>8. \A em : q # <<em, Timeout>>  BY <1>5
  <2> HIDE DEF q
  <2>9. Steady(Tasks, waiting', stack', w, s)  BY <2>6, <2>7, <2>8 DEF Steady
  <2> QED  BY <1>15, <2>9, SteadyTwice
<1> QED  BY <1>22, <1>23, SMTT(40)

-----------------------------------------------------------------------------
(* What TaskLife sees *)

(* What is counted is in the list. *)
LEMMA CountIs ==
    ASSUME NEW S, NEW q \in Seq(S), NEW c
    PROVE  Count(q, c) > 0 <=> InList(q, c)
<1>1. InList(q, c) => Count(q, c) > 0  BY CountIn
<1>2. ASSUME ~InList(q, c) PROVE ~(Count(q, c) > 0)
  <2>1. {i \in DOMAIN q : q[i] = c} = {}  BY <1>2 DEF InList
  <2>2. Count(q, c) = 0  BY <2>1, FS_EmptySet DEF Count
  <2> QED  BY <2>2
<1> QED  BY <1>1, <1>2

\* The task t is blocked, on the slot p.
OutOn(c, w, s, t, p) == c[t] = "suspended" /\ Out(w, s, t) /\ Queued(w, t, p)

(* A task is blocked when it has a cell that no call in progress is about  *)
(* to find.                                                                *)
LEMMA View ==
    ASSUME Sound, Apart
    PROVE  /\ DOMAIN St = Tasks /\ DOMAIN On = Tasks
           /\ \A t \in Tasks :
                 /\ HasCell(t) <=> Hit(waiting, stack, t) \/ \E p : Queued(waiting, t, p)
                 /\ \A p : p \in On[t] <=> OutOn(co, waiting, stack, t, p)
                 /\ On[t] = {p \in DOMAIN waiting : OutOn(co, waiting, stack, t, p)}
                 /\ co[t] = "active" => St[t] = "running"
                 /\ co[t] = "created" => St[t] = "ready"
                 /\ co[t] = "suspended" => St[t] = IF Out(waiting, stack, t) THEN "blocked" ELSE "ready"
                 /\ co[t] \in {"none", "dead"} => St[t] = co[t]
<1> DEFINE S == Alive
<1>1. \A p \in DOMAIN waiting : waiting[p] \in Seq(S)  BY DEF Sound, Table
<1>2. \A j \in DOMAIN stack : stack[j].todo \in Seq(S)  BY CallsSeq DEF Sound
<1> HIDE DEF S
<1>3. SUFFICES ASSUME NEW t \in Tasks
               PROVE  /\ HasCell(t) <=> Hit(waiting, stack, t) \/ \E p : Queued(waiting, t, p)
                      /\ \A p : p \in On[t] <=> OutOn(co, waiting, stack, t, p)
                      /\ On[t] = {p \in DOMAIN waiting : OutOn(co, waiting, stack, t, p)}
                      /\ co[t] = "active" => St[t] = "running"
                      /\ co[t] = "created" => St[t] = "ready"
                      /\ co[t] = "suspended" =>
                            St[t] = IF Out(waiting, stack, t) THEN "blocked" ELSE "ready"
                      /\ co[t] \in {"none", "dead"} => St[t] = co[t]
  BY DEF St, On
<1>4. \A p : Queued(waiting, t, p) <=> p \in DOMAIN waiting /\ Count(waiting[p], t) > 0
  BY <1>1, CountIs DEF Queued
<1>5. \A j \in DOMAIN stack : InList(stack[j].todo, t) <=> Count(stack[j].todo, t) > 0
  BY <1>2, CountIs
<1>6. Hit(waiting, stack, t) <=> Caught(t)  BY <1>4, <1>5 DEF Hit, Finds, Caught
<1>7. HasCell(t) <=> Hit(waiting, stack, t) \/ \E p : Queued(waiting, t, p)
  <2>1. t \in timers => \E p : Queued(waiting, t, p)  BY DEF Apart, Booked
  <2>2. (\E p : Left(stack, t, p)) => Hit(waiting, stack, t)  BY DEF Left, Hit, Finds
  <2>3. Hit(waiting, stack, t) =>
           (\E p : Left(stack, t, p)) \/ \E p : Queued(waiting, t, p)
    <3> SUFFICES ASSUME NEW j \in DOMAIN stack, Finds(waiting, stack[j], t)
                 PROVE  (\E p : Left(stack, t, p)) \/ \E p : Queued(waiting, t, p)
      BY DEF Hit
    <3>1. CASE InList(stack[j].todo, t)
      <4>1. Left(stack, t, SlotOf(stack[j]))  BY <3>1 DEF Left
      <4> QED  BY <4>1
    <3>2. CASE ~InList(stack[j].todo, t)  BY <3>2 DEF Finds
    <3> QED  BY <3>1, <3>2
  <2>4. HasCell(t) <=> t \in timers \/ (\E p : Queued(waiting, t, p)) \/ \E p : Left(stack, t, p)
    BY HasCellOk DEF Cell
  <2> QED  BY <2>1, <2>2, <2>3, <2>4
<1>8. Blocked(t) <=> co[t] = "suspended" /\ Out(waiting, stack, t)
  BY <1>6, <1>7 DEF Blocked, Out
<1>9. On[t] = IF Blocked(t) THEN {p \in DOMAIN waiting : Count(waiting[p], t) > 0} ELSE {}
  BY DEF On
<1>10. \A p : p \in On[t] <=> OutOn(co, waiting, stack, t, p)
  BY <1>4, <1>8, <1>9 DEF OutOn
<1>11. On[t] = {p \in DOMAIN waiting : OutOn(co, waiting, stack, t, p)}
  BY <1>10 DEF OutOn, Queued
<1>12. St[t] = CASE co[t] = "active"  -> "running"
                 [] co[t] = "created" -> "ready"
                 [] co[t] = "suspended" -> IF Blocked(t) THEN "blocked" ELSE "ready"
                 [] OTHER -> co[t]
  BY DEF St
<1> QED  BY <1>7, <1>8, <1>10, <1>11, <1>12

(* The same after a step.                                                  *)
LEMMA ViewNext ==
    ASSUME Sound', Apart'
    PROVE  /\ DOMAIN St' = Tasks /\ DOMAIN On' = Tasks
           /\ \A t \in Tasks :
                 /\ HasCell(t)' <=> Hit(waiting', stack', t) \/ \E p : Queued(waiting', t, p)
                 /\ \A p : p \in On'[t] <=> OutOn(co', waiting', stack', t, p)
                 /\ On'[t] = {p \in DOMAIN waiting' : OutOn(co', waiting', stack', t, p)}
                 /\ co'[t] = "active" => St'[t] = "running"
                 /\ co'[t] = "created" => St'[t] = "ready"
                 /\ co'[t] = "suspended" => St'[t] = IF Out(waiting', stack', t) THEN "blocked" ELSE "ready"
                 /\ co'[t] \in {"none", "dead"} => St'[t] = co'[t]
<1> DEFINE S == Alive'
<1>1. \A p \in DOMAIN waiting' : waiting'[p] \in Seq(S)  BY DEF Sound, Table
<1>2. \A j \in DOMAIN stack' : stack'[j].todo \in Seq(S)  BY CallsSeq DEF Sound
<1> HIDE DEF S
<1>3. SUFFICES ASSUME NEW t \in Tasks
               PROVE  /\ HasCell(t)' <=> Hit(waiting', stack', t) \/ \E p : Queued(waiting', t, p)
                      /\ \A p : p \in On'[t] <=> OutOn(co', waiting', stack', t, p)
                      /\ On'[t] = {p \in DOMAIN waiting' : OutOn(co', waiting', stack', t, p)}
                      /\ co'[t] = "active" => St'[t] = "running"
                      /\ co'[t] = "created" => St'[t] = "ready"
                      /\ co'[t] = "suspended" =>
                            St'[t] = IF Out(waiting', stack', t) THEN "blocked" ELSE "ready"
                      /\ co'[t] \in {"none", "dead"} => St'[t] = co'[t]
  BY DEF St, On
<1>4. \A p : Queued(waiting', t, p) <=> p \in DOMAIN waiting' /\ Count(waiting'[p], t) > 0
  BY <1>1, CountIs DEF Queued
<1>5. \A j \in DOMAIN stack' : InList(stack'[j].todo, t) <=> Count(stack'[j].todo, t) > 0
  BY <1>2, CountIs
<1>6. Hit(waiting', stack', t) <=> Caught(t)'  BY <1>4, <1>5 DEF Hit, Finds, Caught
<1>7. HasCell(t)' <=> Hit(waiting', stack', t) \/ \E p : Queued(waiting', t, p)
  <2>1. t \in timers' => \E p : Queued(waiting', t, p)  BY DEF Apart, Booked
  <2>2. (\E p : Left(stack', t, p)) => Hit(waiting', stack', t)  BY DEF Left, Hit, Finds
  <2>3. Hit(waiting', stack', t) =>
           (\E p : Left(stack', t, p)) \/ \E p : Queued(waiting', t, p)
    <3> SUFFICES ASSUME NEW j \in DOMAIN stack', Finds(waiting', stack'[j], t)
                 PROVE  (\E p : Left(stack', t, p)) \/ \E p : Queued(waiting', t, p)
      BY DEF Hit
    <3>1. CASE InList(stack'[j].todo, t)
      <4>1. Left(stack', t, SlotOf(stack'[j]))  BY <3>1 DEF Left
      <4> QED  BY <4>1
    <3>2. CASE ~InList(stack'[j].todo, t)  BY <3>2 DEF Finds
    <3> QED  BY <3>1, <3>2
  <2>4. HasCell(t)' <=> t \in timers' \/ (\E p : Queued(waiting', t, p)) \/ \E p : Left(stack', t, p)
    BY HasCellNext DEF Cell
  <2> QED  BY <2>1, <2>2, <2>3, <2>4
<1>8. Blocked(t)' <=> co'[t] = "suspended" /\ Out(waiting', stack', t)
  BY <1>6, <1>7 DEF Blocked, Out
<1>9. On'[t] = IF Blocked(t)' THEN {p \in DOMAIN waiting' : Count(waiting'[p], t) > 0} ELSE {}
  BY DEF On
<1>10. \A p : p \in On'[t] <=> OutOn(co', waiting', stack', t, p)
  BY <1>4, <1>8, <1>9 DEF OutOn
<1>11. On'[t] = {p \in DOMAIN waiting' : OutOn(co', waiting', stack', t, p)}
  BY <1>10 DEF OutOn, Queued
<1>12. St'[t] = CASE co'[t] = "active"  -> "running"
                 [] co'[t] = "created" -> "ready"
                 [] co'[t] = "suspended" -> IF Blocked(t)' THEN "blocked" ELSE "ready"
                 [] OTHER -> co'[t]
  BY DEF St
<1> QED  BY <1>7, <1>8, <1>10, <1>11, <1>12


(* A task has a cell when it is in a slot.                                 *)
LEMMA HeldCell ==
    \A w, s, t : Hit(w, s, t) \/ (\E p : Queued(w, t, p)) <=> \E p : Cell(w, s, t, p)
<1> TAKE w, s, t
<1>1. (\E p : Left(s, t, p)) => Hit(w, s, t)  BY DEF Left, Hit, Finds
<1>2. ASSUME NEW j \in DOMAIN s, Finds(w, s[j], t)
      PROVE  (\E p : Left(s, t, p)) \/ \E p : Queued(w, t, p)
  <2>1. CASE InList(s[j].todo, t)
    <3>1. Left(s, t, SlotOf(s[j]))  BY <2>1 DEF Left
    <3> QED  BY <3>1
  <2>2. CASE ~InList(s[j].todo, t)  BY <1>2, <2>2 DEF Finds
  <2> QED  BY <2>1, <2>2
<1>3. (\E p : Cell(w, s, t, p)) <=> (\E p : Queued(w, t, p)) \/ \E p : Left(s, t, p)
  BY DEF Cell
<1> QED  BY <1>1, <1>2, <1>3 DEF Hit

(* What TaskLife sees are functions of the tasks. *)
LEMMA Seen == St = [t \in Tasks |-> St[t]] /\ On = [t \in Tasks |-> On[t]]
BY DEF St, On

(* So will they be. *)
LEMMA SeenNext == St' = [t \in Tasks |-> St'[t]] /\ On' = [t \in Tasks |-> On'[t]]
BY DEF St, On

(* TaskLife's view of a task that stays where it is. *)
LEMMA StillSees ==
    ASSUME Sound, Sound', Apart, Apart', NEW u \in Tasks, co'[u] = co[u],
           Hit(waiting', stack', u) <=> Hit(waiting, stack, u),
           ~Hit(waiting, stack, u) => \A p : Queued(waiting', u, p) <=> Queued(waiting, u, p)
    PROVE  St'[u] = St[u] /\ On'[u] = On[u] /\ (HasCell(u)' <=> HasCell(u))
<1>1. /\ HasCell(u) <=> Hit(waiting, stack, u) \/ \E p : Queued(waiting, u, p)
      /\ On[u] = {p \in DOMAIN waiting : OutOn(co, waiting, stack, u, p)}
      /\ \A p : p \in On[u] <=> OutOn(co, waiting, stack, u, p)
      /\ co[u] = "active" => St[u] = "running"
      /\ co[u] = "created" => St[u] = "ready"
      /\ co[u] = "suspended" => St[u] = IF Out(waiting, stack, u) THEN "blocked" ELSE "ready"
      /\ co[u] \in {"none", "dead"} => St[u] = co[u]
  BY View
<1>2. /\ HasCell(u)' <=> Hit(waiting', stack', u) \/ \E p : Queued(waiting', u, p)
      /\ On'[u] = {p \in DOMAIN waiting' : OutOn(co', waiting', stack', u, p)}
      /\ \A p : p \in On'[u] <=> OutOn(co', waiting', stack', u, p)
      /\ co'[u] = "active" => St'[u] = "running"
      /\ co'[u] = "created" => St'[u] = "ready"
      /\ co'[u] = "suspended" => St'[u] = IF Out(waiting', stack', u) THEN "blocked" ELSE "ready"
      /\ co'[u] \in {"none", "dead"} => St'[u] = co'[u]
  BY ViewNext
<1>3. co[u] \in Statuses  BY SoundTypes
<1>4. Out(waiting', stack', u) <=> Out(waiting, stack, u)  BY DEF Out
<1>5. \A p : OutOn(co', waiting', stack', u, p) <=> OutOn(co, waiting, stack, u, p)
  BY <1>4 DEF OutOn, Out
<1>6. On'[u] = On[u]
  <2> DEFINE A == On'[u]
             B == On[u]
  <2>1. \A p : p \in A <=> p \in B  BY <1>1, <1>2, <1>5
  <2>2. A = {p \in DOMAIN waiting' : OutOn(co', waiting', stack', u, p)}  BY <1>2
  <2>3. B = {p \in DOMAIN waiting : OutOn(co, waiting, stack, u, p)}  BY <1>1
  <2> HIDE DEF A, B
  <2>4. A = B  BY <2>1, <2>2, <2>3
  <2> QED  BY <2>4 DEF A, B
<1>7. St'[u] = St[u]  BY <1>1, <1>2, <1>3, <1>4 DEF Statuses
<1> QED  BY <1>1, <1>2, <1>6, <1>7

(* TaskLife's view of a task that is not blocked. *)
LEMMA IdleSees ==
    ASSUME Sound, Apart, NEW u \in Tasks, ~(co[u] = "suspended" /\ Out(waiting, stack, u))
    PROVE  /\ On[u] = {}
           /\ co[u] = "active" => St[u] = "running"
           /\ co[u] \in {"created", "suspended"} => St[u] = "ready"
           /\ co[u] \in {"none", "dead"} => St[u] = co[u]
<1>1. \A p : ~OutOn(co, waiting, stack, u, p)  BY DEF OutOn
<1>2. On[u] = {p \in DOMAIN waiting : OutOn(co, waiting, stack, u, p)}  BY View
<1>3. On[u] = {}  BY <1>1, <1>2
<1> QED  BY <1>3, View

(* The same after a step. *)
LEMMA IdleSeesNext ==
    ASSUME Sound', Apart', NEW u \in Tasks, ~(co'[u] = "suspended" /\ Out(waiting', stack', u))
    PROVE  /\ On'[u] = {}
           /\ co'[u] = "active" => St'[u] = "running"
           /\ co'[u] \in {"created", "suspended"} => St'[u] = "ready"
           /\ co'[u] \in {"none", "dead"} => St'[u] = co'[u]
<1>1. \A p : ~OutOn(co', waiting', stack', u, p)  BY DEF OutOn
<1>2. On'[u] = {p \in DOMAIN waiting' : OutOn(co', waiting', stack', u, p)}  BY ViewNext
<1>3. On'[u] = {}  BY <1>1, <1>2
<1> QED  BY <1>3, ViewNext

-----------------------------------------------------------------------------
(* The start *)

\* No task comes where a signal would lose it, and none is lost.
Safe == Apart /\ Found

(* Without a call in progress no cell is about to be found. *)
LEMMA NoHit == \A w, t : ~Hit(w, <<>>, t) /\ Parsed(w, <<>>)
BY EmptySeq DEF Hit, Parsed

(* Nobody is anywhere before the program starts. *)
LEMMA InitSafe == ASSUME Init PROVE Safe /\ Life!Init
<1>1. /\ ready = <<>> /\ stack = <<>> /\ timers = {}
      /\ waiting = [p \in {} |-> <<>>] /\ co = [t \in Tasks |-> "none"]
  BY DEF Init
<1>2. Parsed(waiting, stack) /\ Booked(waiting, timers)  BY <1>1, NoHit DEF Booked
<1>3. Found  BY <1>1 DEF Found
<1>4. \A t \in Tasks : co[t] = "none" /\ ~Blocked(t)  BY <1>1 DEF Blocked
<1>5. St = [t \in Tasks |-> "none"]  BY <1>4 DEF St
<1>6. On = [t \in Tasks |-> {}]  BY <1>4 DEF On
<1> QED  BY <1>2, <1>3, <1>5, <1>6 DEF Safe, Apart, Life!Init

-----------------------------------------------------------------------------
(* Each step as TaskLife sees it *)

\* The step is one of TaskLife's or none, and no task is lost.
Goes == Apart' /\ (Found => Found') /\ (Life!Next \/ (St' = St /\ On' = On))

(* A step that moves no task. *)
LEMMA QuietGoes ==
    ASSUME Sound, Sound', Apart, co' = co, timers' \cap Tasks = timers \cap Tasks,
           Steady(Tasks, waiting', stack', waiting, stack),
           \A t \in Tasks : InList(ready, t) \/ Woken(stack, t)
                               => InList(ready', t) \/ Woken(stack', t)
    PROVE  Goes
<1>1. Apart'
  <2>1. \A t \in Tasks \cap timers' : t \in Tasks \cap timers  OBVIOUS
  <2>2. Booked(waiting', timers')  BY <2>1 DEF Apart, Booked, Steady
  <2>3. Parsed(waiting', stack')  BY DEF Apart, Steady
  <2> QED  BY <2>2, <2>3 DEF Apart
<1>2. \A u \in Tasks : St'[u] = St[u] /\ On'[u] = On[u] /\ (HasCell(u)' <=> HasCell(u))
  BY <1>1, StillSees DEF Steady
<1>3. St' = St /\ On' = On  BY <1>2, Seen, SeenNext
<1>4. Found => Found'  BY <1>2 DEF Found
<1> QED  BY <1>1, <1>3, <1>4 DEF Goes

(* A step after which the tasks of W are ready, and t0 is in state x. *)
LEMMA WakeIs ==
    ASSUME NEW W, NEW t0 \in Tasks, NEW x, St'[t0] = x, On'[t0] = {},
           \A u \in Tasks \ {t0} : /\ St'[u] = IF u \in W THEN "ready" ELSE St[u]
                                   /\ On'[u] = IF u \in W THEN {} ELSE On[u]
    PROVE  Life!Wake(W, t0, x)
<1>1. \A u \in Tasks : /\ St'[u] = IF u = t0 THEN x ELSE IF u \in W THEN "ready" ELSE St[u]
                       /\ On'[u] = IF u = t0 \/ u \in W THEN {} ELSE On[u]
  OBVIOUS
<1> QED  BY <1>1, SeenNext DEF Life!Wake

(* A new task. *)
LEMMA SpawnGoes ==
    ASSUME Sound, Sound', Alone, Apart, timers' \cap Tasks = timers \cap Tasks,
           Steady(Tasks, waiting', stack', waiting, stack),
           NEW t0 \in Tasks, co[t0] = "none", co' = [co EXCEPT ![t0] = "created"],
           ready' = Append(ready, t0),
           \A t \in Tasks : Woken(stack, t) => Woken(stack', t)
    PROVE  Goes
<1>0. co \in [Tasks -> Statuses] /\ ready \in Seq(Tasks)  BY SoundTypes
<1>1. Apart'
  <2>1. \A t \in Tasks \cap timers' : t \in Tasks \cap timers  OBVIOUS
  <2>2. Booked(waiting', timers')  BY <2>1 DEF Apart, Booked, Steady
  <2>3. Parsed(waiting', stack')  BY DEF Apart, Steady
  <2> QED  BY <2>2, <2>3 DEF Apart
<1>2. \A u \in Tasks \ {t0} : co'[u] = co[u]  BY <1>0
<1>3. co'[t0] = "created"  BY <1>0
<1>4. \A u \in Tasks \ {t0} : St'[u] = St[u] /\ On'[u] = On[u] /\ (HasCell(u)' <=> HasCell(u))
  BY <1>1, <1>2, StillSees DEF Steady
<1>5. St[t0] = "none"  BY IdleSees
<1>6. St'[t0] = "ready" /\ On'[t0] = {}  BY <1>1, <1>3, IdleSeesNext
<1>7. Life!Wake({}, t0, "ready")
  <2>1. \A u \in Tasks \ {t0} : /\ St'[u] = IF u \in {} THEN "ready" ELSE St[u]
                                /\ On'[u] = IF u \in {} THEN {} ELSE On[u]
    BY <1>4
  <2> QED  BY <1>6, <2>1, WakeIs
<1>8. Life!Next  BY <1>5, <1>7 DEF Life!Next, Life!Spawn
<1>9. \A t \in Tasks : InList(ready', t) <=> InList(ready, t) \/ t = t0  BY <1>0, AppendIn
<1>10. Found => Found'  BY <1>2, <1>4, <1>9 DEF Found
<1> QED  BY <1>1, <1>8, <1>10 DEF Goes

(* A signal, sent over a table and a stack where the tasks of T are as     *)
(* before, makes ready those that wait for it.                             *)
LEMMA EmitSees ==
    ASSUME Sound, Sound', Apart,
           NEW em \in Emitters, NEW ev \in Keys \ {Star, Timeout}, NEW slain \in BOOLEAN,
           NEW w, Table(w, Entries), NEW s \in Seq(Frames), NEW T \in SUBSET Tasks,
           Steady(T, w, s, waiting, stack), Emit(em, ev, slain, w, s),
           timers' \cap Tasks \subseteq timers \cap T,
           \A u \in T : co'[u] = co[u]
    PROVE  /\ Apart'
           /\ \A u \in T :
                 /\ St'[u] = IF u \in Life!Waiters(em, ev) THEN "ready" ELSE St[u]
                 /\ On'[u] = IF u \in Life!Waiters(em, ev) THEN {} ELSE On[u]
                 /\ HasCell(u)' <=> HasCell(u)
<1>1. /\ \A t \in Tasks :
            /\ Out(waiting', stack', t) <=> Out(w, s, t) /\ ~Matched(w, t, em, ev)
            /\ ~Hit(waiting', stack', t) => \A p : Queued(waiting', t, p) <=> Queued(w, t, p)
            /\ \A em1 : Queued(waiting', t, <<em1, Timeout>>) <=> Queued(w, t, <<em1, Timeout>>)
      /\ Parsed(w, s) => Parsed(waiting', stack')
  BY EmitWakes
<1>2. Apart'
  <2>1. \A t \in Tasks \cap timers' : t \in timers /\ t \in T  OBVIOUS
  <2>2. Booked(waiting', timers')
    <3> SUFFICES ASSUME NEW t \in Tasks \cap timers'
                 PROVE  \E em1 \in Emitters : Queued(waiting', t, <<em1, Timeout>>)
      BY DEF Booked
    <3>1. PICK em1 \in Emitters : Queued(waiting, t, <<em1, Timeout>>)
      BY <2>1 DEF Apart, Booked
    <3>2. Queued(w, t, <<em1, Timeout>>)  BY <2>1, <3>1 DEF Steady
    <3> QED  BY <1>1, <3>2
  <2>3. Parsed(waiting', stack')  BY <1>1 DEF Apart, Steady
  <2> QED  BY <2>2, <2>3 DEF Apart
<1>3. ASSUME NEW u \in T
      PROVE  /\ St'[u] = IF u \in Life!Waiters(em, ev) THEN "ready" ELSE St[u]
             /\ On'[u] = IF u \in Life!Waiters(em, ev) THEN {} ELSE On[u]
             /\ HasCell(u)' <=> HasCell(u)
  <2>0. u \in Tasks /\ co'[u] = co[u] /\ co[u] \in Statuses  BY SoundTypes
  <2>1. /\ Hit(w, s, u) <=> Hit(waiting, stack, u)
        /\ ~Hit(waiting, stack, u) => \A p : Queued(w, u, p) <=> Queued(waiting, u, p)
    BY DEF Steady
  <2>2. Out(w, s, u) <=> Out(waiting, stack, u)  BY <2>1 DEF Out
  <2>3. Out(waiting, stack, u) => (Matched(w, u, em, ev) <=> Matched(waiting, u, em, ev))
    BY <2>1 DEF Out, Matched
  <2>4. u \in Life!Waiters(em, ev) <=>
           co[u] = "suspended" /\ Out(waiting, stack, u) /\ Matched(waiting, u, em, ev)
    <3>1. u \in Life!Waiters(em, ev) <=> On[u] \cap {<<em, Star>>, <<em, ev>>} # {}
      BY <2>0 DEF Life!Waiters
    <3>2. \A p : p \in On[u] <=> OutOn(co, waiting, stack, u, p)  BY <2>0, View
    <3>3. On[u] \cap {<<em, Star>>, <<em, ev>>} # {} <=> <<em, Star>> \in On[u] \/ <<em, ev>> \in On[u]
      OBVIOUS
    <3> QED  BY <3>1, <3>2, <3>3 DEF OutOn, Matched
  <2>5. HasCell(u)' <=> HasCell(u)
    <3>1. HasCell(u) <=> Hit(waiting, stack, u) \/ \E p : Queued(waiting, u, p)
      BY <2>0, View
    <3>2. HasCell(u)' <=> Hit(waiting', stack', u) \/ \E p : Queued(waiting', u, p)
      BY <1>2, <2>0, ViewNext
    <3>3. Same(waiting', stack', w, s)  BY EmitOk
    <3>4. \A p : Cell(waiting', stack', u, p) <=> Cell(w, s, u, p)
      BY <2>0, <3>3, Names DEF Same
    <3>5. Hit(w, s, u) \/ (\E p : Queued(w, u, p)) <=> \E p : Cell(w, s, u, p)
      BY HeldCell
    <3>6. Hit(waiting', stack', u) \/ (\E p : Queued(waiting', u, p))
             <=> \E p : Cell(waiting', stack', u, p)
      BY HeldCell
    <3>7. Hit(waiting, stack, u) \/ (\E p : Queued(waiting, u, p))
             <=> Hit(w, s, u) \/ (\E p : Queued(w, u, p))
      BY <2>1
    <3> QED  BY <3>1, <3>2, <3>4, <3>5, <3>6, <3>7
  <2>6. CASE u \in Life!Waiters(em, ev)
    <3>1. co'[u] = "suspended" /\ ~Out(waiting', stack', u)
      BY <1>1, <2>0, <2>3, <2>4, <2>6
    <3> QED  BY <1>2, <2>0, <2>5, <2>6, <3>1, IdleSeesNext
  <2>7. CASE u \notin Life!Waiters(em, ev)
    <3>1. CASE co[u] = "suspended" /\ Out(waiting, stack, u)
      <4>1. Out(waiting', stack', u)  BY <1>1, <2>0, <2>2, <2>3, <2>4, <2>7, <3>1
      <4>2. ~Hit(waiting', stack', u) /\ ~Hit(waiting, stack, u)  BY <3>1, <4>1 DEF Out
      <4>3. \A p : Queued(waiting', u, p) <=> Queued(waiting, u, p)
        BY <1>1, <2>0, <2>1, <4>2
      <4>4. St'[u] = St[u] /\ On'[u] = On[u]
        BY <1>2, <2>0, <4>2, <4>3, StillSees
      <4> QED  BY <2>5, <2>7, <4>4
    <3>2. CASE ~(co[u] = "suspended" /\ Out(waiting, stack, u))
      <4>1. ~(co'[u] = "suspended" /\ Out(waiting', stack', u))
        BY <1>1, <2>0, <2>2, <3>2
      <4>2. On[u] = {} /\ On'[u] = {}
        BY <1>2, <2>0, <3>2, <4>1, IdleSees, IdleSeesNext
      <4>3. St'[u] = St[u]
        <5>1. /\ co[u] = "active" => St[u] = "running"
              /\ co[u] \in {"created", "suspended"} => St[u] = "ready"
              /\ co[u] \in {"none", "dead"} => St[u] = co[u]
          BY <2>0, <3>2, IdleSees
        <5>2. /\ co'[u] = "active" => St'[u] = "running"
              /\ co'[u] \in {"created", "suspended"} => St'[u] = "ready"
              /\ co'[u] \in {"none", "dead"} => St'[u] = co'[u]
          BY <1>2, <2>0, <4>1, IdleSeesNext
        <5> QED  BY <2>0, <5>1, <5>2 DEF Statuses
      <4> QED  BY <2>5, <2>7, <4>2, <4>3
    <3> QED  BY <3>1, <3>2
  <2> QED  BY <2>6, <2>7
<1> QED  BY <1>2, <1>3

(* The tasks about to be woken when a signal starts. *)
LEMMA EmitWoken ==
    ASSUME NEW em \in Emitters, NEW ev \in Keys, NEW slain \in BOOLEAN,
           NEW w, Table(w, Entries), NEW s \in Seq(Frames), Emit(em, ev, slain, w, s)
    PROVE  \A t : Woken(stack', t) <=> Woken(s, t)
BY EmitOk DEF Same

(* A signal. *)
LEMMA EmitGoes ==
    ASSUME Sound, Sound', Apart,
           NEW em \in Emitters, NEW ev \in Keys \ {Star, Timeout}, NEW slain \in BOOLEAN,
           Emit(em, ev, slain, waiting, stack), UNCHANGED <<co, timers>>, ready' = ready
    PROVE  Goes
<1>0. Table(waiting, Entries) /\ stack \in Seq(Frames)  BY SoundTypes
<1>1. Steady(Tasks, waiting, stack, waiting, stack)  BY SteadyNot
<1>2. Tasks \in SUBSET Tasks /\ timers' \cap Tasks \subseteq timers \cap Tasks
      /\ \A u \in Tasks : co'[u] = co[u]
  OBVIOUS
<1> DEFINE W == Life!Waiters(em, ev)
<1>3. /\ Apart'
      /\ \A u \in Tasks : /\ St'[u] = IF u \in W THEN "ready" ELSE St[u]
                          /\ On'[u] = IF u \in W THEN {} ELSE On[u]
                          /\ HasCell(u)' <=> HasCell(u)
  BY <1>0, <1>1, <1>2, EmitSees
<1>4. Life!Signal(em, ev)
  <2> HIDE DEF W
  <2>1. /\ St' = [u \in Tasks |-> IF u \in W THEN "ready" ELSE St[u]]
        /\ On' = [u \in Tasks |-> IF u \in W THEN {} ELSE On[u]]
    BY <1>3, SeenNext
  <2> QED  BY <2>1 DEF Life!Signal, W
<1>5. Life!Next  BY <1>4 DEF Life!Next
<1>6. Found => Found'
  <2>1. \A t : Woken(stack', t) <=> Woken(stack, t)  BY <1>0, EmitWoken
  <2> QED  BY <1>3, <2>1 DEF Found
<1> QED  BY <1>3, <1>5, <1>6 DEF Goes

(* The death of a task, and its signal. *)
LEMMA DieGoes ==
    ASSUME Sound, Sound', Apart, NEW t0 \in Tasks, NEW slain \in BOOLEAN,
           co[t0] \in {"created", "suspended", "active"},
           NEW w, Table(w, Entries), NEW s \in Seq(Frames),
           Steady(Tasks \ {t0}, w, s, waiting, stack), Emit(t0, Die, slain, w, s),
           timers' \cap Tasks \subseteq timers \ {t0},
           co' = [co EXCEPT ![t0] = "dead"], ready' = ready,
           \A t \in Tasks : Woken(s, t) <=> Woken(stack, t)
    PROVE  Goes
<1>0. co \in [Tasks -> Statuses]  BY SoundTypes
<1>1. t0 \in Emitters /\ Die \in Keys \ {Star, Timeout}  BY Names DEF Die, Star, Timeout, Keys
<1>2. co'[t0] = "dead" /\ \A u \in Tasks \ {t0} : co'[u] = co[u]  BY <1>0
<1> DEFINE W == Life!Waiters(t0, Die)
           T == Tasks \ {t0}
<1>3. T \in SUBSET Tasks /\ timers' \cap Tasks \subseteq timers \cap T  OBVIOUS
<1>4. /\ Apart'
      /\ \A u \in T : /\ St'[u] = IF u \in W THEN "ready" ELSE St[u]
                      /\ On'[u] = IF u \in W THEN {} ELSE On[u]
                      /\ HasCell(u)' <=> HasCell(u)
  <2>1. Steady(T, w, s, waiting, stack) /\ \A u \in T : co'[u] = co[u]  BY <1>2
  <2> HIDE DEF T
  <2> QED  BY <1>1, <1>3, <2>1, EmitSees
<1>5. St'[t0] = "dead" /\ On'[t0] = {}  BY <1>2, <1>4, IdleSeesNext
<1>6. Life!Wake(W, t0, "dead")
  <2> HIDE DEF W
  <2> QED  BY <1>4, <1>5, WakeIs
<1>7. St[t0] \in {"ready", "blocked", "running"}  BY View
<1>8. Life!Finish(t0) \/ Life!Kill(t0)
  BY <1>6, <1>7 DEF Life!Finish, Life!Kill, Die
<1>9. Life!Next  BY <1>8 DEF Life!Next
<1>10. Found => Found'
  <2>1. \A t : Woken(stack', t) <=> Woken(s, t)  BY <1>1, EmitWoken
  <2> QED  BY <1>2, <1>4, <2>1 DEF Found
<1> QED  BY <1>4, <1>9, <1>10 DEF Goes

(* A step that moves one task, which is not blocked afterwards. *)
LEMMA OneGoes ==
    ASSUME Sound, Sound', Apart, NEW t0 \in Tasks,
           Steady(Tasks \ {t0}, waiting', stack', waiting, stack),
           timers' \cap Tasks \subseteq timers \ {t0},
           \A u \in Tasks \ {t0} :
              /\ co'[u] = co[u]
              /\ InList(ready, u) \/ Woken(stack, u) => InList(ready', u) \/ Woken(stack', u),
           ~Out(waiting', stack', t0),
           co'[t0] \in {"created", "suspended"} => InList(ready', t0) \/ Woken(stack', t0)
    PROVE  /\ Apart' /\ (Found => Found')
           /\ Life!Wake({}, t0, St'[t0])
           /\ co'[t0] = "active" => St'[t0] = "running"
           /\ co'[t0] \in {"created", "suspended"} => St'[t0] = "ready"
           /\ St'[t0] = St[t0] /\ On[t0] = {} => St' = St /\ On' = On
<1>1. Apart'
  <2>1. \A t \in Tasks \cap timers' : t \in timers /\ t \in Tasks \ {t0}  OBVIOUS
  <2>2. Booked(waiting', timers')  BY <2>1 DEF Apart, Booked, Steady
  <2>3. Parsed(waiting', stack')  BY DEF Apart, Steady
  <2> QED  BY <2>2, <2>3 DEF Apart
<1>2. \A u \in Tasks \ {t0} : St'[u] = St[u] /\ On'[u] = On[u] /\ (HasCell(u)' <=> HasCell(u))
  BY <1>1, StillSees DEF Steady
<1>3. /\ On'[t0] = {}
      /\ co'[t0] = "active" => St'[t0] = "running"
      /\ co'[t0] \in {"created", "suspended"} => St'[t0] = "ready"
  BY <1>1, IdleSeesNext
<1>4. Life!Wake({}, t0, St'[t0])
  <2> DEFINE x == St'[t0]
  <2>1. \A u \in Tasks \ {t0} : /\ St'[u] = IF u \in {} THEN "ready" ELSE St[u]
                                /\ On'[u] = IF u \in {} THEN {} ELSE On[u]
    BY <1>2
  <2>2. St'[t0] = x  OBVIOUS
  <2> HIDE DEF x
  <2>3. Life!Wake({}, t0, x)  BY <1>3, <2>1, <2>2, WakeIs
  <2> QED  BY <2>3 DEF x
<1>5. Found => Found'  BY <1>2 DEF Found
<1>6. ASSUME St'[t0] = St[t0], On[t0] = {} PROVE St' = St /\ On' = On
  <2>1. \A u \in Tasks : St'[u] = St[u] /\ On'[u] = On[u]  BY <1>2, <1>3, <1>6
  <2> QED  BY <2>1, Seen, SeenNext
<1> QED  BY <1>1, <1>3, <1>4, <1>5, <1>6

(* A task without a cell. *)
LEMMA NoCell ==
    ASSUME Sound, Apart, NEW t \in Tasks, ~HasCell(t)
    PROVE  /\ ~Hit(waiting, stack, t) /\ (\A p : ~Queued(waiting, t, p)) /\ t \notin timers
           /\ ~Out(waiting, stack, t)
<1>1. HasCell(t) <=> Hit(waiting, stack, t) \/ \E p : Queued(waiting, t, p)  BY View
<1>2. t \notin timers  BY HasCellOk
<1> QED  BY <1>1, <1>2 DEF Out

(* A task gives its turn. *)
LEMMA YieldGoes == ASSUME Sound, Sound', Alone, Apart, Yield PROVE Goes
<1>1. PICK t0 \in Tasks : t0 = Actor  BY DEF Yield
<1>2. stack = <<>> /\ current = t0 /\ running = t0 /\ co[t0] = "active"  BY <1>1, ActorAlone
<1>3. /\ co' = [co EXCEPT ![t0] = "suspended"] /\ stack' = stack /\ waiting' = waiting
      /\ ready' = Append(ready, t0) /\ timers' = timers
  BY <1>1, <1>2 DEF Yield, Suspend, cells
<1>4. co'[t0] = "suspended" /\ \A u \in Tasks \ {t0} : co'[u] = co[u]  BY <1>3, SoundTypes
<1>5. ~HasCell(t0)  BY <1>2 DEF Alone
<1>6. ~Out(waiting, stack, t0) /\ t0 \notin timers  BY <1>5, NoCell
<1>7. \A u : InList(ready', u) <=> InList(ready, u) \/ u = t0
  BY <1>3, SoundTypes, AppendIn
<1>8. Steady(Tasks \ {t0}, waiting', stack', waiting, stack)  BY <1>3, SteadyNot
<1>9. timers' \cap Tasks \subseteq timers \ {t0}  BY <1>3, <1>6
<1>10. \A u \in Tasks \ {t0} :
          /\ co'[u] = co[u]
          /\ InList(ready, u) \/ Woken(stack, u) => InList(ready', u) \/ Woken(stack', u)
  BY <1>3, <1>4, <1>7
<1>11. ~Out(waiting', stack', t0) /\ InList(ready', t0)  BY <1>3, <1>6, <1>7
<1>12. Apart' /\ (Found => Found') /\ Life!Wake({}, t0, St'[t0]) /\ St'[t0] = "ready"
  BY <1>4, <1>8, <1>9, <1>10, <1>11, OneGoes
<1>13. St[t0] = "running"  BY <1>2, View
<1>14. Life!Next  BY <1>12, <1>13 DEF Life!Next, Life!Yield
<1> QED  BY <1>12, <1>14 DEF Goes

(* The loop resumes a task. *)
LEMMA ResumeGoes == ASSUME Sound, Sound', Alone, Apart, Resume PROVE Goes
<1>1. stack = <<>> /\ current = None /\ ready # <<>>  BY DEF Resume, Loop
<1>2. PICK t0 \in Tasks : t0 = Head(ready)  BY <1>1, SoundTypes, TailIn
<1>3. \A x : InList(ready, x) <=> x = t0 \/ InList(Tail(ready), x)
  BY <1>1, <1>2, SoundTypes, TailIn
<1>4. co[t0] \in {"created", "suspended"} /\ ~HasCell(t0)  BY <1>3 DEF Alone
<1>5. /\ ready' = Tail(ready) /\ co' = [co EXCEPT ![t0] = "active"]
      /\ UNCHANGED <<waiting, stack, timers>>
  BY <1>2, <1>4 DEF Resume, cells
<1>6. co'[t0] = "active" /\ \A u \in Tasks \ {t0} : co'[u] = co[u]  BY <1>5, SoundTypes
<1>7. ~Out(waiting, stack, t0) /\ t0 \notin timers  BY <1>4, NoCell
<1>8. Steady(Tasks \ {t0}, waiting', stack', waiting, stack)  BY <1>5, SteadyNot
<1>9. timers' \cap Tasks \subseteq timers \ {t0}  BY <1>5, <1>7
<1>10. \A u \in Tasks \ {t0} :
          /\ co'[u] = co[u]
          /\ InList(ready, u) \/ Woken(stack, u) => InList(ready', u) \/ Woken(stack', u)
  BY <1>3, <1>5, <1>6
<1>11. ~Out(waiting', stack', t0)  BY <1>5, <1>7
<1>12. Apart' /\ (Found => Found') /\ Life!Wake({}, t0, St'[t0]) /\ St'[t0] = "running"
  BY <1>6, <1>8, <1>9, <1>10, <1>11, OneGoes
<1>13. St[t0] = "ready"  BY <1>4, <1>7, IdleSees
<1>14. \A u \in Tasks : St[u] # "running"
  <2> TAKE u \in Tasks
  <2>1. co[u] # "active" /\ co[u] \in Statuses  BY <1>1, SoundTypes, Names DEF Alone
  <2> QED  BY <2>1, View DEF Statuses
<1>15. Life!Next  BY <1>12, <1>13, <1>14 DEF Life!Next, Life!Resume
<1> QED  BY <1>12, <1>15 DEF Goes

(* A timer wakes a task. *)
LEMMA TimerTaskGoes ==
    ASSUME Sound, Sound', Alone, Apart, NEW t0 \in Tasks, TimerTask(t0) PROVE Goes
<1>1. /\ stack = <<>> /\ stack' = stack /\ t0 \in timers /\ timers' = timers \ {t0}
      /\ waiting' = EmptyWaiting(waiting, t0) /\ ready' = Append(ready, t0) /\ co' = co
  BY DEF TimerTask, Loop
<1>2. HasCell(t0)  BY <1>1, HasCellOk
<1>3. co[t0] = "suspended"  BY <1>2 DEF Alone
<1>4. PICK em \in Emitters : Queued(waiting, t0, <<em, Timeout>>)
  BY <1>1 DEF Apart, Booked
<1>5. <<em, Timeout>> \in On[t0]
  <2>1. Out(waiting, stack, t0)  BY <1>1, <1>4, NoHit DEF Out
  <2>2. OutOn(co, waiting, stack, t0, <<em, Timeout>>)  BY <1>3, <1>4, <2>1 DEF OutOn
  <2> QED  BY <2>2, View
<1>6. EmptyStack(stack, t0) = stack  BY <1>1 DEF EmptyStack
<1>7. /\ Steady(Tasks \ {t0}, waiting', stack', waiting, stack)
      /\ ~Hit(waiting', stack', t0) /\ \A p : ~Queued(waiting', t0, p)
  <2> DEFINE w1 == EmptyWaiting(waiting, t0)
             s1 == EmptyStack(stack, t0)
  <2>1. t0 # Emptied /\ stack \in Seq(Frames)  BY SoundTypes, Names
  <2>2. Steady(Tasks \ {t0}, w1, s1, waiting, stack)  BY <2>1, EmptySteady
  <2>3. ~Hit(w1, s1, t0) /\ \A p : ~Queued(w1, t0, p)  BY <2>1, EmptySteady
  <2>4. waiting' = w1 /\ stack' = s1  BY <1>1, <1>6
  <2> HIDE DEF w1, s1
  <2> QED  BY <2>2, <2>3, <2>4
<1>8. \A u : InList(ready', u) <=> InList(ready, u) \/ u = t0
  BY <1>1, SoundTypes, AppendIn
<1>9. timers' \cap Tasks \subseteq timers \ {t0}  BY <1>1
<1>10. \A u \in Tasks \ {t0} :
          /\ co'[u] = co[u]
          /\ InList(ready, u) \/ Woken(stack, u) => InList(ready', u) \/ Woken(stack', u)
  BY <1>1, <1>8
<1>11. ~Out(waiting', stack', t0) /\ InList(ready', t0)  BY <1>7, <1>8 DEF Out
<1>12. Apart' /\ (Found => Found') /\ Life!Wake({}, t0, St'[t0]) /\ St'[t0] = "ready"
  BY <1>1, <1>3, <1>7, <1>9, <1>10, <1>11, OneGoes
<1>13. Life!Next  BY <1>5, <1>12 DEF Life!Next, Life!Expire, Timeout
<1> QED  BY <1>12, <1>13 DEF Goes

(* A task blocks on the slots of S. *)
LEMMA BlockGoes ==
    ASSUME Sound, Sound', Alone, Apart, NEW S \in SUBSET Slots, S # {}, NEW isMulti,
           Block(S, isMulti)
    PROVE  Goes
<1>1. PICK t0 \in Tasks : t0 = Actor  BY DEF Block
<1>2. stack = <<>> /\ current = t0 /\ running = t0 /\ co[t0] = "active"  BY <1>1, ActorAlone
<1>3. /\ co' = [co EXCEPT ![t0] = "suspended"] /\ stack' = <<>> /\ ready' = ready
      /\ waiting' = Register(waiting, t0, S)
      /\ timers' = IF IsTimed(S) THEN timers \cup {t0} ELSE timers
  BY <1>1, <1>2 DEF Block, Suspend
<1>4. co'[t0] = "suspended" /\ \A u \in Tasks \ {t0} : co'[u] = co[u]  BY <1>3, SoundTypes
<1>5. ~HasCell(t0)  BY <1>2 DEF Alone
<1>6. (\A p : ~Queued(waiting, t0, p)) /\ t0 \notin timers  BY <1>5, NoCell
<1>7. \A x, p : Queued(waiting', x, p) <=> Queued(waiting, x, p) \/ (x = t0 /\ p \in S)
  BY <1>3, SoundTypes, RegisterQueued, Names
<1>8. \A t : ~Hit(waiting, stack, t) /\ ~Hit(waiting', stack', t)  BY <1>2, <1>3, NoHit
<1>9. Apart'
  <2>1. Booked(waiting', timers')
    <3> SUFFICES ASSUME NEW t \in Tasks \cap timers'
                 PROVE  \E em \in Emitters : Queued(waiting', t, <<em, Timeout>>)
      BY DEF Booked
    <3>1. CASE t \in timers
      <4>1. PICK em \in Emitters : Queued(waiting, t, <<em, Timeout>>)
        BY <3>1 DEF Apart, Booked
      <4> QED  BY <1>7, <4>1
    <3>2. CASE t \notin timers
      <4>1. t = t0 /\ IsTimed(S)  BY <1>3, <3>2
      <4>2. PICK p \in S : p[2] = Timeout  BY <4>1 DEF IsTimed
      <4>3. PICK em \in Emitters, k \in Keys : p = <<em, k>>  BY DEF Slots
      <4>4. p = <<em, Timeout>>  BY <4>2, <4>3
      <4> QED  BY <1>7, <4>1, <4>4
    <3> QED  BY <3>1, <3>2
  <2>2. Parsed(waiting', stack')  BY <1>3, NoHit
  <2> QED  BY <2>1, <2>2 DEF Apart
<1>10. \A u \in Tasks \ {t0} : St'[u] = St[u] /\ On'[u] = On[u] /\ (HasCell(u)' <=> HasCell(u))
  BY <1>4, <1>7, <1>8, <1>9, StillSees
<1>11. \A p : p \in On'[t0] <=> p \in S
  <2>1. \A p : Queued(waiting', t0, p) <=> p \in S  BY <1>6, <1>7
  <2>2. Out(waiting', stack', t0)  BY <1>8, <2>1 DEF Out
  <2>3. \A p : OutOn(co', waiting', stack', t0, p) <=> p \in S
    BY <1>4, <2>1, <2>2 DEF OutOn
  <2> QED  BY <1>9, <2>3, ViewNext
<1>12. On'[t0] \in (SUBSET (Emitters \X Keys)) \ {{}}
  <2> DEFINE A == On'[t0]
  <2>1. A = {p \in DOMAIN waiting' : OutOn(co', waiting', stack', t0, p)}  BY <1>9, ViewNext
  <2>2. \A p : p \in A <=> p \in S  BY <1>11
  <2> HIDE DEF A
  <2>3. A = S
    <3> HIDE DEF Slots
    <3> QED  BY <2>2, Zenon
  <2>4. A \in (SUBSET Slots) \ {{}}
    <3>1. A \in SUBSET Slots  BY <2>3
    <3>2. A \notin {{}}  BY <2>3
    <3> HIDE DEF Slots
    <3> QED  BY <3>1, <3>2, Zenon
  <2> QED  BY <2>4 DEF A, Slots
<1>13. St'[t0] = "blocked" /\ HasCell(t0)'
  <2>1. PICK p : p \in S  OBVIOUS
  <2>2. Queued(waiting', t0, p)  BY <1>7, <2>1
  <2>3. Out(waiting', stack', t0)  BY <1>8, <2>2 DEF Out
  <2> QED  BY <1>4, <1>9, <2>2, <2>3, ViewNext
<1>14. St[t0] = "running"  BY <1>2, View
<1>15. St' = [St EXCEPT ![t0] = "blocked"]
  <2>1. \A u \in Tasks : St'[u] = IF u = t0 THEN "blocked" ELSE St[u]  BY <1>10, <1>13
  <2> QED  BY <2>1, Seen, SeenNext
<1>16. On' = [On EXCEPT ![t0] = On'[t0]]
  <2> DEFINE A == On'[t0]
  <2>1. \A u \in Tasks : On'[u] = IF u = t0 THEN A ELSE On[u]  BY <1>10
  <2> HIDE DEF A
  <2>2. On' = [On EXCEPT ![t0] = A]  BY <2>1, Seen, SeenNext
  <2> QED  BY <2>2 DEF A
<1>17. Life!Next
  BY <1>12, <1>14, <1>15, <1>16 DEF Life!Next, Life!Block, Life!Slots, Keys, Star, Die, Timeout
<1>18. Found => Found'  BY <1>3, <1>2, <1>4, <1>10, <1>13 DEF Found
<1> QED  BY <1>9, <1>17, <1>18 DEF Goes

(* A task ends. *)
LEMMA EndGoes ==
    ASSUME Sound, Sound', Alone, Apart, Actor \in Tasks, NEW slain \in BOOLEAN, End(slain)
    PROVE  Goes
<1>1. PICK t0 \in Tasks : t0 = Actor  OBVIOUS
<1>2. stack = <<>> /\ co[t0] = "active"  BY <1>1, ActorAlone
<1>3. /\ co' = [co EXCEPT ![t0] = "dead"] /\ Emit(t0, Die, slain, waiting, stack)
      /\ ready' = ready /\ timers' = timers
  BY <1>1, <1>2 DEF End, cells
<1>4. Table(waiting, Entries) /\ stack \in Seq(Frames)  BY SoundTypes
<1>5. ~HasCell(t0)  BY <1>2 DEF Alone
<1>6. t0 \notin timers  BY <1>5, NoCell
<1>7. Steady(Tasks \ {t0}, waiting, stack, waiting, stack)  BY SteadyNot
<1>8. timers' \cap Tasks \subseteq timers \ {t0}  BY <1>3, <1>6
<1> QED  BY <1>2, <1>3, <1>4, <1>7, <1>8, DieGoes

(* The calls that only tasks make. *)
LEMMA TaskCallGoes == ASSUME Sound, Sound', Alone, Apart, TaskCall PROVE Goes
<1>1. CASE Finish  BY <1>1, EndGoes DEF Finish
<1>2. CASE WaitFails  BY <1>2, EndGoes DEF WaitFails
<1>3. CASE Yield  BY <1>3, YieldGoes
<1>4. ASSUME NEW em \in Known, NEW evs \in Lists(em), Wait(em, evs) PROVE Goes
  <2>1. {em} \X evs \in SUBSET Slots  BY ListsType, KnownType DEF Slots
  <2>2. {em} \X evs # {}
    <3>1. PICK ev \in evs : TRUE  BY ListsSome
    <3>2. <<em, ev>> \in {em} \X evs  BY <3>1
    <3> QED  BY <3>2
  <2> QED  BY <1>4, <2>1, <2>2, BlockGoes DEF Wait
<1>5. ASSUME NEW ems \in SUBSET (Known \ {Clock}), Cardinality(ems) > 1,
             NEW evs \in UNION {Lists(em) : em \in ems}, MultiWait(ems, evs)
      PROVE  Goes
  <2>1. ems \X evs \in SUBSET Slots  BY ListsType, KnownType DEF Slots
  <2>2. ems \X evs # {}
    <3>1. ems # {}  BY <1>5, FS_EmptySet
    <3>2. PICK em \in ems : TRUE  BY <3>1
    <3>3. PICK ev \in evs : TRUE  BY ListsSome
    <3>4. <<em, ev>> \in ems \X evs  BY <3>2, <3>3
    <3> QED  BY <3>4
  <2> QED  BY <1>5, <2>1, <2>2, BlockGoes DEF MultiWait
<1> QED  BY <1>1, <1>2, <1>3, <1>4, <1>5 DEF TaskCall

(* kill() of a task that waits. *)
LEMMA KillSuspendedGoes ==
    ASSUME Sound, Sound', Apart, NEW t0 \in Tasks, KillSuspended(t0)
    PROVE  Goes
<1> DEFINE w1 == EmptyWaiting(waiting, t0)
           s1 == EmptyStack(stack, t0)
<1>1. /\ co[t0] = "suspended" /\ co' = [co EXCEPT ![t0] = "dead"]
      /\ timers' = timers \ {t0} /\ ready' = ready /\ Emit(t0, Die, FALSE, w1, s1)
  BY DEF KillSuspended
<1>2. Table(waiting, Entries) /\ stack \in Seq(Frames)  BY SoundTypes
<1>3. Steady(Tasks \ {t0}, w1, s1, waiting, stack)  BY <1>2, EmptySteady
<1>4. Table(w1, Entries)
  <2>1. Entries \ {t0} \subseteq Entries /\ Emptied \in Entries  BY DEF Entries
  <2> QED  BY <1>2, <2>1, EmptyWaitingType
<1>5. Calling(s1, stack)  BY <1>2, EmptyOk
<1> HIDE DEF w1, s1
<1>6. s1 \in Seq(Frames) /\ \A t : Woken(s1, t) <=> Woken(stack, t)
  BY <1>5, CallingOk DEF Calling
<1>7. timers' \cap Tasks \subseteq timers \ {t0}  BY <1>1
<1> QED  BY <1>1, <1>3, <1>4, <1>6, <1>7, DieGoes

(* A signal in progress finds the cell of a task. *)
LEMMA WakeTaskGoes ==
    ASSUME Sound, Sound', Alone, Apart, NEW t0 \in Tasks, WakeTask(t0)
    PROVE  Goes
<1> DEFINE w1 == EmptyWaiting(waiting, t0)
           s1 == EmptyStack(Taken, t0)
           f  == Head(s1)
           u  == Tail(s1)
           g  == [f EXCEPT !.woken = Append(f.woken, t0)]
<1>1. /\ NextCell(t0) /\ stack' = <<g>> \o u /\ waiting' = w1
      /\ timers' = timers \ {t0} /\ ready' = ready /\ co' = co
  BY DEF WakeTask
<1>2. stack \in Seq(Frames) /\ stack # <<>>  BY <1>1, SoundTypes, TakenOk
<1>3. InList(Head(stack).todo, t0)  BY <1>1, <1>2, TakenSteady
<1>4. Hit(waiting, stack, t0)
  <2>1. Head(stack) = stack[1] /\ 1 \in DOMAIN stack
    <3> DEFINE h == Head(stack)
               v == Tail(stack)
    <3>1. h \in Frames /\ v \in Seq(Frames) /\ stack = <<h>> \o v  BY <1>2, TopOk
    <3> HIDE DEF h, v
    <3>2. h = stack[1] /\ 1 \in DOMAIN stack  BY <3>1, Consed
    <3> QED  BY <3>2 DEF h
  <2> QED  BY <1>3, <2>1 DEF Hit, Finds
<1>5. Fits(waiting, Head(stack)) /\ Head(stack).key # Timeout
  <2>1. Fits(waiting, Head(stack))
    <3> DEFINE h == Head(stack)
               v == Tail(stack)
    <3>1. h \in Frames /\ v \in Seq(Frames) /\ stack = <<h>> \o v  BY <1>2, TopOk
    <3> HIDE DEF h, v
    <3>2. Fits(waiting, h)  BY <3>1, ConsHit DEF Apart
    <3> QED  BY <3>2 DEF h
  <2> QED  BY <1>3, <2>1 DEF Fits
<1>6. co[t0] = "suspended"
  <2>1. HasCell(t0)  BY <1>4, View
  <2> QED  BY <2>1 DEF Alone
<1>7. /\ Taken \in Seq(Frames) /\ Taken # <<>> /\ \A t : Woken(Taken, t) <=> Woken(stack, t)
      /\ Alike(Head(Taken), Head(stack))
  BY <1>1, <1>2, TakenOk
<1>8. Steady(Tasks \ {t0}, waiting, Taken, waiting, stack)  BY <1>1, <1>2, TakenSteady
<1>9. Steady(Tasks \ {t0}, w1, s1, waiting, Taken)  BY <1>7, EmptySteady
<1>10. ~Hit(w1, s1, t0) /\ \A p : ~Queued(w1, t0, p)  BY <1>7, Names, EmptySteady
<1>11. Calling(s1, Taken)  BY <1>7, EmptyOk
<1> HIDE DEF w1, s1
<1>12. /\ s1 \in Seq(Frames) /\ s1 # <<>> /\ \A t : Woken(s1, t) <=> Woken(Taken, t)
       /\ Alike(f, Head(Taken))
  BY <1>7, <1>11, CallingOk, CallingTail DEF Calling
<1>13. f \in Frames /\ u \in Seq(Frames) /\ s1 = <<f>> \o u /\ OnTop(s1, f, u)
  BY <1>12, TopOk
<1>14. f.key # Timeout  BY <1>5, <1>7, <1>12 DEF Alike
<1> HIDE DEF f, u
<1>15. f.woken \in Seq(Tasks) /\ Append(f.woken, t0) \in Seq(Tasks)
  BY <1>13, AppendProperties DEF Frames
<1>16. /\ g \in Frames /\ g.em = f.em /\ g.ev = f.ev /\ g.key = f.key /\ g.att = f.att
       /\ g.who = f.who /\ g.todo = f.todo /\ g.woken = Append(f.woken, t0)
  BY <1>13, <1>15 DEF Frames
<1> HIDE DEF g
<1>17. Steady(Tasks, w1, <<g>> \o u, w1, <<f>> \o u)  BY <1>13, <1>14, <1>16, HeadSteady
<1>18. Steady(Tasks, waiting', stack', w1, s1)  BY <1>1, <1>13, <1>17
<1>19. ~Out(waiting', stack', t0)  BY <1>1, <1>10 DEF Out
<1>20. Steady(Tasks \ {t0}, waiting', stack', waiting, stack)
  <2>1. Steady(Tasks \ {t0}, waiting', stack', w1, s1)  BY <1>18 DEF Steady
  <2>2. Steady(Tasks \ {t0}, w1, s1, waiting, stack)  BY <1>8, <1>9, SteadyTwice
  <2> QED  BY <2>1, <2>2, SteadyTwice
<1>21. \A t : Woken(stack', t) <=> Woken(stack, t) \/ t = t0
  <2>1. OnTop(stack', g, u)  BY <1>1, <1>13, <1>16, OnTopOk
  <2>2. \A t : InList(g.woken, t) <=> InList(f.woken, t) \/ t = t0
    BY <1>15, <1>16, AppendIn
  <2> QED  BY <1>7, <1>12, <1>13, <2>1, <2>2 DEF OnTop
<1>22. timers' \cap Tasks \subseteq timers \ {t0}  BY <1>1
<1>23. \A v \in Tasks \ {t0} :
          /\ co'[v] = co[v]
          /\ InList(ready, v) \/ Woken(stack, v) => InList(ready', v) \/ Woken(stack', v)
  BY <1>1, <1>21
<1>24. On[t0] = {} /\ St[t0] = "ready"
  <2>1. ~Out(waiting, stack, t0)  BY <1>4 DEF Out
  <2> QED  BY <1>6, <2>1, IdleSees
<1>25. /\ Apart' /\ (Found => Found') /\ St'[t0] = "ready"
       /\ St'[t0] = St[t0] /\ On[t0] = {} => St' = St /\ On' = On
  BY <1>1, <1>6, <1>19, <1>20, <1>21, <1>22, <1>23, OneGoes
<1> QED  BY <1>24, <1>25 DEF Goes

(* A step of a hook: the tasks stay where they are, but for a new one. *)
LEMMA PassGoes ==
    ASSUME Sound, Sound', Alone, Apart, timers' \cap Tasks = timers \cap Tasks,
           Steady(Tasks, waiting', stack', waiting, stack),
           \A t \in Tasks : Woken(stack, t) => Woken(stack', t),
           UNCHANGED <<co, ready>> \/ \E t \in Unborn : Spawn(t)
    PROVE  Goes
<1>1. CASE UNCHANGED <<co, ready>>  BY <1>1, QuietGoes
<1>2. ASSUME NEW t0 \in Unborn, Spawn(t0) PROVE Goes
  BY <1>2, SpawnGoes DEF Unborn, Spawn
<1> QED  BY <1>1, <1>2

(* Emptying the cell of a hook in the table and in a stack. *)
LEMMA WipeSteady ==
    ASSUME NEW w, NEW s \in Seq(Frames), NEW c, c \notin Tasks,
           waiting' = EmptyWaiting(w, c), stack' = EmptyStack(s, c)
    PROVE  Steady(Tasks, waiting', stack', w, s) /\ \A t : Woken(stack', t) <=> Woken(s, t)
<1> DEFINE w1 == EmptyWaiting(w, c)
           s1 == EmptyStack(s, c)
<1>1. Steady(Tasks \ {c}, w1, s1, w, s)  BY EmptySteady
<1>2. Tasks \ {c} = Tasks  OBVIOUS
<1>3. Calling(s1, s)  BY EmptyOk
<1>4. waiting' = w1 /\ stack' = s1  OBVIOUS
<1> HIDE DEF w1, s1
<1>5. \A t : Woken(s1, t) <=> Woken(s, t)  BY <1>3, CallingOk
<1> QED  BY <1>1, <1>2, <1>4, <1>5

(* A hook is emptied: the timers of the tasks stay. *)
LEMMA ClearTimers ==
    ASSUME NEW h \in Hooks, ClearHook(h)
    PROVE  timers' \cap Tasks = timers \cap Tasks
BY Names DEF ClearHook

(* The end of a hook's function. *)
LEMMA HookReturnsGoes ==
    ASSUME Sound, Sound', Alone, Apart, Actor \in Hooks, NEW killed \in BOOLEAN,
           HookReturns(killed, waiting)
    PROVE  Goes
<1> DEFINE f == Head(stack)
           u == Tail(stack)
           h == f.who
           g == [f EXCEPT !.who = None]
           s == <<g>> \o u
<1>0. stack \in Seq(Frames) /\ Table(waiting, Entries)  BY SoundTypes
<1>1. stack # <<>> /\ f.who \in Hooks  BY ActorType DEF Actor
<1>2. f \in Frames /\ u \in Seq(Frames) /\ stack = <<f>> \o u /\ OnTop(stack, f, u)
  BY <1>0, <1>1, TopOk
<1>3. /\ g \in Frames /\ g.em = f.em /\ g.ev = f.ev /\ g.key = f.key /\ g.att = f.att
      /\ g.todo = f.todo /\ g.woken = f.woken
  BY <1>2 DEF Frames
<1>4. /\ \/ /\ f.key = Timeout /\ ClearHook(h)
            /\ waiting' = EmptyWaiting(waiting, h) /\ stack' = EmptyStack(u, h)
         \/ /\ f.key # Timeout /\ ClearHook(h)
            /\ waiting' = EmptyWaiting(waiting, h) /\ stack' = EmptyStack(s, h)
         \/ /\ f.key # Timeout /\ timers' = timers
            /\ \E c \in {Emptied, h} : Reattach(c, waiting, s)
      /\ UNCHANGED <<co, ready>>
  <2>1. /\ \/ /\ f.key = Timeout /\ ClearHook(h)
              /\ waiting' = EmptyWaiting(waiting, h) /\ stack' = EmptyStack(u, h)
           \/ /\ f.key # Timeout /\ ClearHook(h)
              /\ waiting' = EmptyWaiting(waiting, h) /\ stack' = EmptyStack(s, h)
           \/ /\ f.key # Timeout /\ timers' = timers
              /\ Reattach(IF hook[h] = "emptied" THEN Emptied ELSE h, waiting, s)
        /\ UNCHANGED <<co, ready>>
    BY DEF HookReturns, KeepHook
  <2> HIDE DEF f, u, h, s
  <2> QED  BY <2>1
<1> HIDE DEF f, u, g
<1>5. s \in Seq(Frames) /\ s # <<>> /\ OnTop(s, g, u)  BY <1>2, <1>3, OnTopOk
<1>6. f.key # Timeout => Steady(Tasks, waiting, s, waiting, stack)
  <2> SUFFICES ASSUME f.key # Timeout PROVE Steady(Tasks, waiting, s, waiting, stack)
    OBVIOUS
  <2>1. Steady(Tasks, waiting, <<g>> \o u, waiting, <<f>> \o u)
    BY <1>2, <1>3, HeadSteady
  <2> QED  BY <1>2, <2>1
<1>7. \A t : Woken(s, t) <=> Woken(stack, t)  BY <1>2, <1>3, <1>5 DEF OnTop
<1> HIDE DEF s
<1>8. h \in Hooks /\ h \notin Tasks  BY <1>1, Names
<1>9. CASE f.key = Timeout /\ ClearHook(h)
             /\ waiting' = EmptyWaiting(waiting, h) /\ stack' = EmptyStack(u, h)
  <2>1. Fits(waiting, f) /\ Parsed(waiting, u)  BY <1>2, ConsHit DEF Apart
  <2>2. f.woken = <<>> /\ \A t \in Tasks : ~Finds(waiting, f, t)
    <3>1. f.woken = <<>> /\ \A t \in Tasks : ~InList(f.todo, t)  BY <1>9, <2>1 DEF Fits
    <3>2. f.key # Star  BY <1>9 DEF Star, Timeout
    <3> QED  BY <3>1, <3>2 DEF Finds
  <2>3. Steady(Tasks, waiting, u, waiting, stack)
    <3>1. \A t : Hit(waiting, stack, t) <=> Finds(waiting, f, t) \/ Hit(waiting, u, t)
      BY <1>2, ConsHit
    <3> QED  BY <2>1, <2>2, <3>1 DEF Steady
  <2>4. /\ Steady(Tasks, waiting', stack', waiting, u)
        /\ \A t : Woken(stack', t) <=> Woken(u, t)
    BY <1>2, <1>8, <1>9, WipeSteady
  <2>5. \A t : Woken(stack, t) => Woken(u, t)  BY <1>2, <2>2, NilIn DEF OnTop
  <2>6. Steady(Tasks, waiting', stack', waiting, stack)  BY <2>3, <2>4, SteadyTwice
  <2> HIDE DEF h
  <2>7. timers' \cap Tasks = timers \cap Tasks  BY <1>8, <1>9, ClearTimers
  <2> QED  BY <1>4, <2>4, <2>5, <2>6, <2>7, PassGoes
<1>10. CASE f.key # Timeout /\ ClearHook(h)
             /\ waiting' = EmptyWaiting(waiting, h) /\ stack' = EmptyStack(s, h)
  <2>1. /\ Steady(Tasks, waiting', stack', waiting, s)
        /\ \A t : Woken(stack', t) <=> Woken(s, t)
    BY <1>5, <1>8, <1>10, WipeSteady
  <2>2. Steady(Tasks, waiting', stack', waiting, stack)  BY <1>6, <1>10, <2>1, SteadyTwice
  <2> HIDE DEF h
  <2>3. timers' \cap Tasks = timers \cap Tasks  BY <1>8, <1>10, ClearTimers
  <2> QED  BY <1>4, <1>7, <2>1, <2>2, <2>3, PassGoes
<1>11. CASE f.key # Timeout /\ timers' = timers /\ \E c \in {Emptied, h} : Reattach(c, waiting, s)
  <2>1. PICK c \in {Emptied, h} : Reattach(c, waiting, s)  BY <1>11
  <2>2. c \in Entries /\ c \in Entries \ Tasks  BY <1>8, <2>1, Names
  <2>3. Steady(Tasks, waiting', stack', waiting, s)
    BY <1>0, <1>5, <2>1, <2>2, ReattachSteady
  <2>4. \A t : Woken(stack', t) <=> Woken(s, t)
    <3>1. Calling(stack', s)  BY <1>0, <1>5, <2>1, <2>2, ReattachOk
    <3> QED  BY <3>1, CallingOk
  <2>5. Steady(Tasks, waiting', stack', waiting, stack)  BY <1>6, <1>11, <2>3, SteadyTwice
  <2> QED  BY <1>4, <1>7, <1>11, <2>4, <2>5, PassGoes
<1> QED  BY <1>4, <1>9, <1>10, <1>11

(* The calls that hooks make too. *)
LEMMA AnyCallGoes == ASSUME Sound, Sound', Alone, Apart, Careful, AnyCall PROVE Goes
<1>0. Table(waiting, Entries) /\ stack \in Seq(Frames)  BY SoundTypes
<1>1. ASSUME NEW t0 \in Tasks, Run(t0) PROVE Goes
  <2>1. /\ waiting' = waiting /\ stack' = stack /\ timers' = timers
        /\ t0 \in Unborn /\ Spawn(t0)
    BY <1>1 DEF Run, cells, Unborn, Spawn
  <2>2. Steady(Tasks, waiting', stack', waiting, stack)  BY <2>1, SteadyNot
  <2> QED  BY <2>1, <2>2, PassGoes
<1>2. ASSUME NEW em \in Objects, NEW ev \in Events, Signal(em, ev) PROVE Goes
  <2>1. em \in Emitters /\ ev \in Keys \ {Star, Timeout}
    BY EventAssumption DEF Emitters, Keys
  <2>2. Emit(em, ev, FALSE, waiting, stack) /\ UNCHANGED <<co, timers>> /\ ready' = ready
    BY <1>2 DEF Signal, cells
  <2> QED  BY <2>1, <2>2, EmitGoes
<1>3. ASSUME NEW h \in Hooks, NEW kind \in {"hook", "once", "run", "runonce"},
             NEW em \in Known, NEW evs \in Lists(em), SigHook(h, kind, em, evs)
      PROVE  Goes
  <2> DEFINE S == {em} \X evs
  <2>1. S \in SUBSET Slots  BY ListsType, KnownType DEF Slots
  <2>2. /\ waiting' = Register(waiting, h, S) /\ stack' = stack
        /\ UNCHANGED <<co, ready>> /\ timers' \in {timers, timers \cup {h}}
    BY <1>3 DEF SigHook
  <2> HIDE DEF S
  <2>3. h \in Entries \ Tasks  BY Names
  <2>4. Steady(Tasks, waiting', stack', waiting, stack)
    <3>1. Steady(Tasks, Register(waiting, h, S), stack, waiting, stack)
      BY <1>0, <2>1, <2>3, RegisterSteady
    <3> QED  BY <2>2, <3>1
  <2>5. timers' \cap Tasks = timers \cap Tasks  BY <2>2, <2>3
  <2> QED  BY <2>2, <2>4, <2>5, PassGoes
<1>4. CASE Gc
  <2>1. waiting' = Collected(waiting, stack) /\ stack' = stack /\ UNCHANGED <<co, ready, timers>>
    BY <1>4 DEF Gc, cells
  <2>2. Steady(Tasks, waiting', stack', waiting, stack)
    <3>1. Steady(Tasks, Collected(waiting, stack), stack, waiting, stack)  BY CollectedSteady
    <3> QED  BY <2>1, <3>1
  <2> QED  BY <2>1, <2>2, PassGoes
<1>5. CASE KillSelf
  <2>1. CASE Actor \in Tasks  BY <1>5, <2>1, EndGoes DEF KillSelf
  <2>2. CASE Actor \notin Tasks
    <3>1. Actor \in Hooks  BY <1>5, <2>2, ActorType DEF KillSelf, May, Owners
    <3>2. HookReturns(TRUE, waiting)  BY <1>5, <2>2 DEF KillSelf
    <3> QED  BY <3>1, <3>2, HookReturnsGoes
  <2> QED  BY <2>1, <2>2
<1>6. ASSUME NEW x \in Tasks, KillSuspended(x) PROVE Goes  BY <1>6, KillSuspendedGoes
<1>7. ASSUME NEW x \in Tasks, KillNew(x) \/ KillGone(x) PROVE Goes
  <2>1. May("killnew") \/ May("killgone")  BY <1>7 DEF KillNew, KillGone, MayKill
  <2> QED  BY <2>1 DEF May, Careful
<1>8. ASSUME NEW h \in Hooks, KillHook(h) PROVE Goes
  <2>1. /\ ClearHook(h) /\ waiting' = EmptyWaiting(waiting, h) /\ stack' = EmptyStack(stack, h)
        /\ UNCHANGED <<co, ready>>
    BY <1>8 DEF KillHook
  <2>2. /\ Steady(Tasks, waiting', stack', waiting, stack)
        /\ \A t : Woken(stack', t) <=> Woken(stack, t)
    BY <1>0, <2>1, WipeSteady, Names
  <2>3. timers' \cap Tasks = timers \cap Tasks  BY <2>1, ClearTimers
  <2> QED  BY <2>1, <2>2, <2>3, PassGoes
<1> QED  BY <1>1, <1>2, <1>3, <1>4, <1>5, <1>6, <1>7, <1>8 DEF AnyCall

(* What the tasks see of the stack once the next cell, a hook's, is taken. *)
LEMMA TakenStill ==
    ASSUME stack \in Seq(Frames), NEW c, NextCell(c), c \notin Tasks
    PROVE  /\ Taken \in Seq(Frames) /\ Taken # <<>>
           /\ \A t : Woken(Taken, t) <=> Woken(stack, t)
           /\ Steady(Tasks, waiting, Taken, waiting, stack)
<1>1. Tasks \ {c} = Tasks  OBVIOUS
<1>2. Steady(Tasks \ {c}, waiting, Taken, waiting, stack)  BY TakenSteady
<1> QED  BY <1>1, <1>2, TakenOk

(* A hook is called. *)
LEMMA CallHookGoes ==
    ASSUME Sound, Sound', Alone, Apart, NEW h \in Hooks, CallHook(h) PROVE Goes
<1> DEFINE f == Head(Taken)
           u == Tail(Taken)
           g == [f EXCEPT !.who = h]
<1>1. /\ NextCell(h) /\ stack' = <<g>> \o u /\ waiting' = waiting
      /\ timers' = timers /\ UNCHANGED <<co, ready>>
  BY DEF CallHook
<1>2. /\ Taken \in Seq(Frames) /\ Taken # <<>>
      /\ \A t : Woken(Taken, t) <=> Woken(stack, t)
      /\ Steady(Tasks, waiting, Taken, waiting, stack)
  BY <1>1, SoundTypes, Names, TakenStill
<1>3. f \in Frames /\ u \in Seq(Frames) /\ Taken = <<f>> \o u /\ OnTop(Taken, f, u)
  BY <1>2, TopOk
<1> HIDE DEF f, u
<1>4. /\ g \in Frames /\ g.em = f.em /\ g.ev = f.ev /\ g.key = f.key /\ g.att = f.att
      /\ g.todo = f.todo /\ g.woken = f.woken /\ g.who = h
  BY <1>3 DEF Frames, Owners
<1> HIDE DEF g
<1>5. Steady(Tasks, waiting, <<g>> \o u, waiting, <<f>> \o u)  BY <1>3, <1>4, HeadSteady
<1>6. Steady(Tasks, waiting', stack', waiting, Taken)  BY <1>1, <1>3, <1>5
<1>7. Steady(Tasks, waiting', stack', waiting, stack)  BY <1>2, <1>6, SteadyTwice
<1>8. OnTop(stack', g, u)  BY <1>1, <1>3, <1>4, OnTopOk
<1>9. \A t : Woken(stack', t) <=> Woken(stack, t)  BY <1>2, <1>3, <1>4, <1>8 DEF OnTop
<1> QED  BY <1>1, <1>7, <1>9, PassGoes

(* The hook of a sigRun starts a task. *)
LEMMA CallSigRunGoes ==
    ASSUME Sound, Sound', Alone, Apart, NEW h \in Hooks, CallSigRun(h) PROVE Goes
<1>0. Table(waiting, Entries) /\ stack \in Seq(Frames)  BY SoundTypes
<1>1. NextCell(h) /\ timers' = timers  BY DEF CallSigRun
<1>2. /\ Taken \in Seq(Frames) /\ Taken # <<>>
      /\ \A t : Woken(Taken, t) <=> Woken(stack, t)
      /\ Steady(Tasks, waiting, Taken, waiting, stack)
  BY <1>0, <1>1, Names, TakenStill
<1>3. h \in Entries /\ h \in Entries \ Tasks  BY Names
<1>4. ASSUME NEW w, Table(w, Entries), Steady(Tasks, w, Taken, waiting, Taken),
             Reattach(h, w, Taken)
      PROVE  /\ Steady(Tasks, waiting', stack', waiting, stack)
             /\ \A t : Woken(stack', t) <=> Woken(stack, t)
  <2>1. Steady(Tasks, waiting', stack', w, Taken)
    BY <1>2, <1>3, <1>4, ReattachSteady
  <2>2. Steady(Tasks, waiting', stack', waiting, Taken)  BY <1>4, <2>1, SteadyTwice
  <2>3. Steady(Tasks, waiting', stack', waiting, stack)  BY <1>2, <2>2, SteadyTwice
  <2>4. Calling(stack', Taken)  BY <1>2, <1>3, <1>4, ReattachOk
  <2> QED  BY <1>2, <2>3, <2>4, CallingOk
<1>5. ASSUME NEW t0 \in Unborn, NEW h2 \in Unused, Spawn(t0),
             Reattach(h, Register(waiting, h2, {<<t0, Die>>}), Taken)
      PROVE  Goes
  <2> DEFINE w == Register(waiting, h2, {<<t0, Die>>})
  <2>1. Table(w, Entries)  BY <1>0, BornOk
  <2>2. {<<t0, Die>>} \in SUBSET Slots /\ h2 \in Entries \ Tasks
    BY Names DEF Unborn, Unused, Slots
  <2>3. Steady(Tasks, w, Taken, waiting, Taken)
    <3> HIDE DEF Die
    <3> QED  BY <1>0, <2>2, RegisterSteady
  <2>4. Reattach(h, w, Taken)  BY <1>5
  <2> HIDE DEF w
  <2>5. /\ Steady(Tasks, waiting', stack', waiting, stack)
        /\ \A t : Woken(stack', t) <=> Woken(stack, t)
    BY <1>4, <2>1, <2>3, <2>4
  <2> QED  BY <1>1, <1>5, <2>5, PassGoes
<1>6. ASSUME Reattach(h, waiting, Taken), UNCHANGED <<co, ready>> PROVE Goes
  <2>1. Steady(Tasks, waiting, Taken, waiting, Taken)  BY SteadyNot
  <2>2. /\ Steady(Tasks, waiting', stack', waiting, stack)
        /\ \A t : Woken(stack', t) <=> Woken(stack, t)
    BY <1>0, <1>4, <1>6, <2>1
  <2> QED  BY <1>1, <1>6, <2>2, PassGoes
<1> QED  BY <1>5, <1>6 DEF CallSigRun

(* The hook of a sigRunOnce starts a task and is emptied. *)
LEMMA CallSigRunOnceGoes ==
    ASSUME Sound, Sound', Alone, Apart, NEW h \in Hooks, CallSigRunOnce(h) PROVE Goes
<1>1. /\ NextCell(h) /\ ClearHook(h)
      /\ waiting' = EmptyWaiting(waiting, h) /\ stack' = EmptyStack(Taken, h)
      /\ UNCHANGED <<co, ready>> \/ \E t \in Unborn : Spawn(t)
  BY DEF CallSigRunOnce
<1>2. /\ Taken \in Seq(Frames) /\ Taken # <<>>
      /\ \A t : Woken(Taken, t) <=> Woken(stack, t)
      /\ Steady(Tasks, waiting, Taken, waiting, stack)
  BY <1>1, SoundTypes, Names, TakenStill
<1>3. /\ Steady(Tasks, waiting', stack', waiting, Taken)
      /\ \A t : Woken(stack', t) <=> Woken(Taken, t)
  BY <1>1, <1>2, Names, WipeSteady
<1>4. Steady(Tasks, waiting', stack', waiting, stack)  BY <1>2, <1>3, SteadyTwice
<1>5. timers' \cap Tasks = timers \cap Tasks  BY <1>1, ClearTimers
<1> QED  BY <1>1, <1>2, <1>3, <1>4, <1>5, PassGoes

(* The death of a task reaches the hook that watches it. *)
LEMMA CallPropagateGoes ==
    ASSUME Sound, Sound', Alone, Apart, NEW h \in Hooks, CallPropagate(h) PROVE Goes
<1> DEFINE w == EmptyWaiting(waiting, h)
           s == EmptyStack(Taken, h)
<1>1. PICK x \in Hooks \cup {None} : x = target[h]  BY SoundTypes
<1>2. PICK dead \in {{h}, {h, x}} :
         /\ timers' = timers \ dead
         /\ waiting' = IF x \in dead THEN EmptyWaiting(w, x) ELSE w
         /\ stack' = IF x \in dead THEN EmptyStack(s, x) ELSE s
  <2> DEFINE d == IF Suicide /\ hook[x] # "emptied" THEN {h, x} ELSE {h}
  <2>1. /\ timers' = timers \ d
        /\ waiting' = IF x \in d THEN EmptyWaiting(w, x) ELSE w
        /\ stack' = IF x \in d THEN EmptyStack(s, x) ELSE s
    BY <1>1, Zenon DEF CallPropagate
  <2>2. d \in {{h}, {h, x}}  OBVIOUS
  <2> HIDE DEF d
  <2> QED  BY <2>1, <2>2
<1>3. NextCell(h) /\ UNCHANGED <<co, ready>>  BY DEF CallPropagate
<1>4. x \notin Tasks /\ h \notin Tasks  BY <1>1, Names
<1>5. /\ Taken \in Seq(Frames) /\ Taken # <<>>
      /\ \A t : Woken(Taken, t) <=> Woken(stack, t)
      /\ Steady(Tasks, waiting, Taken, waiting, stack)
  BY <1>3, <1>4, SoundTypes, TakenStill
<1>6. /\ Steady(Tasks, w, s, waiting, stack) /\ s \in Seq(Frames)
      /\ \A t : Woken(s, t) <=> Woken(stack, t)
  <2>1. Steady(Tasks \ {h}, w, s, waiting, Taken)  BY <1>5, EmptySteady
  <2>2. Calling(s, Taken)  BY <1>5, EmptyOk
  <2> HIDE DEF w, s
  <2>3. Tasks \ {h} = Tasks  BY <1>4
  <2>4. Steady(Tasks, w, s, waiting, Taken)  BY <2>1, <2>3
  <2>5. Steady(Tasks, w, s, waiting, stack)  BY <1>5, <2>4, SteadyTwice
  <2> QED  BY <1>5, <2>2, <2>5, CallingOk DEF Calling
<1> HIDE DEF w, s
<1>7. Steady(Tasks, waiting', stack', w, s) /\ \A t : Woken(stack', t) <=> Woken(s, t)
  <2>1. CASE x \in dead  BY <1>2, <1>4, <1>6, <2>1, WipeSteady
  <2>2. CASE x \notin dead  BY <1>2, <2>2, SteadyNot
  <2> QED  BY <2>1, <2>2
<1>8. Steady(Tasks, waiting', stack', waiting, stack)  BY <1>6, <1>7, SteadyTwice
<1>9. timers' \cap Tasks = timers \cap Tasks  BY <1>2, <1>4
<1> QED  BY <1>3, <1>6, <1>7, <1>8, <1>9, PassGoes

(* The end of a queue. *)
LEMMA EndQueueGoes == ASSUME Sound, Sound', Apart, EndQueue PROVE Goes
<1>0. Table(waiting, Entries) /\ stack \in Seq(Frames) /\ ready \in Seq(Tasks)  BY SoundTypes, SMTT(40)
<1>1. co' = co /\ timers' = timers  BY DEF EndQueue, cells
<1>2. Steady(Tasks, waiting', stack', waiting, stack)
  BY <1>0, EndQueueSteady DEF Apart
<1>3. /\ Head(stack) \in Frames
      /\ OnTop(stack, Head(stack), Tail(stack))
      /\ \/ /\ ready' = ready
            /\ \A t : Woken(stack', t) <=> Woken(stack, t)
         \/ /\ ready' = ready \o Head(stack).woken
            /\ \A t : Woken(stack', t) <=> Woken(Tail(stack), t)
  BY <1>0, EndQueueOk
<1>4. \A t \in Tasks : InList(ready, t) \/ Woken(stack, t) => InList(ready', t) \/ Woken(stack', t)
  <2> DEFINE l == Head(stack).woken
  <2>1. l \in Seq(Tasks)  BY <1>3 DEF Frames
  <2>2. \A t : Woken(stack, t) <=> InList(l, t) \/ Woken(Tail(stack), t)  BY <1>3 DEF OnTop
  <2>3. \/ ready' = ready /\ \A t : Woken(stack', t) <=> Woken(stack, t)
        \/ ready' = ready \o l /\ \A t : Woken(stack', t) <=> Woken(Tail(stack), t)
    BY <1>3
  <2> HIDE DEF l
  <2>4. \A t : InList(ready \o l, t) <=> InList(ready, t) \/ InList(l, t)
    BY <1>0, <2>1, ConcatIn
  <2> QED  BY <2>2, <2>3, <2>4
<1> QED  BY <1>1, <1>2, <1>4, QuietGoes

(* The steps of a signal. *)
LEMMA ParseStepGoes == ASSUME Sound, Sound', Alone, Apart, ParseStep PROVE Goes
<1>1. CASE SkipEmptied
  <2>1. NextCell(Emptied) /\ stack' = Taken /\ waiting' = waiting
        /\ timers' = timers /\ UNCHANGED <<co, ready>>
    BY <1>1 DEF SkipEmptied, cells
  <2>2. /\ \A t : Woken(Taken, t) <=> Woken(stack, t)
        /\ Steady(Tasks, waiting, Taken, waiting, stack)
    BY <2>1, SoundTypes, Names, TakenStill
  <2>3. Steady(Tasks, waiting', stack', waiting, stack)  BY <2>1, <2>2
  <2> QED  BY <2>1, <2>2, <2>3, PassGoes
<1> QED
  BY <1>1, EndQueueGoes, WakeTaskGoes, CallHookGoes, CallSigRunGoes, CallSigRunOnceGoes,
     CallPropagateGoes
  DEF ParseStep

(* The calls that only hooks make. *)
LEMMA HookCallGoes == ASSUME Sound, Sound', Alone, Apart, Careful, HookCall PROVE Goes
<1>1. CASE HookDone
  <2>1. Actor \in Hooks /\ HookReturns(FALSE, waiting)  BY <1>1 DEF HookDone
  <2> QED  BY <2>1, HookReturnsGoes
<1>2. ASSUME NEW em \in Objects, NEW ev \in Events, BlockInHook(em, ev) PROVE Goes
  <2>1. May("block")  BY <1>2 DEF BlockInHook
  <2> QED  BY <2>1 DEF May, Careful
<1> QED  BY <1>1, <1>2 DEF HookCall

(* A timer calls a hook. *)
LEMMA TimerHookGoes ==
    ASSUME Sound, Sound', Alone, Apart, NEW h \in Hooks, TimerHook(h) PROVE Goes
<1>1. /\ stack = <<>> /\ UNCHANGED <<co, ready, waiting, timers>>
  BY DEF TimerHook, Loop
<1>2. PICK em \in Emitters :
         stack' = <<NewFrame(em, Timeout, FALSE, Timeout, <<>>, "none", h)>>
  BY DEF TimerHook
<1> DEFINE f == NewFrame(em, Timeout, FALSE, Timeout, <<>>, "none", h)
<1>3. f \in Frames
  <2>1. /\ Timeout \in Keys /\ Timeout \in Keys \cup {"resume"} /\ h \in Owners \cup {None}
        /\ <<>> \in Seq(Entries) /\ Entries \in SUBSET Entries
    BY Names, EmptySeq DEF Keys
  <2>2. LET g == NewFrame(em, Timeout, FALSE, Timeout, <<>>, "none", h)
        IN  g \in Frames /\ g.todo \in Seq(Entries)
    BY <2>1, NewFrameType
  <2> QED  BY <2>2
<1>4. f.key = Timeout /\ f.todo = <<>> /\ f.woken = <<>> /\ f.who = h /\ f.att = "none"
  BY DEF NewFrame
<1> HIDE DEF f
<1>5. stack' = <<f>> \o <<>> /\ <<>> \in Seq(Frames)  BY <1>2, <1>3, NilOk DEF f
<1>6. /\ \A w, t : Hit(w, stack', t) <=> Finds(w, f, t) \/ Hit(w, <<>>, t)
      /\ \A w : Parsed(w, stack') <=> Fits(w, f) /\ Parsed(w, <<>>)
  BY <1>3, <1>5, ConsHit
<1>7. \A w, t : ~Hit(w, stack', t)  BY <1>4, <1>6, NoHit, NilIn DEF Finds
<1>8. \A w : Parsed(w, stack')  BY <1>4, <1>6, NoHit, NilIn DEF Fits
<1>9. \A t : ~Hit(waiting, stack, t)  BY <1>1, NoHit
<1>10. Steady(Tasks, waiting', stack', waiting, stack)  BY <1>1, <1>7, <1>8, <1>9 DEF Steady
<1>11. \A t : ~Woken(stack, t)  BY <1>1, NilOk
<1> QED  BY <1>1, <1>10, <1>11, PassGoes

(* A timer starts the thread of a hook, if it can, and empties the hook. *)
LEMMA TimerRunGoes ==
    ASSUME Sound, Sound', Alone, Apart, NEW h \in Hooks, TimerRun(h) PROVE Goes
<1> DEFINE w == EmptyWaiting(waiting, h)
<1>1. /\ stack = <<>> /\ stack' = <<>>
      /\ \/ \E t \in Unborn, h2 \in Unused :
               /\ Spawn(t)
               /\ waiting' = Register(w, h2, {<<t, Die>>})
               /\ timers' = timers \ {h}
         \/ /\ ClearHook(h) /\ waiting' = w
            /\ (\E t \in Unborn : Spawn(t)) \/ UNCHANGED <<co, ready>>
  BY DEF TimerRun, Loop
<1>2. \A t : ~Woken(stack, t)  BY <1>1, NilOk
<1>3. Steady(Tasks, w, <<>>, waiting, <<>>)
  <2>1. EmptyStack(<<>>, h) = <<>>  BY DEF EmptyStack
  <2>2. <<>> \in Seq(Frames)  BY NilOk
  <2>3. Steady(Tasks, w, EmptyStack(<<>>, h), waiting, <<>>)  BY <2>2, EmptyHookSteady
  <2> HIDE DEF w
  <2> QED  BY <2>1, <2>3
<1>4. Table(w, Entries)  BY SoundTypes, EmptyAlone
<1> HIDE DEF w
<1>5. ASSUME NEW t0 \in Unborn, NEW h2 \in Unused, Spawn(t0),
             waiting' = Register(w, h2, {<<t0, Die>>}), timers' = timers \ {h}
      PROVE  Goes
  <2> DEFINE w1 == Register(w, h2, {<<t0, Die>>})
  <2>1. {<<t0, Die>>} \in SUBSET Slots /\ h2 \in Entries \ Tasks
    BY Names DEF Unborn, Unused, Slots
  <2>2. Steady(Tasks, w1, <<>>, w, <<>>)
    <3> HIDE DEF Die
    <3> QED  BY <1>4, <2>1, RegisterSteady
  <2>3. waiting' = w1  BY <1>5
  <2> HIDE DEF w1
  <2>4. Steady(Tasks, w1, <<>>, waiting, <<>>)  BY <1>3, <2>2, SteadyTwice
  <2>5. Steady(Tasks, waiting', stack', waiting, stack)  BY <1>1, <2>3, <2>4
  <2>6. timers' \cap Tasks = timers \cap Tasks  BY <1>5, Names
  <2> QED  BY <1>2, <1>5, <2>5, <2>6, PassGoes
<1>6. ASSUME ClearHook(h), waiting' = w,
             (\E t \in Unborn : Spawn(t)) \/ UNCHANGED <<co, ready>>
      PROVE  Goes
  <2>1. Steady(Tasks, waiting', stack', waiting, stack)  BY <1>1, <1>3, <1>6
  <2>2. timers' \cap Tasks = timers \cap Tasks  BY <1>6, ClearTimers
  <2> QED  BY <1>2, <1>6, <2>1, <2>2, PassGoes
<1> QED  BY <1>1, <1>5, <1>6

(* The steps of the loop. *)
LEMMA LoopStepGoes == ASSUME Sound, Sound', Alone, Apart, LoopStep PROVE Goes
<1>1. ASSUME StartLoop \/ TimersDone \/ SelectDone PROVE Goes
  <2>1. UNCHANGED <<co, ready, waiting, stack, timers>>
    BY <1>1 DEF StartLoop, TimersDone, SelectDone, cells
  <2>2. Steady(Tasks, waiting', stack', waiting, stack)  BY <2>1, SteadyNot
  <2> QED  BY <2>1, <2>2, PassGoes
<1>2. CASE StepDone
  <2>1. /\ UNCHANGED <<co, ready, stack, timers>>
        /\ waiting' = Collected(waiting, stack) \/ waiting' = waiting
    BY <1>2 DEF StepDone
  <2>2. Steady(Tasks, Collected(waiting, stack), stack, waiting, stack)  BY CollectedSteady
  <2>3. Steady(Tasks, waiting', stack', waiting, stack)  BY <2>1, <2>2, SteadyNot
  <2> QED  BY <2>1, <2>3, PassGoes
<1>3. ASSUME NEW em \in Objects, NEW ev \in Events, LoopSignal(em, ev) PROVE Goes
  <2>1. em \in Emitters /\ ev \in Keys \ {Star, Timeout}
    BY EventAssumption DEF Emitters, Keys
  <2>2. Emit(em, ev, FALSE, waiting, stack) /\ UNCHANGED <<co, timers>> /\ ready' = ready
    BY <1>3 DEF LoopSignal, cells
  <2> QED  BY <2>1, <2>2, EmitGoes
<1> QED
  BY <1>1, <1>2, <1>3, ResumeGoes, TimerTaskGoes, TimerHookGoes, TimerRunGoes DEF LoopStep

(* Every step. *)
LEMMA NextGoes == ASSUME Sound, Sound', Alone, Apart, Careful, [Next]_vars PROVE Goes
<1>1. CASE UNCHANGED vars
  <2>1. UNCHANGED <<co, ready, waiting, stack, timers>>  BY <1>1 DEF vars
  <2>2. Steady(Tasks, waiting', stack', waiting, stack)  BY <2>1, SteadyNot
  <2> QED  BY <2>1, <2>2, PassGoes
<1>2. CASE Next
  BY <1>2, TaskCallGoes, AnyCallGoes, HookCallGoes, ParseStepGoes, LoopStepGoes DEF Next
<1> QED  BY <1>1, <1>2

-----------------------------------------------------------------------------
(* The theorems *)

(* A call in progress never finds in its own queue a task that came after *)
(* it started, and no task is lost (sched/init.lua:645-698).              *)
THEOREM SafeInvariant == ASSUME Careful PROVE Spec => []Safe
<1>1. Init => Safe  BY InitSafe
<1>2. Sound /\ Sound' /\ Placed /\ Safe /\ [Next]_vars => Safe'
  BY NextGoes DEF Placed, Safe, Goes
<1> QED  BY <1>1, <1>2, SoundInvariant, PlacedInvariant, PTL DEF Spec

(* The scheduler implements TaskLife: although a signal is parsed cell by *)
(* cell while hooks run, signal, spawn and kill, each task lives as if a  *)
(* signal made ready at once exactly the tasks blocked on it when it was  *)
(* sent (sched/init.lua:645-698, 836-926, 1122-1144).                     *)
THEOREM SchedImplementsLife == ASSUME Careful PROVE Spec => LifeSpec
<1>1. Init => Life!Init  BY InitSafe
<1>2. Sound /\ Sound' /\ Placed /\ Safe /\ [Next]_vars => [Life!Next]_(Life!vars)
  BY NextGoes DEF Placed, Safe, Goes, Life!vars
<1> QED
  BY <1>1, <1>2, SoundInvariant, PlacedInvariant, SafeInvariant, PTL
  DEF Spec, LifeSpec, Life!Spec

(* The places where a task waits to be resumed. *)
LEMMA WakeupsIn ==
    \A t, x : x \in Wakeups(t) <=>
       \/ \E i \in DOMAIN ready : ready[i] = t /\ x = <<0, i>>
       \/ \E j \in DOMAIN stack : \E i \in DOMAIN stack[j].woken :
             stack[j].woken[i] = t /\ x = <<j, i>>
BY DEF Wakeups

(* There is one at most. *)
LEMMA OneWakeup ==
    ASSUME Alone, NEW t \in Tasks, NEW x \in Wakeups(t), NEW y \in Wakeups(t)
    PROVE  x = y
<1>1. CASE InList(ready, t)
  <2>1. \A j \in DOMAIN stack : \A i \in DOMAIN stack[j].woken : stack[j].woken[i] # t
    BY <1>1 DEF Alone, Woken, InList
  <2>2. PICK i \in DOMAIN ready : ready[i] = t /\ x = <<0, i>>  BY <2>1, WakeupsIn
  <2>3. PICK k \in DOMAIN ready : ready[k] = t /\ y = <<0, k>>  BY <2>1, WakeupsIn
  <2>4. i = k  BY <2>2, <2>3 DEF Alone, Distinct
  <2> QED  BY <2>2, <2>3, <2>4
<1>2. CASE ~InList(ready, t)
  <2>1. \A i \in DOMAIN ready : ready[i] # t  BY <1>2 DEF InList
  <2>2. PICK j \in DOMAIN stack : \E i \in DOMAIN stack[j].woken :
           stack[j].woken[i] = t /\ x = <<j, i>>
    BY <2>1, WakeupsIn
  <2>3. PICK i \in DOMAIN stack[j].woken : stack[j].woken[i] = t /\ x = <<j, i>>  BY <2>2
  <2>4. PICK l \in DOMAIN stack : \E k \in DOMAIN stack[l].woken :
           stack[l].woken[k] = t /\ y = <<l, k>>
    BY <2>1, WakeupsIn
  <2>5. PICK k \in DOMAIN stack[l].woken : stack[l].woken[k] = t /\ y = <<l, k>>  BY <2>4
  <2>6. j = l /\ i = k  BY <2>3, <2>5 DEF Alone, Spread
  <2> QED  BY <2>3, <2>5, <2>6
<1> QED  BY <1>1, <1>2

(* A task has one when it is ready, or to be made ready. *)
LEMMA SomeWakeup ==
    \A t : (\E x : x \in Wakeups(t)) <=> InList(ready, t) \/ Woken(stack, t)
<1> TAKE t
<1>1. ASSUME InList(ready, t) PROVE \E x : x \in Wakeups(t)
  <2>1. PICK i \in DOMAIN ready : ready[i] = t  BY <1>1 DEF InList
  <2>2. <<0, i>> \in Wakeups(t)  BY <2>1, WakeupsIn
  <2> QED  BY <2>2
<1>2. ASSUME Woken(stack, t) PROVE \E x : x \in Wakeups(t)
  <2>1. PICK j \in DOMAIN stack : InList(stack[j].woken, t)  BY <1>2 DEF Woken
  <2>2. PICK i \in DOMAIN stack[j].woken : stack[j].woken[i] = t  BY <2>1 DEF InList
  <2>3. <<j, i>> \in Wakeups(t)  BY <2>2, WakeupsIn
  <2> QED  BY <2>3
<1>3. ASSUME NEW x \in Wakeups(t) PROVE InList(ready, t) \/ Woken(stack, t)
  BY WakeupsIn DEF InList, Woken
<1> QED  BY <1>1, <1>2, <1>3

(* A living task that does not execute is in one place: in the ready list  *)
(* or among the tasks that a signal will make ready, once, or blocked on a *)
(* cell that a signal or a timer will find (sched/init.lua:281-310). It    *)
(* holds for any number of tasks and hooks, however deep the hooks nest,   *)
(* even when one signals an emitter whose signal is being processed.       *)
THEOREM NobodyLost == ASSUME Careful PROVE Spec => []TaskPlacement
<1>1. Placed /\ Safe => TaskPlacement
  <2> SUFFICES ASSUME Placed, Safe, NEW t \in Tasks
               PROVE  /\ co[t] \in {"created", "suspended"} =>
                            IF HasCell(t) THEN Wakeups(t) = {}
                            ELSE \E x \in Wakeups(t) : Wakeups(t) = {x}
                      /\ co[t] = "active" => Wakeups(t) = {} /\ ~HasCell(t)
    BY DEF TaskPlacement
  <2>1. Alone /\ Found  BY DEF Placed, Safe
  <2>2. ASSUME co[t] = "active" PROVE Wakeups(t) = {} /\ ~HasCell(t)
    <3>1. ~HasCell(t) /\ ~InList(ready, t) /\ ~Woken(stack, t)  BY <2>1, <2>2 DEF Alone
    <3> QED  BY <3>1, SomeWakeup
  <2>3. ASSUME HasCell(t) PROVE Wakeups(t) = {}
    <3>1. ~InList(ready, t) /\ ~Woken(stack, t)  BY <2>1, <2>3 DEF Alone
    <3> QED  BY <3>1, SomeWakeup
  <2>4. ASSUME co[t] \in {"created", "suspended"}, ~HasCell(t)
        PROVE  \E x \in Wakeups(t) : Wakeups(t) = {x}
    <3>1. InList(ready, t) \/ Woken(stack, t)  BY <2>1, <2>4 DEF Found
    <3>2. PICK x : x \in Wakeups(t)  BY <3>1, SomeWakeup
    <3>3. \A y \in Wakeups(t) : y = x  BY <2>1, <3>2, OneWakeup
    <3> QED  BY <3>2, <3>3
  <2> QED  BY <2>2, <2>3, <2>4
<1> QED  BY <1>1, PlacedInvariant, SafeInvariant, PTL
=============================================================================
