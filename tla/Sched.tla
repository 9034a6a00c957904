-------------------------------- MODULE Sched --------------------------------
(***************************************************************************)
(* The cooperative scheduler of sched/init.lua: tasks (coroutines), the    *)
(* ready list, the table of cells waiting for signals, hooks, and the      *)
(* synchronous processing of signals, one cell per step.                   *)
(*                                                                         *)
(* A cell of the program is a table shared by every queue it was           *)
(* registered in; it is emptied in place when it has fired or is killed.   *)
(* Here a queue holds the owner of the cell (a task blocks on one cell at  *)
(* a time, and a hook is its cell), and emptying a cell replaces its       *)
(* owner by Emptied wherever it occurs.                                    *)
(*                                                                         *)
(* `stack' is what the Lua stack holds while signals are processed: the    *)
(* frame of each active call of signal(), of a hook called by a timer, or  *)
(* of a kill() that has resumed its victim; the innermost is the head.     *)
(***************************************************************************)
EXTENDS Integers, Sequences, FiniteSets

CONSTANTS
    Tasks,      \* the coroutines sched.run may create (one id per creation)
    Hooks,      \* the hook cells that may be registered (one id per cell)
    Objects,    \* emitters which are neither tasks nor the clock
    Events,     \* event names a program signals
    Clock,      \* the emitter '*' that wait(n) registers on
    None,       \* nil
    TaskOps,    \* the API calls that tasks of this program make
    HookOps,    \* the API calls that its hooks make
    EventLists, \* the lists of events (and delays) they wait or hook for
    MaxDepth,   \* bound on nested signal(), kill() and hook activations
    MaxQueue    \* bound on the cells (emptied ones included) of a queue

Star    == "*"          \* the event wildcard
Die     == "die"
Timeout == "timeout"
Emptied == "emptied"    \* a cell without fields

Ops == {"run", "signal", "resignal", "yield", "wait", "multiwait", "sighook",
        "sigonce", "sigrun", "sigrunonce", "kill", "killready", "killnew",
        "killgone", "killhook", "killself", "finish", "gc", "block"}
Phases == {"main", "timer", "step", "select"}

ASSUME BoundAssumption == MaxDepth \in Nat /\ MaxQueue \in Nat
ASSUME OpsAssumption   == TaskOps \subseteq Ops /\ HookOps \subseteq Ops
ASSUME EventAssumption == Events \cap {Star, Timeout, "resume"} = {}
ASSUME ListAssumption  ==
    EventLists \subseteq SUBSET (Events \cup {Star, Die, Timeout})
ASSUME IdAssumption    ==
    /\ Emptied \notin Tasks \cup Hooks
    /\ None \notin Tasks \cup Hooks
    /\ Tasks \cap Hooks = {}
    /\ Objects \cap (Tasks \cup {Clock}) = {}

Emitters == Objects \cup Tasks \cup {Clock}
Keys     == Events \cup {Star, Die, Timeout}
Slots    == Emitters \X Keys
Owners   == Tasks \cup Hooks
Entries  == Owners \cup {Emptied}

VARIABLES
    co,         \* status of each coroutine
    ready,      \* __tasks.ready
    running,    \* __tasks.running
    current,    \* the coroutine step() has resumed, None in the loop itself
    waiting,    \* __tasks.waiting: slot -> queue; no slot, no queue
    timers,     \* owners of the cells some pending timer refers to
    hook,       \* what each hook cell is
    target,     \* the hook a propagate_killself cell would kill
    multi,      \* owners of the cells whose field `multi' is set
    cleanup,    \* CLEANUP_REQUIRED
    stack,      \* the signal, timer and kill calls in progress
    phase,      \* where sched.loop is
    regs        \* auxiliary: the slots each hook was registered in

vars  == <<co, ready, running, current, waiting, timers, hook, target, multi,
           cleanup, stack, phase, regs>>
cells == <<hook, target, multi, timers, cleanup, regs>>

HookKinds == {"free", "hook", "once", "run", "runonce", "propagate", "emptied"}

Frames ==
    [em    : Emitters,              \* signal's emitter,
     ev    : Keys,                  \* its event,
     slain : BOOLEAN,               \* and: false, KILL_TOKEN as its arguments
     key   : Keys \cup {"resume"},  \* the queue being parsed
     todo  : Seq(Entries),          \* what is left of old_queue
     woken : Seq(Tasks),            \* wokenup_tasks
     att   : {"queue", "row", "none"}, \* is new_queue, is emq, in the table?
     full  : BOOLEAN,               \* does a detached new_queue hold cells?
     who   : Owners \cup {None}]    \* hook, or killed task, now executing

-----------------------------------------------------------------------------
(* Queues and cells. *)

Without(w, S) == [x \in DOMAIN w \ S |-> w[x]]
RowOf(w, em)  == {p \in DOMAIN w : p[1] = em}

(* Mutants: the cell leaves a nil in the list; the cell of a hook or task *)
(* is replaced by a copy in the queues, or in the lists being parsed.     *)
EmptyIn_Hole(q, c) == [i \in DOMAIN q |-> IF q[i] = c THEN None ELSE q[i]]
EmptyIn(q, c)      == [i \in DOMAIN q |-> IF q[i] = c THEN Emptied ELSE q[i]]
EmptyWaiting(w, c) == [p \in DOMAIN w |-> EmptyIn(w[p], c)]
EmptyStack_Copy(s, c)   == s
EmptyStack(s, c)   == [i \in DOMAIN s |->
                         [s[i] EXCEPT !.todo = EmptyIn(s[i].todo, c)]]

(* Mutant: a new list replaces the queue of a slot. *)
Register_Overwrites(w, c, S) ==
    [p \in DOMAIN w \cup S |-> IF p \in S THEN <<c>> ELSE w[p]]
Register(w, c, S) ==
    [p \in DOMAIN w \cup S |->
        IF p \notin S THEN w[p]
        ELSE IF p \in DOMAIN w THEN Append(w[p], c) ELSE <<c>>]

HasRoom(S)  == \A p \in S \cap DOMAIN waiting : Len(waiting[p]) < MaxQueue
IsTimed(S)  == \E p \in S : p[2] = Timeout

Processing(s) == \E i \in DOMAIN s : s[i].key \notin {Timeout, "resume"}

LiveCell(c) == c # Emptied /\ ~(c \in Tasks /\ co[c] = "dead")
(* What gc keeps of a queue: the live cells, in their order. *)
Kept(q) ==
    LET live == {i \in DOMAIN q : LiveCell(q[i])}
    IN  [n \in 1 .. Cardinality(live) |->
            q[CHOOSE k \in live : Cardinality({j \in live : j < k}) = n - 1]]

Collected(w, s) ==
    LET kept == [p \in DOMAIN w |-> Kept(w[p])]
    IN  IF Processing(s) THEN kept
        ELSE Without(kept, {p \in DOMAIN w : kept[p] = <<>>})

-----------------------------------------------------------------------------
(* signal(): entering the call, and the frame it leaves on the stack. *)

NewFrame(em, ev, slain, key, todo, att, who) ==
    [em |-> em, ev |-> ev, slain |-> slain, key |-> key, todo |-> todo,
     woken |-> <<>>, att |-> att, full |-> FALSE, who |-> who]

(* Outer calls that were filling the queue of slot p: it becomes the      *)
(* old_queue of the call that now parses p, and their later insertions    *)
(* go to a list which nobody refers to.                                   *)
Displace(s, p, q) ==
    [i \in DOMAIN s |->
        IF <<s[i].em, s[i].key>> = p /\ s[i].att = "queue"
        THEN [s[i] EXCEPT !.att = "row", !.full = (q # <<>>)] ELSE s[i]]

(* Mutants: the queue is not replaced; the wildcard is not parsed. *)
Emit_KeepsQueue(em, ev, slain, w, s) ==
    /\ waiting' = w
    /\ stack' = IF <<em, ev>> \in DOMAIN w
                THEN <<NewFrame(em, ev, slain, ev, w[<<em, ev>>], "queue", None)>>
                       \o s
                ELSE s
Emit_NoWildcard(em, ev, slain, w, s) ==
    IF <<em, ev>> \in DOMAIN w
    THEN /\ waiting' = [w EXCEPT ![<<em, ev>>] = <<>>]
         /\ stack' = <<NewFrame(em, ev, slain, ev, w[<<em, ev>>], "queue", None)>>
                       \o Displace(s, <<em, ev>>, w[<<em, ev>>])
    ELSE waiting' = w /\ stack' = s

Emit(em, ev, slain, w, s) ==
    LET queues == {k \in {Star, ev} : <<em, k>> \in DOMAIN w}
        key    == IF Star \in queues THEN Star ELSE ev
        p      == <<em, key>>
    IN  IF queues = {}
        THEN waiting' = w /\ stack' = s
        ELSE /\ waiting' = [w EXCEPT ![p] = <<>>]
             /\ stack' = <<NewFrame(em, ev, slain, key, w[p], "queue", None)>>
                           \o Displace(s, p, w[p])

-----------------------------------------------------------------------------
(* Who executes: the loop, a task, or a hook. *)

Actor == IF stack = <<>> THEN current ELSE Head(stack).who

May(op) ==
    /\ Actor # None
    /\ op \in IF Actor \in Tasks THEN TaskOps ELSE HookOps

Loop(ph) == phase = ph /\ stack = <<>> /\ current = None

InProgress(em) == \E i \in DOMAIN stack :
                    stack[i].em = em /\ stack[i].key \notin {Timeout, "resume"}

(* A signal from an emitter whose signal is being processed is "resignal". *)
MayEmit(em) ==
    /\ Len(stack) < MaxDepth
    /\ May(IF InProgress(em) THEN "resignal" ELSE "signal")

Init ==
    /\ co = [t \in Tasks |-> "none"]
    /\ ready = <<>>
    /\ running = None
    /\ current = None
    /\ waiting = [p \in {} |-> <<>>]
    /\ timers = {}
    /\ hook = [h \in Hooks |-> "free"]
    /\ target = [h \in Hooks |-> None]
    /\ multi = {}
    /\ cleanup = FALSE
    /\ stack = <<>>
    /\ phase = "main"
    /\ regs = [h \in Hooks |-> {}]

-----------------------------------------------------------------------------
(* Calls made by tasks and hooks. *)

(* sched.run: by a task, a hook, or the program which will start the loop. *)
Run(t) ==
    /\ May("run") \/ Loop("main")
    /\ co[t] = "none"
    /\ co' = [co EXCEPT ![t] = "created"]
    /\ ready' = Append(ready, t)
    /\ UNCHANGED <<running, current, waiting, stack, phase, cells>>

Signal(em, ev) ==
    /\ MayEmit(em)
    /\ Emit(em, ev, FALSE, waiting, stack)
    /\ UNCHANGED <<co, ready, running, current, phase, cells>>

(* Mutant: step() signals 'die' without testing the coroutine's status. *)
Suspend_Dies(w) ==
    /\ running' = None
    /\ co' = [co EXCEPT ![Actor] = "suspended"]
    /\ current' = None
    /\ Emit(Actor, Die, FALSE, w, stack)

(* The coroutine yields: to step(), or to the kill() that resumed it,     *)
(* which then signals the death of its victim.                            *)
Suspend(w) ==
    /\ running' = None
    /\ co' = [co EXCEPT ![Actor] = "suspended"]
    /\ IF stack = <<>>
       THEN current' = None /\ waiting' = w /\ UNCHANGED stack
       ELSE Emit(Actor, Die, FALSE, w, Tail(stack)) /\ UNCHANGED current

(* The coroutine returns or fails; its resumer signals its death. *)
End(slain) ==
    /\ co' = [co EXCEPT ![Actor] = "dead"]
    /\ IF stack = <<>>
       THEN current' = None /\ Emit(Actor, Die, slain, waiting, stack)
       ELSE Emit(Actor, Die, FALSE, waiting, Tail(stack)) /\ UNCHANGED current
    /\ UNCHANGED <<ready, running, phase, cells>>

Finish == May("finish") /\ Actor \in Tasks /\ End(FALSE)

(* Mutant: wait() puts the task at the head of the ready list. *)
Yield_First ==
    /\ May("yield") /\ Actor \in Tasks /\ running # None
    /\ ready' = <<running>> \o ready
    /\ Suspend(waiting)
    /\ UNCHANGED <<phase, cells>>

(* wait(): back to the end of the ready list. *)
Yield ==
    /\ May("yield") /\ Actor \in Tasks /\ running # None
    /\ ready' = Append(ready, running)
    /\ Suspend(waiting)
    /\ UNCHANGED <<phase, cells>>

(* wait(emitter, events) and multiWait(emitters, events): S is the slots. *)
Block(S, isMulti) ==
    /\ Actor \in Tasks /\ running # None /\ HasRoom(S)
    /\ timers' = IF IsTimed(S) THEN timers \cup {running} ELSE timers
    /\ multi'  = IF isMulti THEN multi \cup {running} ELSE multi
    /\ Suspend(Register(waiting, running, S))
    /\ UNCHANGED <<ready, phase, hook, target, cleanup, regs>>

Wait(em, evs)       == May("wait") /\ Block({em} \X evs, Cardinality(evs) > 1)
MultiWait(ems, evs) == May("multiwait") /\ Block(ems \X evs, TRUE)

(* wait() without a running task is an error in the caller. *)
WaitFails ==
    /\ May("wait") /\ Actor \in Tasks /\ running = None
    /\ End(FALSE)

(* sigHook, sigOnce, sigRun, sigRunOnce. *)
SigHook(h, kind, em, evs) ==
    LET S == {em} \X evs
    IN  /\ May("sig" \o kind) /\ hook[h] = "free" /\ HasRoom(S)
        /\ hook' = [hook EXCEPT ![h] = kind]
        /\ regs' = [regs EXCEPT ![h] = S]
        /\ waiting' = Register(waiting, h, S)
        /\ timers' = IF IsTimed(S) THEN timers \cup {h} ELSE timers
        /\ multi' = IF Cardinality(evs) > 1 THEN multi \cup {h} ELSE multi
        /\ UNCHANGED <<co, ready, running, current, target, cleanup, stack,
                       phase>>

(* sched.gc called by the program. *)
Gc ==
    /\ May("gc")
    /\ waiting' = Collected(waiting, stack)
    /\ UNCHANGED <<co, ready, running, current, stack, phase, cells>>

-----------------------------------------------------------------------------
(* The end of a hook's function. *)

(* The fields of hook cell h are all set to nil. *)
ClearHook(h) ==
    /\ hook'   = [hook EXCEPT ![h] = "emptied"]
    /\ regs'   = [regs EXCEPT ![h] = {}]
    /\ timers' = timers \ {h}
    /\ multi'  = multi \ {h}
    /\ UNCHANGED target

KeepHook == UNCHANGED <<hook, regs, timers, multi, target>>

(* Mutant: the hook is not inserted in new_queue. *)
Reattach_Forgets(c, w, s) == waiting' = w /\ stack' = s

(* runcell reattaches cell c in new_queue; s's head is the call's frame. *)
Reattach(c, w, s) ==
    LET f == Head(s)
        p == <<f.em, f.key>>
    IN  IF f.att = "queue"
        THEN waiting' = [w EXCEPT ![p] = Append(w[p], c)] /\ stack' = s
        ELSE waiting' = w /\ stack' = <<[f EXCEPT !.full = TRUE]>> \o Tail(s)

(* After hook h: a hook called by a timer, killed, or registered once is  *)
(* emptied; another is reattached, even if its cell has been emptied.     *)
HookReturns(killed, w) ==
    LET f == Head(stack)
        h == f.who
        s == <<[f EXCEPT !.who = None]>> \o Tail(stack)
    IN  /\ IF f.key = Timeout
           THEN /\ ClearHook(h)
                /\ waiting' = EmptyWaiting(w, h)
                /\ stack' = EmptyStack(Tail(stack), h)
           ELSE IF killed \/ hook[h] = "once"
           THEN /\ ClearHook(h)
                /\ waiting' = EmptyWaiting(w, h)
                /\ stack' = EmptyStack(s, h)
           ELSE /\ Reattach(IF hook[h] = "emptied" THEN Emptied ELSE h, w, s)
                /\ KeepHook
        /\ UNCHANGED <<co, ready, current, cleanup, phase>>

(* Mutant: any end of a hook is taken for a KILL_TOKEN. *)
HookDone_Killed ==
    /\ May("finish") /\ Actor \in Hooks
    /\ HookReturns(TRUE, waiting)
    /\ UNCHANGED running
HookDone ==
    /\ May("finish") /\ Actor \in Hooks
    /\ HookReturns(FALSE, waiting)
    /\ UNCHANGED running

(* A hook calls wait(): the running task's cell is registered, then the   *)
(* yield fails and the hook with it.                                      *)
BlockInHook(em, ev) ==
    LET p == <<em, ev>>
    IN  /\ May("block") /\ Actor \in Hooks /\ running # None /\ HasRoom({p})
        /\ running' = None
        /\ HookReturns(FALSE, Register(waiting, running, {p}))

-----------------------------------------------------------------------------
(* sched.kill and sched.killSelf. *)

(* error(KILL_TOKEN): killSelf(), or kill() of the running task. *)
KillSelf ==
    /\ May("killself") \/ (May("kill") /\ running # None)
    /\ IF Actor \in Tasks
       THEN End(TRUE)
       ELSE HookReturns(TRUE, waiting) /\ UNCHANGED running

HasCell(x) ==
    \/ x \in timers
    \/ \E p \in DOMAIN waiting : \E i \in DOMAIN waiting[p] : waiting[p][i] = x
    \/ \E j \in DOMAIN stack :
          \E i \in DOMAIN stack[j].todo : stack[j].todo[i] = x

MayKill(op, x) == May(op) /\ x # running /\ Len(stack) < MaxDepth /\
                  (InProgress(x) => May("resignal"))

(* The victim's wait() empties its cell and fails: it dies. *)
KillSuspended(x) ==
    /\ MayKill(IF HasCell(x) THEN "kill" ELSE "killready", x)
    /\ co[x] = "suspended"
    /\ co' = [co EXCEPT ![x] = "dead"]
    /\ timers' = timers \ {x}
    /\ multi' = multi \ {x}
    /\ Emit(x, Die, FALSE, EmptyWaiting(waiting, x), EmptyStack(stack, x))
    /\ UNCHANGED <<ready, running, current, phase, hook, target, cleanup, regs>>

(* The victim has not started: it is resumed as if kill() were step(). *)
KillNew(x) ==
    /\ MayKill("killnew", x)
    /\ co[x] = "created"
    /\ co' = [co EXCEPT ![x] = "active"]
    /\ stack' = <<NewFrame(x, Die, FALSE, "resume", <<>>, "none", x)>> \o stack
    /\ UNCHANGED <<ready, running, current, waiting, phase, cells>>

(* The victim cannot be resumed; its death is signalled all the same. *)
KillGone(x) ==
    /\ MayKill("killgone", x)
    /\ co[x] \in {"dead", "active"}
    /\ Emit(x, Die, FALSE, waiting, stack)
    /\ UNCHANGED <<co, ready, running, current, phase, cells>>

KillHook(h) ==
    /\ May("killhook")
    /\ hook[h] \notin {"free", "propagate", "emptied"}
    /\ ClearHook(h)
    /\ waiting' = EmptyWaiting(waiting, h)
    /\ stack' = EmptyStack(stack, h)
    /\ cleanup' = TRUE
    /\ UNCHANGED <<co, ready, running, current, phase>>

-----------------------------------------------------------------------------
(* parse_queue: the cells of the innermost signal, one at a time. *)

Parsing == stack # <<>> /\ Head(stack).who = None

NextCell(c) == Parsing /\ Head(stack).todo # <<>> /\ Head(Head(stack).todo) = c

(* The stack once the next cell has been taken. *)
Taken == <<[Head(stack) EXCEPT !.todo = Tail(Head(stack).todo)]>> \o Tail(stack)

Noted_Never(c) == cleanup' = cleanup     \* mutant
Noted(c) == cleanup' = (cleanup \/ c \in multi)

SkipEmptied ==
    /\ NextCell(Emptied)
    /\ stack' = Taken
    /\ UNCHANGED <<co, ready, running, current, waiting, phase, cells>>

WakeTask(t) ==
    /\ NextCell(t)
    /\ Noted(t)
    /\ stack' = LET s == EmptyStack(Taken, t) IN
                <<[Head(s) EXCEPT !.woken = Append(Head(s).woken, t)]>> \o Tail(s)
    /\ waiting' = EmptyWaiting(waiting, t)
    /\ timers' = timers \ {t}
    /\ multi' = multi \ {t}
    /\ UNCHANGED <<co, ready, running, current, phase, hook, target, regs>>

CallHook(h) ==
    /\ NextCell(h)
    /\ hook[h] \in {"hook", "once"}
    /\ Noted(h)
    /\ stack' = <<[Head(Taken) EXCEPT !.who = h]>> \o Tail(Taken)
    /\ UNCHANGED <<co, ready, running, current, waiting, phase, hook, target,
                   multi, timers, regs>>

(* sigrun's hook runs f as task t. Without a coroutine left, run() fails  *)
(* inside the hook's xpcall.                                              *)
Unborn == {t \in Tasks : co[t] = "none"}
Unused == {h \in Hooks : hook[h] = "free"}

(* Mutant: the new thread is not inserted in the ready list. *)
Spawn_Unready(t) ==
    /\ co' = [co EXCEPT ![t] = "created"]
    /\ ready' = ready
Spawn(t) ==
    /\ co' = [co EXCEPT ![t] = "created"]
    /\ ready' = Append(ready, t)

(* The hook of sigRun, then sigonce(t, 'die', propagate_killself) in cell h2 *)
CallSigRun(h) ==
    /\ NextCell(h) /\ hook[h] = "run" /\ Noted(h)
    /\ \/ \E t \in Unborn, h2 \in Unused :
             /\ Spawn(t)
             /\ hook' = [hook EXCEPT ![h2] = "propagate"]
             /\ target' = [target EXCEPT ![h2] = h]
             /\ regs' = [regs EXCEPT ![h2] = {<<t, Die>>}]
             /\ Reattach(h, Register(waiting, h2, {<<t, Die>>}), Taken)
       \/ /\ Unborn = {} \/ Unused = {}
          /\ Reattach(h, waiting, Taken)
          /\ UNCHANGED <<co, ready, hook, target, regs>>
    /\ UNCHANGED <<running, current, phase, timers, multi>>

CallSigRunOnce(h) ==
    /\ NextCell(h) /\ hook[h] = "runonce" /\ Noted(h)
    /\ \/ \E t \in Unborn : Spawn(t)
       \/ Unborn = {} /\ UNCHANGED <<co, ready>>
    /\ ClearHook(h)
    /\ waiting' = EmptyWaiting(waiting, h)
    /\ stack' = EmptyStack(Taken, h)
    /\ UNCHANGED <<running, current, phase>>

(* The status and error of the die signal are false and KILL_TOKEN. *)
Suicide_Any == TRUE     \* mutant
Suicide     == Head(stack).slain

(* propagate_killself: a task which killed itself kills its sigRun hook.  *)
CallPropagate(h) ==
    LET x    == target[h]
        dead == IF Suicide /\ hook[x] # "emptied" THEN {h, x} ELSE {h}
        w    == EmptyWaiting(waiting, h)
        s    == EmptyStack(Taken, h)
    IN  /\ NextCell(h) /\ hook[h] = "propagate"
        /\ cleanup' = (cleanup \/ h \in multi \/ x \in dead)
        /\ hook' = [c \in Hooks |-> IF c \in dead THEN "emptied" ELSE hook[c]]
        /\ regs' = [c \in Hooks |-> IF c \in dead THEN {} ELSE regs[c]]
        /\ timers' = timers \ dead
        /\ multi' = multi \ dead
        /\ waiting' = IF x \in dead THEN EmptyWaiting(w, x) ELSE w
        /\ stack' = IF x \in dead THEN EmptyStack(s, x) ELSE s
        /\ UNCHANGED <<co, ready, running, current, phase, target>>

(* The end of parse_queue. An empty new_queue removes the queue of the    *)
(* slot, and an empty emq the emitter's row, whoever owns them by now;    *)
(* after '*' comes the event's own queue, and after it the woken tasks    *)
(* become ready.                                                          *)
EndQueue ==
    LET f     == Head(stack)
        p     == <<f.em, f.key>>
        empty == IF f.att = "queue" THEN waiting[p] = <<>> ELSE ~f.full
        gone  == IF f.att # "none" THEN {p} ELSE {}
        w1    == IF empty THEN Without(waiting, gone) ELSE waiting
        drop  == empty /\ (f.att = "none" \/ RowOf(w1, f.em) = {})
        w     == IF drop THEN Without(w1, RowOf(w1, f.em)) ELSE w1
        s     == IF drop
                 THEN [i \in DOMAIN stack |->
                         IF stack[i].em = f.em
                         THEN [stack[i] EXCEPT !.att = "none"] ELSE stack[i]]
                 ELSE stack
        q     == <<f.em, f.ev>>
        more  == f.key = Star /\ q \in DOMAIN w /\ Head(s).att # "none"
        next  == [NewFrame(f.em, f.ev, f.slain, f.ev, w[q], "queue", None)
                  EXCEPT !.woken = f.woken]
    IN  /\ Parsing /\ f.todo = <<>>
        /\ IF more
           THEN /\ waiting' = [w EXCEPT ![q] = <<>>]
                /\ stack' = <<next>> \o Displace(Tail(s), q, w[q])
                /\ UNCHANGED ready
           ELSE /\ waiting' = w
                /\ stack' = Tail(s)
                /\ ready' = ready \o f.woken
        /\ UNCHANGED <<co, running, current, phase, cells>>

-----------------------------------------------------------------------------
(* The loop: timer.step, sched.step, then fd.step. *)

StartLoop ==
    /\ Loop("main")
    /\ phase' = "timer"
    /\ UNCHANGED <<co, ready, running, current, waiting, stack, cells>>

(* timeout_callback, for a timer whose date has come; once its cell has   *)
(* been emptied it does nothing.                                          *)
TimerTask(t) ==
    /\ Loop("timer") /\ t \in timers
    /\ Noted(t)
    /\ ready' = Append(ready, t)
    /\ waiting' = EmptyWaiting(waiting, t)
    /\ timers' = timers \ {t}
    /\ multi' = multi \ {t}
    /\ UNCHANGED <<co, running, current, stack, phase, hook, target, regs>>

TimerHook(h) ==
    /\ Loop("timer") /\ h \in timers
    /\ hook[h] \in {"hook", "once"}
    /\ Noted(h)
    /\ \E em \in Emitters :
          /\ <<em, Timeout>> \in regs[h]
          /\ stack' = <<NewFrame(em, Timeout, FALSE, Timeout, <<>>, "none", h)>>
    /\ UNCHANGED <<co, ready, running, current, waiting, phase, hook, target,
                   multi, timers, regs>>

TimerRun(h) ==
    /\ Loop("timer") /\ h \in timers
    /\ hook[h] \in {"run", "runonce"}
    /\ Noted(h)
    /\ LET w == EmptyWaiting(waiting, h) IN
       \/ /\ hook[h] = "run"
          /\ \E t \in Unborn, h2 \in Unused :
                /\ Spawn(t)
                /\ hook' = [hook EXCEPT ![h] = "emptied", ![h2] = "propagate"]
                /\ target' = [target EXCEPT ![h2] = h]
                /\ regs' = [regs EXCEPT ![h] = {}, ![h2] = {<<t, Die>>}]
                /\ waiting' = Register(w, h2, {<<t, Die>>})
                /\ timers' = timers \ {h}
                /\ multi' = multi \ {h}
       \/ /\ hook[h] = "runonce"
          /\ \E t \in Unborn : Spawn(t)
          /\ ClearHook(h)
          /\ waiting' = w
       \/ /\ Unborn = {} \/ (hook[h] = "run" /\ Unused = {})
          /\ ClearHook(h)
          /\ waiting' = w
          /\ UNCHANGED <<co, ready>>
    /\ UNCHANGED <<running, current, stack, phase>>

TimersDone ==
    /\ Loop("timer")
    /\ phase' = "step"
    /\ UNCHANGED <<co, ready, running, current, waiting, stack, cells>>

(* step() takes the head of the ready list and resumes it; a coroutine    *)
(* that died while it was there is reported dead.                         *)
Resume ==
    LET t == Head(ready)
    IN  /\ Loop("step") /\ ready # <<>>
        /\ ready' = Tail(ready)
        /\ running' = t
        /\ IF co[t] = "dead"
           THEN /\ Emit(t, Die, FALSE, waiting, stack)
                /\ UNCHANGED <<co, current>>
           ELSE /\ co' = [co EXCEPT ![t] = "active"]
                /\ current' = t
                /\ UNCHANGED <<waiting, stack>>
        /\ UNCHANGED <<phase, cells>>

StepDone ==
    /\ Loop("step") /\ ready = <<>>
    /\ running' = None
    /\ waiting' = IF cleanup THEN Collected(waiting, stack) ELSE waiting
    /\ cleanup' = FALSE
    /\ phase' = "select"
    /\ UNCHANGED <<co, ready, current, stack, hook, target, multi, timers, regs>>

(* A file descriptor, or another source of signals outside the tasks. *)
LoopSignal(em, ev) ==
    /\ Loop("select")
    /\ Emit(em, ev, FALSE, waiting, stack)
    /\ UNCHANGED <<co, ready, running, current, phase, cells>>

(* Mutant: the select call is given no timeout. *)
SelectDone_NoTimeout ==
    /\ Loop("select") /\ ready # <<>>
    /\ phase' = "timer"
    /\ UNCHANGED <<co, ready, running, current, waiting, stack, cells>>
SelectDone ==
    /\ Loop("select")
    /\ phase' = "timer"
    /\ UNCHANGED <<co, ready, running, current, waiting, stack, cells>>

-----------------------------------------------------------------------------
(* The event lists which make sense for an emitter: tasks emit 'die', and *)
(* the clock is waited for a delay and nothing else.                      *)
Lists(em) ==
    LET known == IF em \in Tasks THEN {Die} ELSE Events \cup {Star}
    IN  IF em = Clock THEN EventLists \cap {{Timeout}}
        ELSE {evs \in EventLists : evs \cap known # {}
                                   /\ evs \subseteq known \cup {Timeout}}

Created == {t \in Tasks : co[t] # "none"}
Known   == Objects \cup Created \cup {Clock}

TaskCall ==
    \/ Finish \/ Yield \/ WaitFails
    \/ \E em \in Known : \E evs \in Lists(em) : Wait(em, evs)
    \/ \E ems \in SUBSET (Known \ {Clock}) : Cardinality(ems) > 1
          /\ \E evs \in UNION {Lists(em) : em \in ems} : MultiWait(ems, evs)

AnyCall ==
    \/ \E t \in Tasks : Run(t)
    \/ \E em \in Objects, ev \in Events : Signal(em, ev)
    \/ \E h \in Hooks, kind \in {"hook", "once", "run", "runonce"}, em \in Known :
          \E evs \in Lists(em) : SigHook(h, kind, em, evs)
    \/ Gc \/ KillSelf
    \/ \E x \in Tasks : KillSuspended(x) \/ KillNew(x) \/ KillGone(x)
    \/ \E h \in Hooks : KillHook(h)

HookCall == HookDone \/ \E em \in Objects, ev \in Events : BlockInHook(em, ev)

ParseStep ==
    \/ SkipEmptied \/ EndQueue
    \/ \E t \in Tasks : WakeTask(t)
    \/ \E h \in Hooks : CallHook(h) \/ CallSigRun(h) \/ CallSigRunOnce(h)
                        \/ CallPropagate(h)

LoopStep ==
    \/ StartLoop \/ TimersDone \/ Resume \/ StepDone \/ SelectDone
    \/ \E t \in Tasks : TimerTask(t)
    \/ \E h \in Hooks : TimerHook(h) \/ TimerRun(h)
    \/ \E em \in Objects, ev \in Events : LoopSignal(em, ev)

Next == TaskCall \/ AnyCall \/ HookCall \/ ParseStep \/ LoopStep

Spec == Init /\ [][Next]_vars

-----------------------------------------------------------------------------
(* Properties. *)

(* Every variable has its type: the tables of `__tasks', the cells and    *)
(* the frames of the calls in progress (sched/init.lua:431-487).          *)
TypeOK ==
    /\ co \in [Tasks -> {"none", "created", "suspended", "active", "dead"}]
    /\ ready \in Seq(Tasks)
    /\ running \in Tasks \cup {None}
    /\ current \in Tasks \cup {None}
    /\ DOMAIN waiting \in SUBSET Slots
    /\ waiting \in [DOMAIN waiting -> Seq(Entries)]
    /\ timers \in SUBSET Owners
    /\ hook \in [Hooks -> HookKinds]
    /\ target \in [Hooks -> Hooks \cup {None}]
    /\ multi \in SUBSET Owners
    /\ cleanup \in BOOLEAN
    /\ stack \in Seq(Frames)
    /\ phase \in Phases
    /\ regs \in [Hooks -> SUBSET Slots]

Count(q, c) == Cardinality({i \in DOMAIN q : q[i] = c})

(* Where a task is in the ready list, or in the tasks about to be added.   *)
Wakeups(t) ==
    {<<0, i>> : i \in {k \in DOMAIN ready : ready[k] = t}} \cup
    UNION {{<<j, i>> : i \in {k \in DOMAIN stack[j].woken : stack[j].woken[k] = t}} :
              j \in DOMAIN stack}

(* A living task which does not execute is in exactly one place: it is    *)
(* ready, once, or it blocks on a cell that a signal or a timer will      *)
(* find (sched/init.lua:281-287). No wake-up is lost and none is doubled, *)
(* whatever the hooks called during the signal do.                        *)
TaskPlacement ==
    \A t \in Tasks :
        /\ co[t] \in {"created", "suspended"} =>
              IF HasCell(t) THEN Wakeups(t) = {} ELSE \E x \in Wakeups(t) : Wakeups(t) = {x}
        /\ co[t] = "active" => Wakeups(t) = {} /\ ~HasCell(t)

(* A registered hook is found by the next signal on each of its slots: it *)
(* is in the slot's queue, or it is being handled by a call in progress   *)
(* on that slot (sched/init.lua:236 "hooks won't miss an signal").        *)
HooksNotMissed ==
    \A h \in Hooks : \A p \in regs[h] :
        \/ p \in DOMAIN waiting /\ Count(waiting[p], h) > 0
        \/ \E j \in DOMAIN stack :
              /\ <<stack[j].em, stack[j].key>> = p
              /\ Count(stack[j].todo, h) > 0 \/ stack[j].who = h

(* A hook which has been killed, or has run for the last time, is left in *)
(* no queue, no list of cells to parse and no timer: it is never called   *)
(* again, even when it is killed by a hook called before it or by itself  *)
(* (sched/init.lua:1127, 600-625).                                        *)
NoZombieHook == \A h \in Hooks : hook[h] = "emptied" => ~HasCell(h)

(* A sigOnce hook is called at most once: it is never entered again while *)
(* it runs, and afterwards it is emptied (sched/init.lua:971-972).        *)
OnceRunsOnce ==
    \A i, j \in DOMAIN stack :
        i # j /\ stack[i].who = stack[j].who /\ stack[i].who \in Hooks
            => hook[stack[i].who] # "once"

(* No emptied cell stays in the table without CLEANUP_REQUIRED being set, *)
(* so that the next idle period collects it (sched/init.lua:1075-1076     *)
(* "triggered automatically when it's needed").                           *)
CleanupRemembered ==
    stack = <<>> /\ (\E p \in DOMAIN waiting : Count(waiting[p], Emptied) > 0)
        => cleanup

(* A die signal starts exactly when its task dies (sched/init.lua:306:    *)
(* the termination of a task is advertised by a 'die' signal).            *)
DieStarts(t) ==
    /\ stack' # <<>>
    /\ Head(stack').em = t /\ Head(stack').ev = Die
    /\ Head(stack').key # "resume"
    /\ \/ Len(stack') > Len(stack)
       \/ Len(stack') = Len(stack) /\ Head(stack).key = "resume"
DieAtDeath ==
    [][\A t \in Tasks : DieStarts(t) => co[t] # "dead" /\ co'[t] = "dead"]_vars

(* A hook registered with sigHook or sigRun, without a delay, whose timer *)
(* would detach it, stays registered until it is killed or kills itself   *)
(* (sched/init.lua:217-219), or a task started by the sigRun hook kills   *)
(* itself (998-1003).                                                     *)
HookStays ==
    [][\A h \in Hooks :
         hook[h] \in {"hook", "run"} /\ ~IsTimed(regs[h]) /\ hook'[h] = "emptied"
            => \/ KillHook(h)
               \/ KillSelf /\ Actor = h
               \/ \E h2 \in Hooks : target[h2] = h /\ Head(stack).slain
                                    /\ CallPropagate(h2)]_vars

=============================================================================
