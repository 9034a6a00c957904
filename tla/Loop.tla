-------------------------------- MODULE Loop --------------------------------
(***************************************************************************)
(* The main loop (sched/platform.lua) with what it turns: the timers, the  *)
(* watch lists, the POSIX signals and select.  The scheduler is reduced to *)
(* its list of ready tasks and to what each blocked task waits for; the    *)
(* kernel is the clock, the readiness of the descriptors and the signals.  *)
(***************************************************************************)
EXTENDS Timer, Watch, PosixSignal

CONSTANTS Tasks, Timers, \* strings; a timer is an object of a client
          Delays,    \* of the waits; NoTimeout for none
          Periods,   \* what nextevent adds to the clock; 0 for no next date
          Instances, \* what a behaviour uses, a set of [tasks, timers, watches,
                     \* handlers, time, ops, arrivals]: the tasks, the timers, the
                     \* pairs <<rw, fd>>, the signals caught from the start, and
                     \* the bounds of clock, calls and signals
          Corners    \* a subset of {"cancel when due", "dropped watch"}

None == "none"

ASSUME LoopConstants ==
  /\ IsFiniteSet(Tasks) /\ None \notin Tasks /\ Periods \subseteq Nat
  /\ Delays \subseteq Nat \cup {NoTimeout}
  /\ \A i \in Instances :
       /\ i.tasks \subseteq Tasks /\ i.timers \subseteq Timers
       /\ i.watches \subseteq RW \X Fds /\ i.handlers \subseteq Signals

VARIABLES pc,         \* where the loop is
          loop_state,
          now,
          events, firing, \* timers; the date being fired, its timers, the clock read
          nd,         \* the field nd of the timers
          watch,
          tasks,      \* task -> [st, em, rw, due, event]
          ready, running,
          sigBuffer, handlers, \* the ring, and the signals with a handler
          raised,     \* signals pending in the kernel
          avail, dirty, open,  \* readiness, sockets with buffered data, open sockets
          sel,        \* the locals of fd_step and l_select
          use,        \* the instance
          ops, arrivals,
          armed,      \* history: the due date of each timer, as its client knows
          unheard     \* history: the signals caught and not delivered, the lost ones aside

clock == <<now, nd, events, armed>>
sched == <<tasks, ready>>
signals == <<sigBuffer, raised, unheard, arrivals>>
kernel == <<avail, dirty, open>>
vars == <<pc, loop_state, clock, firing, watch, sched, running, signals, handlers,
          kernel, sel, ops, use>>

NoTask == [st |-> "ready", em |-> 0, rw |-> None, due |-> NoDate, event |-> None]
Client(y) == [owner |-> y, due |-> NoDate]
Timeout(t, d) == [owner |-> t, due |-> d]

Waiting(t, em, rws) == tasks[t].st = "waiting" /\ tasks[t].em = em /\ tasks[t].rw \in rws

\* sched.signal: the tasks that wait for the event become ready.
WakeTasks(ts, event) ==
  /\ tasks' = [t \in Tasks |-> IF t \in ts THEN [tasks[t] EXCEPT !.st = "ready", !.event = event]
                               ELSE tasks[t]]
  /\ \E order \in SetToSeqs(ts) : ready' = ready \o order
Wake(em, rws, event) == WakeTasks({t \in Tasks : Waiting(t, em, rws)}, event)

NoSelect == [seen |-> 0, timeout |-> NoTimeout, received |-> FALSE, at |-> 0,
             since |-> 0, deadline |-> 0, dirty |-> <<>>, rset |-> {}, wset |-> {}, read |-> <<>>, write |-> <<>>]

NoFiring == [date |-> NoDate, left |-> {}, seen |-> 0]

Init ==
  /\ use \in Instances
  /\ pc = "timers" /\ loop_state = "running" /\ now = 0
  /\ events = NoEvents /\ firing = NoFiring
  /\ nd = [y \in Timers |-> NoDate] /\ armed = [y \in Timers |-> NoDate]
  /\ watch = NoWatch
  /\ tasks = [t \in Tasks |-> NoTask]
  /\ ready \in SetToSeqs(use.tasks) /\ running = None
  /\ sigBuffer = EmptyBuffer /\ handlers = use.handlers /\ raised = {} /\ unheard = <<>>
  /\ avail = [rw \in RW |-> {}] /\ dirty = {} /\ open = Fds
  /\ sel = NoSelect
  /\ ops = 0 /\ arrivals = 0

-----------------------------------------------------------------------------
(* timer.step *)

ReadClock ==
  /\ pc = "timers"
  /\ pc' = IF events.dates = <<>> THEN "tasks" ELSE "fire"
  /\ firing' = IF events.dates = <<>> THEN NoFiring ELSE [NoFiring EXCEPT !.seen = now]
  /\ UNCHANGED <<loop_state, clock, watch, sched, running, signals, handlers, kernel, sel, ops, use>>

NextDate ==
  /\ pc = "fire" /\ firing.left = {}
  /\ IF events.dates # <<>> /\ firing.seen >= Head(events.dates)
     THEN /\ firing' = [firing EXCEPT !.date = Head(events.dates),
                                      !.left = EntriesAt(events, Head(events.dates))]
          /\ events' = TakeDate(events) /\ UNCHANGED pc
     ELSE pc' = "tasks" /\ firing' = NoFiring /\ UNCHANGED events
  /\ UNCHANGED <<loop_state, now, nd, armed, watch, sched, running, signals, handlers, kernel, sel, ops, use>>

\* Mutant: the callback wakes its task from whatever wait it is in.
FireTimeout_Any(t) ==
  LET timer == Timeout(t, firing.date)
  IN /\ pc = "fire" /\ timer \in firing.left
     /\ firing' = [firing EXCEPT !.left = @ \ {timer}]
     /\ WakeTasks(IF tasks[t].st = "waiting" THEN {t} ELSE {}, "timeout")
     /\ UNCHANGED <<pc, loop_state, clock, watch, running, signals, handlers, kernel, sel, ops, use>>

\* The callback of a wait: it wakes its task, unless the wait is over.
FireTimeout(t) ==
  LET timer == Timeout(t, firing.date)
  IN /\ pc = "fire" /\ timer \in firing.left
     /\ firing' = [firing EXCEPT !.left = @ \ {timer}]
     /\ WakeTasks(IF tasks[t].st = "waiting" /\ tasks[t].due = firing.date THEN {t} ELSE {}, "timeout")
     /\ UNCHANGED <<pc, loop_state, clock, watch, running, signals, handlers, kernel, sel, ops, use>>

NextDates == {IF p = 0 THEN NoDate ELSE now + p : p \in Periods}

\* Corner "cancel when due": the timer of the callback, or one of the same date
\* whose turn has not come, is cancelled.
Cancellable(y, firer) ==
  "cancel when due" \in Corners \/ (y # firer /\ Client(y) \notin firing.left)

\* The callback of a client's timer, which may cancel another one; then the timer
\* is asked for its next date.
FireTimer(y, cancelled) ==
  /\ pc = "fire" /\ Client(y) \in firing.left
  /\ firing' = [firing EXCEPT !.left = @ \ {Client(y)}]
  /\ \A z \in cancelled : armed[z] # NoDate /\ Cancellable(z, y)
  /\ \E d \in NextDates :
       LET removed == {z \in cancelled : Registered(events, Client(z), nd[z])}
           left == RemoveTimers(events, {<<Client(z), nd[z]>> : z \in removed})
       IN /\ events' = AddTimer(left, Client(y), d)
          /\ nd' = [z \in Timers |-> IF z = y THEN d ELSE IF z \in removed THEN NoDate ELSE nd[z]]
          /\ armed' = [z \in Timers |-> IF z \in cancelled THEN NoDate
                                        ELSE IF z = y THEN d ELSE armed[z]]
  /\ UNCHANGED <<pc, loop_state, now, watch, sched, running, signals, handlers, kernel, sel, ops, use>>

Arm(y) ==
  /\ armed[y] = NoDate
  /\ \E d \in NextDates : /\ events' = AddTimer(events, Client(y), d)
                          /\ nd' = [nd EXCEPT ![y] = d] /\ armed' = [armed EXCEPT ![y] = d]

-----------------------------------------------------------------------------
(* sched.step *)

\* The next ready task resumes; wait_fd removes its watch and the data is read.
Resume ==
  /\ pc = "tasks" /\ running = None /\ ready # <<>>
  /\ running' = Head(ready) /\ ready' = Tail(ready)
  /\ LET w == tasks[Head(ready)]
     IN /\ watch' = IF w.rw \in RW THEN RemoveWatch(watch, w.rw, w.em) ELSE watch
        /\ avail' = IF w.event \in RW THEN [avail EXCEPT ![w.rw] = @ \ {w.em}] ELSE avail
  /\ tasks' = [tasks EXCEPT ![Head(ready)] = NoTask]
  /\ UNCHANGED <<pc, loop_state, clock, firing, signals, handlers, dirty, open, sel, ops, use>>

Call ==
  /\ pc = "tasks" /\ running # None /\ ops < use.ops /\ ops' = ops + 1
  /\ UNCHANGED <<pc, loop_state, now, firing, sel, use>>

Block(em, rw, due) ==
  /\ tasks' = [tasks EXCEPT ![running] = [st |-> "waiting", em |-> em, rw |-> rw, due |-> due, event |-> None]]
  /\ running' = None

\* wait_fd, after receive found no data, or send no room.
WaitFd(rw, fd, delay) ==
  LET due == IF delay = NoTimeout THEN NoDate ELSE now + delay
  IN /\ Call /\ fd \in open /\ ~Watched(watch, rw, fd)
     /\ watch' = AddWatch(watch, rw, fd, FALSE)
     /\ Block(fd, rw, due)
     /\ events' = IF due = NoDate THEN events ELSE AddEvent(events, Timeout(running, due), due)
     /\ dirty' = IF rw = "read" THEN dirty \ {fd} ELSE dirty
     /\ UNCHANGED <<nd, armed, ready, signals, handlers, avail, open>>

WaitSignal ==
  /\ Call /\ Block(0, "posixsignal", NoDate)
  /\ UNCHANGED <<nd, armed, events, watch, ready, signals, handlers, kernel>>

\* sched.fd.close, then the socket is closed.
CloseFd(fd) ==
  /\ watch' = Unwatch(watch, fd)
  /\ Wake(fd, RW, "closed")
  /\ open' = open \ {fd} /\ dirty' = dirty \ {fd}
  /\ avail' = [rw \in RW |-> avail[rw] \ {fd}]

Close(fd) ==
  /\ Call /\ fd \in open /\ CloseFd(fd)
  /\ UNCHANGED <<nd, armed, events, running, signals, handlers>>

WhenFd(rw, fd) ==
  /\ Call /\ fd \in open /\ ~Watched(watch, rw, fd)
  /\ watch' = AddWatch(watch, rw, fd, TRUE)
  /\ UNCHANGED <<nd, armed, events, sched, running, signals, handlers, kernel>>

\* Corner "dropped watch": the watch is that of a task in wait_fd.
Droppable(rw, fd) ==
  "dropped watch" \in Corners \/ \A t \in Tasks : tasks[t].rw = rw => tasks[t].em # fd

WhenFdNil(rw, fd) ==
  /\ Call /\ Watched(watch, rw, fd) /\ Droppable(rw, fd)
  /\ watch' = RemoveWatch(watch, rw, fd)
  /\ UNCHANGED <<nd, armed, events, sched, running, signals, handlers, kernel>>

ClientAdds(y) ==
  /\ Call /\ Arm(y)
  /\ UNCHANGED <<watch, sched, running, signals, handlers, kernel>>

ClientCancels(y) ==
  /\ Call /\ Registered(events, Client(y), nd[y])
  /\ events' = RemoveTimers(events, {<<Client(y), nd[y]>>})
  /\ nd' = [nd EXCEPT ![y] = NoDate] /\ armed' = [armed EXCEPT ![y] = NoDate]
  /\ UNCHANGED <<watch, sched, running, signals, handlers, kernel>>

\* signal(sig, true) and signal(sig): a handler, or none.
Listen(sig) ==
  /\ Call /\ handlers' = handlers \cup {sig}
  /\ UNCHANGED <<nd, armed, events, watch, sched, running, signals, kernel>>

Ignore(sig) ==
  /\ Call /\ handlers' = handlers \ {sig} /\ raised' = raised \ {sig}
  /\ UNCHANGED <<nd, armed, events, watch, sched, running, sigBuffer, unheard, arrivals, kernel>>

Stop ==
  /\ pc = "tasks" /\ running # None /\ loop_state' = "stopping"
  /\ UNCHANGED <<pc, clock, firing, watch, sched, running, signals, handlers, kernel, sel, ops, use>>

Kill(t) ==
  /\ Call /\ tasks[t].st = "waiting"
  /\ tasks' = [tasks EXCEPT ![t] = [NoTask EXCEPT !.st = "dead"]]
  /\ UNCHANGED <<nd, armed, events, watch, ready, running, signals, handlers, kernel>>

End ==
  /\ pc = "tasks" /\ running # None
  /\ tasks' = [tasks EXCEPT ![running] = [NoTask EXCEPT !.st = "dead"]] /\ running' = None
  /\ UNCHANGED <<pc, loop_state, clock, firing, watch, ready, signals, handlers, kernel, sel, ops, use>>

-----------------------------------------------------------------------------
(* fd_step, and l_select *)

\* No task is ready: the loop computes the timeout, and l_select blocks the signals.
EnterSelect ==
  LET date == NextEvent(events)
  IN /\ pc = "tasks" /\ running = None /\ ready = <<>> /\ pc' = "deliver"
     /\ sel' = [NoSelect EXCEPT !.seen = now, !.received = sigBuffer.nSig # 0,
                  !.at = FirstPending(sigBuffer),
                  !.timeout = IF date = NoDate THEN NoTimeout
                              ELSE IF date < now THEN 0 ELSE date - now]
     /\ UNCHANGED <<loop_state, clock, firing, watch, sched, running, signals, handlers, kernel, ops, use>>

\* step(): the signals of the ring are signalled; a hook may set a timer.
DeliverSignal ==
  /\ pc = "deliver" /\ sigBuffer.nSig > 0
  /\ Wake(0, {"posixsignal"}, "posixsignal")
  /\ sigBuffer' = Deliver(sigBuffer) /\ unheard' = Tail(unheard)
  /\ sel' = [sel EXCEPT !.at = (@ + 1) % MAX_SIGNALS]
  /\ UNCHANGED <<events, nd, armed>> \/ \E y \in use.timers : Arm(y)
  /\ UNCHANGED <<pc, loop_state, now, firing, watch, running, raised, arrivals, handlers, kernel, ops, use>>

Collected ==
  LET r == CheckDirty(watch.list["read"], open, dirty)
  IN [sel EXCEPT !.dirty = r.ready, !.rset = r.rest,
                 !.wset = ToSet(watch.list["write"]) \cap open,
                 !.since = now, !.deadline = now + EffectiveTimeout(Len(r.ready), sel.timeout),
                 !.timeout = EffectiveTimeout(Len(r.ready), @)]

Return(s, ret, rset, wset) ==
  LET r == ReturnFd(ret, s.dirty, rset, wset)
  IN pc' = "unmask" /\ sel' = [NoSelect EXCEPT !.read = r.read, !.write = r.write]

\* Mutant: select sleeps although signals were delivered.
Select_Sleeps ==
  /\ pc = "deliver" /\ sigBuffer.nSig = 0
  /\ pc' = "asleep" /\ sel' = Collected
  /\ UNCHANGED <<loop_state, clock, firing, watch, sched, running, signals, handlers, kernel, ops, use>>

\* pselect is not called when a signal was delivered.
Select ==
  /\ pc = "deliver" /\ sigBuffer.nSig = 0
  /\ IF sel.received THEN Return(Collected, -1, Collected.rset, Collected.wset)
     ELSE pc' = "asleep" /\ sel' = Collected
  /\ UNCHANGED <<loop_state, clock, firing, watch, sched, running, signals, handlers, kernel, ops, use>>

ReadyFds == [rset |-> sel.rset \cap avail["read"], wset |-> sel.wset \cap avail["write"]]
SomeReady == ReadyFds.rset \cup ReadyFds.wset # {}

SelectReady ==
  /\ pc = "asleep" /\ SomeReady /\ Return(sel, 1, ReadyFds.rset, ReadyFds.wset)
  /\ UNCHANGED <<loop_state, clock, firing, watch, sched, running, signals, handlers, kernel, ops, use>>

SelectTimeout ==
  /\ pc = "asleep" /\ ~SomeReady /\ sel.timeout # NoTimeout /\ now >= sel.deadline
  /\ Return(sel, 0, {}, {})
  /\ UNCHANGED <<loop_state, clock, firing, watch, sched, running, signals, handlers, kernel, ops, use>>

Catch(sig) ==
  /\ sigBuffer' = SignalHandler(sigBuffer, sig)
  /\ unheard' = LET u == Append(unheard, sig) IN IF Len(u) > MAX_SIGNALS THEN Tail(u) ELSE u

SelectInterrupted(sig) ==
  /\ pc = "asleep" /\ sig \in raised /\ raised' = raised \ {sig} /\ Catch(sig)
  /\ Return(sel, -1, sel.rset, sel.wset)
  /\ UNCHANGED <<loop_state, clock, firing, watch, sched, running, arrivals, handlers, kernel, ops, use>>

\* The mask of the caller is restored: the signals that came meanwhile are caught.
Unmask(sig) ==
  /\ pc = "unmask" /\ sig \in raised /\ raised' = raised \ {sig} /\ Catch(sig)
  /\ UNCHANGED <<pc, loop_state, clock, firing, watch, sched, running, arrivals, handlers, kernel, sel, ops, use>>

Unmasked ==
  /\ pc = "unmask" /\ raised = {} /\ pc' = "notify"
  /\ UNCHANGED <<loop_state, clock, firing, watch, sched, running, signals, handlers, kernel, sel, ops, use>>

\* notify_fd: the callback reads some data, may close a socket, and is dropped
\* unless it returns "again"; then the tasks are woken.
Notify(rw, fd, again, closed) ==
  LET func == fd \in watch.func[rw]
      w == IF closed = {} THEN watch ELSE Unwatch(watch, CHOOSE g \in closed : TRUE)
  IN /\ pc = "notify" /\ fd = Head(sel[rw]) /\ closed \subseteq open
     /\ ~func => closed = {} /\ again
     /\ watch' = IF func /\ ~again THEN RemoveWatch(w, rw, fd) ELSE w
     /\ \E order \in SetToSeqs({t \in Tasks : \E g \in closed : Waiting(t, g, RW)}) :
          LET woken == {t \in Tasks : Waiting(t, fd, {rw})} \ ToSet(order)
          IN /\ ready' = ready \o order \o SetToSeq(woken)
             /\ tasks' = [t \in Tasks |->
                  IF t \in ToSet(order) THEN [tasks[t] EXCEPT !.st = "ready", !.event = "closed"]
                  ELSE IF t \in woken THEN [tasks[t] EXCEPT !.st = "ready", !.event = rw]
                  ELSE tasks[t]]
     /\ open' = open \ closed
     /\ avail' = [x \in RW |-> avail[x] \ (closed \cup (IF func /\ x = rw THEN {fd} ELSE {}))]
     /\ dirty' \in IF func /\ rw = "read" /\ fd \in open'
                   THEN {dirty \ (closed \cup {fd}), (dirty \ closed) \cup {fd}}
                   ELSE {dirty \ closed}
     /\ sel' = [sel EXCEPT ![rw] = Tail(@)]
     /\ UNCHANGED <<pc, loop_state, clock, firing, running, signals, handlers, ops, use>>

Turn ==
  /\ pc = "notify" /\ sel.read = <<>> /\ sel.write = <<>>
  /\ pc' = IF loop_state = "running" THEN "timers" ELSE "stopped"
  /\ loop_state' = IF loop_state = "running" THEN loop_state ELSE "stopped"
  /\ sel' = NoSelect
  /\ UNCHANGED <<clock, firing, watch, sched, running, signals, handlers, kernel, ops, use>>

-----------------------------------------------------------------------------
(* The kernel *)

Masked == pc \in {"deliver", "unmask", "asleep"}

Tick ==
  /\ now < use.time /\ now' = now + 1
  /\ UNCHANGED <<pc, loop_state, nd, events, armed, firing, watch, sched, running, signals,
                 handlers, kernel, sel, ops, use>>

\* Readiness matters from the time pselect waits for it.
Becomes(rw, fd) ==
  /\ pc = "asleep" /\ fd \in sel[IF rw = "read" THEN "rset" ELSE "wset"] \ avail[rw]
  /\ avail' = [avail EXCEPT ![rw] = @ \cup {fd}]
  /\ UNCHANGED <<pc, loop_state, clock, firing, watch, sched, running, signals, handlers,
                 dirty, open, sel, ops, use>>

\* A process sends a signal: it is caught at once, or when pselect or the end of
\* l_select unblocks it; a signal already pending is sent once.  It matters
\* only before l_select looks at the ring, in pselect, and before the mask is
\* restored.
Arrive(sig) ==
  /\ pc \in {"tasks", "asleep", "unmask"} /\ (pc = "tasks" => running = None)
  /\ sig \in handlers /\ arrivals < use.arrivals /\ arrivals' = arrivals + 1
  /\ IF Masked THEN raised' = raised \cup {sig} /\ UNCHANGED <<sigBuffer, unheard>>
     ELSE Catch(sig) /\ UNCHANGED raised
  /\ UNCHANGED <<pc, loop_state, clock, firing, watch, sched, running, handlers, kernel, sel, ops, use>>

Operation ==
  \/ \E w \in use.watches, delay \in Delays : WaitFd(w[1], w[2], delay)
  \/ WaitSignal \/ Stop \/ End
  \/ \E w \in use.watches : WhenFd(w[1], w[2]) \/ WhenFdNil(w[1], w[2]) \/ Close(w[2])
  \/ \E y \in use.timers : ClientAdds(y) \/ ClientCancels(y)
  \/ \E sig \in Signals : Listen(sig) \/ Ignore(sig)
  \/ \E t \in Tasks : Kill(t)

Environment ==
  \/ Tick
  \/ \E rw \in RW, fd \in Fds : Becomes(rw, fd)
  \/ \E sig \in Signals : Arrive(sig)

Next ==
  \/ ReadClock \/ NextDate \/ Resume \/ EnterSelect \/ DeliverSignal \/ Select
  \/ \E t \in Tasks : FireTimeout(t)
  \/ \E y \in Timers, cancelled \in SUBSET Timers : FireTimer(y, cancelled)
  \/ SelectReady \/ SelectTimeout \/ Unmasked \/ Turn
  \/ \E sig \in Signals : SelectInterrupted(sig) \/ Unmask(sig)
  \/ \E rw \in RW, again \in BOOLEAN, closed \in {{}} \cup {{w[2]} : w \in use.watches} :
       /\ sel[rw] # <<>> /\ (rw = "write" => sel.read = <<>>)
       /\ Notify(rw, Head(sel[rw]), again, closed)
  \/ Operation
  \/ Environment

Spec == Init /\ [][Next]_vars

-----------------------------------------------------------------------------
(* Properties *)

\* The watch lists and their index agree, every date that has timers is in the
\* list of dates, and that list is sorted.
TypeOK ==
  /\ \A rw \in RW, fd \in Fds :
       LET i == watch.index[rw][fd]
       IN IF i = 0 THEN fd \notin ToSet(watch.list[rw])
          ELSE i \in DOMAIN watch.list[rw] /\ watch.list[rw][i] = fd
  /\ DOMAIN events.at \subseteq ToSet(events.dates)
  /\ \A i \in 1 .. Len(events.dates) - 1 : events.dates[i] <= events.dates[i + 1]
  /\ sigBuffer.nSig \in 0 .. MAX_SIGNALS

\* When the loop sleeps, everything that should run it again will: no task is
\* ready, no signal is kept, the sleep is none or ends by the date of every timer
\* and of every timed wait, late at most by the time that passed between the
\* clock being read and pselect being called, and each descriptor a task waits
\* for is in its set.
SleepsSafely ==
  pc = "asleep" =>
    /\ ready = <<>> /\ sigBuffer.nSig = 0
    /\ \A d \in {armed[y] : y \in Timers} \cup {tasks[t].due : t \in Tasks} :
         d # NoDate => /\ sel.timeout # NoTimeout
                       /\ sel.timeout = 0 \/ sel.deadline <= d + (sel.since - sel.seen)
    /\ \A t \in Tasks, fd \in Fds :
         /\ Waiting(t, fd, {"read"}) => fd \in sel.rset
         /\ Waiting(t, fd, {"write"}) => fd \in sel.wset

\* The ring holds the signals caught and not delivered, in order, the oldest ones
\* lost when more than MAX_SIGNALS came; the next one delivered is the oldest.
SignalsInOrder ==
  /\ sigBuffer.nSig = Len(unheard)
  /\ \A k \in 1 .. Len(unheard) :
       sigBuffer.sigs[(sigBuffer.lastI - sigBuffer.nSig + k) % MAX_SIGNALS] = unheard[k]
  /\ pc = "deliver" /\ unheard # <<>> => sigBuffer.sigs[sel.at] = Head(unheard)

Fires(y) == Client(y) \in firing.left /\ Client(y) \notin firing'.left
TimesOut(t) == tasks[t].st = "waiting" /\ tasks'[t].event = "timeout"

\* A timer fires for the date its client expects, and a wait times out at its due
\* date, neither of them early, after it was cancelled, or for an older date.
FiredAsArmed ==
  [][/\ \A y \in Timers : Fires(y) => armed[y] = firing.date /\ firing.date <= now
     /\ \A t \in Tasks : TimesOut(t) => tasks[t].due = firing.date /\ firing.date <= now]_vars
=============================================================================
