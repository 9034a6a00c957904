# A TLA+ model of luasched

luasched is a cooperative scheduler for Lua (`src/sched/`) with the modules that
live on it: timers, file descriptors, locks, pipes, RPC, logs, a shell. This
directory holds TLA+ modules translated from the source, TLC configurations that
check them on small instances, and theorems that TLAPS proves for every instance.

    tlc -config Sched_hooks.cfg MCSched.tla      # model-check one run
    tlc -config Lock_all.cfg Lock.tla
    tlc -config Pipe_fifo.cfg MCPipe.tla
    tlapm SchedProofs.tla                        # and LifeProofs, LockProofs, PipeProofs,
                                                 # RpcProofs, LoopProofs, LogProofs, ShellProofs

## 1. Inventory of the system

| component | state | operations | what makes it correct |
|---|---|---|---|
| scheduler core, `sched/init.lua` | `__tasks.ready`, `.waiting` (emitter -> event -> list of cells), `.running`, `.signal_processing`, `CLEANUP_REQUIRED`; cells shared by several lists | run, wait, multiWait, signal, sigHook, sigOnce, sigRun, sigRunOnce, kill, killSelf, gc, step, the timeout callbacks | no wake-up lost or doubled; no hook missed or called after its end; one `die` per death; ready tasks run; timers fire; emptied cells are collected |
| main loop, `sched/platform.lua` | `loop_state` | loop, stop | timers, tasks and descriptors are all served |
| timers, `sched/timer.lua` | sorted dates, date -> set of timers | set, new, addtimer, removetimer, step, nextevent | dates sorted and without duplicates, each timer fires once per date |
| descriptors, `sched/fd.lua` | `wait_read`, `wait_write` with their reverse index, callbacks | wait_fd, when_fd, close, notify_fd, step | index and list agree; a watch ends with its wait, and no other call drops it |
| locks, `sched/lock.lua` | owner and waiting set of each lock, `LOCK.hooks` per thread | acquire, release, destroy, autorelease, lock, unlock, synchronized | mutual exclusion; a free lock has no blocked waiter; death releases |
| pipes, `sched/pipe.lua` | content, two indexes, cached state, maxlength | send, receive, pushback, reset, peek, setmaxlength, recompaction | FIFO, bounded; nobody sleeps on a non-empty (non-full) pipe |
| RPC, `rpc/` | sequence number of each session, the tasks that wait for a response, half-sent and half-read frames, `proxy.lua`'s table of objects | call, loop, execute, close | frames stay whole; a call returns its own response, or an error; every call returns |
| log store in RAM, `c/log/log_store.c` | circular buffer with the write index and the oldest log | logramstore, logramget, lograminit | what is read is the longest suffix of the logs that fits |
| log store in flash, `c/log/log_storeflash.c` | two files | logflashstore, swap_files, logflashinit | the files hold a suffix, over restarts |
| logging front end, `log/` | the storage policy | log, trace, storelog | with `buffered_all`, no log is overwritten before it is saved |
| POSIX signals, `c/lposixsignal.c` | a ring filled by the handler, the masks | handler, signal, select, step | signals are delivered in order; select does not sleep over one |
| shell, `shell/` | queue of events, foreground task, lines that wait, unfinished chunk | readloop, actions, interrupt, suspend | a line runs once, or is dropped by the user, also while the sends of several tasks wait |
| telnet, `c/telnet/telnet.c`, `buffers.c`, `teel.c`, `actions.c`, `history.c` | read buffer, key matcher, history ring, saved line | interpret, keys, history, completion | however bytes are cut, what was typed is what happens |
| line editor, `c/telnet/editor.c` | rows of the window, cursor | insert, overwrite, delete, move, prompt, resize | the rows behave as one text with a cursor |
| serializer, `c/luatobin.c` | caches of shared objects, place in a stream of parts | serialize, deserialize | what is read is a copy of what was written, wherever it is cut |
| signal listener, `sched/` | sockets of debugging clients | listen | a client of the scheduler |
| the rest: print, utils, checks, pack, LuaSocket, coxpcall, ltn12, mime | none of interest | | stateless or vendored |

How they interact: everything runs in one Lua state. `sched.loop` calls
`timer.step`, `sched.step`, `fd.step` in turn. `step` resumes the coroutines of
the ready list; a coroutine calls the API and yields inside `wait`. `signal` is
synchronous: it parses the cells registered for its emitter, calls hooks at once,
in the middle of the parsing, and makes tasks ready at its end. Hooks may call
the whole API but `wait`. So there is no preemption, yet there is plenty of
interleaving: hooks run, signal, register and kill while lists of cells are being
walked, and every cell may sit in several lists and a timer at once. Locks, pipes,
descriptors and RPC are built of `wait` and `signal` and inherit these orders.

## 2. Plan

Done, in this order:

1. `Sched`: the scheduler core, with `TaskLife` as its abstract specification;
   its types, the fate of hooks, the place and the death of each task proved
   (`SchedProofs`), then the single run of a `sigonce`, the sweep of the cells and the
   refinement (`LifeProofs`).
2. `Lock` over what `Sched` shows of the scheduler: exclusion, automatic release,
   hand-over; its safety proved (`LockProofs`).
3. `Pipe` over the same, with `Fifo` as its abstract specification: cached state,
   limit, wake-ups and refinement proved (`PipeProofs`).
4. `Timer`, `Watch` and `PosixSignal`, composed by `Loop` with a scheduler reduced to
   its ready list, for the question `Sched` leaves open: may `select` sleep past a
   date, over a signal, or while a task is ready? The answer, and what it rests on, proved
   (`LoopProofs`).
5. `LogStore`: ring, files and policies together, with restarts; what the ring and the
   files hold proved (`LogProofs`).
6. `Editor` with `EditText` as its abstract specification; `History`, `Teel` and
   `Telnet` below `Shell`, against what the user expects; that no line is lost or run twice, and
   that the history is a list of lines and the cursor in the text, proved (`ShellProofs`).
7. `Luatobin`: serializer and deserializer back to back.
8. `Rpc`: two peers and the connection between them; responses proved to reach
   their call (`RpcProofs`).

Next:

9. The proxies of RPC (`proxy.lua`) and the store of `newexec`.

## 3. Modules

| module | contents |
|---|---|
| `Sched` | the scheduler core: state, one action per call and per step, the safety properties |
| `TaskLife` | what the core promises about tasks, without cells, queues, hooks or a stack |
| `SchedLife` | the refinement from `Sched` to `TaskLife`, fairness, liveness properties |
| `MCSched` | the instance for TLC: model values and symmetry |
| `SchedProofs` | theorems about `Sched`: for any program, types, emptied hooks, hooks that stay; under hypotheses on the program, the place and the death of a task, hooks that hear |
| `LifeProofs` | a `sigonce` runs once, the sweep is not forgotten, `Sched` implements `TaskLife` and no task is lost |
| `Lock` | `sched/lock.lua`: one action per call, and the death of a task anywhere |
| `LockProofs` | the theorems about `Lock` |
| `Pipe` | `sched/pipe.lua`: one action per call, the waits inside them, and kills |
| `Fifo` | what a pipe promises: a bounded queue with push-back |
| `MCPipe` | the instance of `Pipe` for TLC |
| `PipeProofs` | the theorems about `Pipe`, the refinement of `Fifo` included |
| `Timer` | the sorted dates of `sched/timer.lua`, as operators |
| `Watch` | the two watch lists of `sched/fd.lua` and their index, as operators |
| `PosixSignal` | the ring of signals and what `select` collects and returns, as operators |
| `Loop` | `sched/platform.lua` turning the three above, `pselect`, the clock and the kernel |
| `MCLoop` | three instances of `Loop`: timers, descriptors, signals |
| `LoopProofs` | the theorems about `Loop` |
| `LogStore` | the ring, the two files, the storage policies, restarts |
| `LogProofs` | the theorems about `LogStore` |
| `EditText` | what the line editor promises: a text, a cursor, a prompt |
| `Editor`, `MCEditor` | the rows of the line editor and its keys, and their instance |
| `History` | the ring of the history and the saved line, as operators |
| `Teel` | the matcher of key sequences and what each key does |
| `Telnet` | the read buffer and the telnet interpreter in line and edit mode |
| `Shell`, `MCShell` | the loops of `shell/telnet.lua` on top of `Telnet`, and the instance |
| `ShellProofs` | the theorems about `Shell` |
| `Luatobin`, `MCLuatobin` | the serializer and the deserializer, and graphs of objects for them |
| `Rpc`, `MCRpc` | the calls and loops of two peers and the connection between them, and the two instances |
| `RpcProofs` | the theorems about `Rpc` |

### State of `Sched`

| variable | program |
|---|---|
| `co` | coroutine status: not created, created, suspended, active (being resumed), dead |
| `ready`, `running` | `__tasks.ready`, `__tasks.running` |
| `current` | the coroutine that `step` is resuming; differs from `running` after a hook or a resumed victim has cleared it |
| `waiting` | `__tasks.waiting`, a partial function from (emitter, event) to a list of cells |
| `timers` | owners of the cells a pending `timeout_callback` refers to |
| `hook`, `target` | the kind of each hook cell and, for `propagate_killself`, the cell it would kill |
| `multi` | cells with the field `multi` |
| `cleanup` | `CLEANUP_REQUIRED` |
| `stack` | the calls of `signal`, of a timer's hook and of `kill` in progress: what their local variables hold |
| `phase` | where `sched.loop` is |
| `regs` | auxiliary: the slots a hook registered for, used by properties and by `TimerHook` |

A cell is a table shared by all its lists and emptied in place; the model puts
the cell's owner in the lists and emptying replaces it everywhere by `Emptied`.
The frames matter for the same reason: `old_queue` (`todo`), `wokenup_tasks`
(`woken`), and whether the `new_queue` and `emq` of a call are still those of the
table (`att`, `full`), since a nested signal on the same slot detaches them.

### Actions

Calls by the executing task or hook (`Actor`): `Run`, `Signal`, `Yield`, `Wait`,
`MultiWait`, `WaitFails`, `SigHook` (four kinds), `Gc`, `KillSelf`,
`KillSuspended`, `KillNew`, `KillGone`, `KillHook`, `Finish`; the end of a hook
is `HookDone`, or `BlockInHook` when it calls `wait`. One cell of `parse_queue`
is one step: `SkipEmptied`, `WakeTask`, `CallHook`, `CallSigRun`,
`CallSigRunOnce`, `CallPropagate`; `EndQueue` is the end of a `parse_queue` and of
`signal`. The loop is `StartLoop`, `TimerTask`, `TimerHook`, `TimerRun`,
`TimersDone`, `Resume`, `StepDone`, `LoopSignal`, `SelectDone`.

The operations a program makes are a parameter (`TaskOps`, `HookOps`): a property
often holds for programs that avoid some call, and the cfg says which. A signal
of an emitter whose signal is being processed is the separate operation
`"resignal"`; killing a task that is ready, new, or dead or active are
`"killready"`, `"killnew"`, `"killgone"`.

### Simplifications

* A task or hook returning and failing are one action: `step` signals `die` and
  `runcell` goes on in both cases. Only `KILL_TOKEN` is told apart.
* Time is abstract: in the timer phase any pending timer may elapse.
* The weak keys of `__tasks.waiting`, `sched.stop` and error catching by user code
  (`copcall`, which can swallow a kill) are left out.
* A cell that a task resumed by `kill` registers for its killer (`wait` takes
  `__tasks.running`, init.lua:837) is identified with the killer's own cell.
* Coroutines and hook cells are single use ids; when none is left, a `sigRun`
  hook's `run` fails inside the hook's `xpcall`.

### Locks and pipes: the scheduler they see

`Lock` and `Pipe` keep three facts about the scheduler, which `Sched` models in
detail: a call runs to its end unless it waits; `signal` makes ready, before it
returns, exactly the tasks blocked on the signal (`WakeTask`, and `TaskLife`); a
ready task is resumed later, with any number of calls by the others in between
(`ReadyRuns`). `kill` takes a task out of wherever it waits.

`Lock`:

| variable | program |
|---|---|
| `owner`, `waiting` | the fields of a `LOCK` object |
| `hooks` | `LOCK.hooks[thread]`, the locks the thread holds or waits for |
| `armed` | the threads which have the hook on `die` in that table |
| `pc`, `on` | where each task is in `acquire` and for which lock: out of it, blocked in its `wait`, woken but not yet resumed |
| `inside` | auxiliary: the tasks between the return of `acquire` and `release` |

`Acquire`, `Resume` (the `while` of `acquire`, after its `wait`), `Release` (by the
owner, or by another thread that names it), `Destroy`, and `Die`, which runs
`autorelease` when the thread is armed. `release` and `autorelease` signal the
waiter that `next` returns: any of them. `lock(object)`, `unlock` and
`synchronized` only acquire and release a lock they look up.

`Pipe`:

| variable | program |
|---|---|
| `content`, `sndidx`, `rcvidx`, `maxlength`, `state` | the fields of the same names; `content` is a partial function, since `reset` may leave holes |
| `waste` | `wasteabs` and `wasteprop` |
| `at`, `call` | where each task is in `send` or `receive`: blocked in the `wait`, woken by a signal, late (woken by its delay); and the call's arguments |
| `got` | auxiliary: the last value that `receive` returned |

`Receive` and `Send` are the calls that do not wait (by a task or a hook);
`ReceiveBlocks` and `SendBlocks` those that do, with or without a delay. A woken
task tests its condition again: `ResumeReceive`, `ResumeSend`, `WaitAgain`, or
`GiveUp` when its date has passed; `Expire` is the delay's end, `Kill` the task's.
`Pushback`, `Reset`, `SetMaxLength`, `SetWaste` are the other methods. The calls
include `recompact` (both its ways of copying: `BigContent` is the 2000 of
pipe.lua) and `updatestate`, whose signal wakes every blocked task. `#content` is
any border of the table, as Lua defines it.

A delay's date is not a number: a timed call whose task is woken may find its date
passed or not.

### The main loop: `Loop` over `Timer`, `Watch`, `PosixSignal`

| variable | program |
|---|---|
| `pc`, `sel` | where `loop`, `timer.step`, `fd.step` and `l_select` are, and the locals of the last two |
| `events`, `nd`, `firing` | `timer.events` and its sorted dates, the field `nd` of each timer, the date that `step` is firing |
| `watch` | `wait_read`, `wait_write`: list, reverse index, callbacks |
| `tasks`, `ready` | what each blocked task waits for (a descriptor, a signal, a date), `__tasks.ready` |
| `sigBuffer`, `handlers`, `raised` | the handler's ring, the signals it catches, those pending in the kernel |
| `avail`, `dirty`, `open` | readiness in the kernel, sockets whose buffer holds data, open sockets |
| `armed`, `unheard` | history: the date each client expects, the signals caught and not delivered |

`ReadClock`, `NextDate`, `FireTimeout`, `FireTimer` are `timer.step`, one callback a
step; `Resume` and the calls of the running task (`WaitFd`, `WaitSignal`, `CloseFd`,
`WhenFd`, `ClientAdds`, `Listen`, `Kill`, `Stop`...) the scheduler's turn; `EnterSelect`,
`DeliverSignal`, `Select`, `SelectReady`, `SelectTimeout`, `SelectInterrupted`, `Unmask`
are `l_select` between its changes of mask; `Notify` is `notify_fd`, one descriptor a step;
`Tick`, `Becomes` and `Arrive` are the kernel, which may act between any two of them.
`WhenFdNil` removes any watch, as `when_fd(rw, fd, nil)` does: that of a callback, or one which a
task killed in `wait_fd` has left; that of a task in `wait_fd` only in the corner `"dropped watch"`.
`sel` keeps when the clock was read for the timeout (`seen`) and when `pselect` was called (`since`).

### The logs: `LogStore`

`buf`, `current`, `first` are the variables of `log_store.c`, the byte behind the ring
included, which `copy` may write; `file1`, `file2` the files; `flash` a `logflashstore`
under way, cut at each system call of `swap_files`, where `Restart` may stop the
process; `pending` the stores under way, since `erasedata` runs the scheduler in the
middle of one. `kept`, `flashed` and `accepted` are histories; `kept` says, for each log put
in the ring since it was emptied, what it and those before took. The loops of `logramget` and
of `logramstore`, `Reading` and `Freeing`, are functions of their number of turns
(`ReadOne`, `FreeOne`): after as many turns as the ring has bytes both have ended.

### The shell: `Editor`, and `Shell` over `Telnet`, `Teel`, `History`

`ed` of `Editor` is the C structure: rows, `cursorpos`, `userstartpos`, `windowwidth`,
`editmode`; each key is an action that runs the code's loops to their end. `text` and
`cursor` are computed from the rows after each step, and the refinement says that they
behave as `EditText`. `Teel` uses the operators of `EditText` for the text, so the
matcher, the history and the shell are checked over what the editor is shown to
implement, not over its rows.

In `Shell`, `wire` is what the client sent and `got` how much of its first token has
arrived: a chunk may end between any two bytes. `in` is the `ReadBuffer`, `line` the line
mode's buffer, `ti` the `TeelInstance` (matcher, text, history), `events` the fifo the
interpreter signals into, `linebuf`, `lines`, `foreground`, `jobs` the locals of the
action loop. `AsTyped` compares each delivery with `Means`, which takes whole tokens and
keeps the past as a plain list, the lines of the ring (`Entries`) when it starts. `Past` are lines that
ran before the run starts, through the same `AddHistory`.

`interpret` is the function of that name in `shell/telnet.lua`: it turns the interpreter until the
input is exhausted, and after each of its calls sends the output, then signals the command. The socket
may be full, so after any turn the send may wait: the command is taken and not signalled, the
input left is not read, and the other loop goes on and may call `interpret` itself, on the input the
first one left. `sending` holds the calls whose send waits, with their loop and the command
taken (`SendWaits`); `SendDone` is the end of the wait. A second send that should wait finds the
descriptor registered, its `assert` fails and the shell ends (`open`). A loop whose send waits does
nothing else (`Idle`). Besides the two loops, `run` calls `interpret` before they start, which `Init` stands for, and
`print` of a task the shell runs (telnet.lua:125), which is left out: it is a call without input like the one the
action loop makes after each event, an error of its send is the task's, and a task killed there leaves its
watch as in `Rpc`.

### The serializer: `Luatobin`

A byte of a size, a reference, a string or code is a cell; `Byte` and `IntBits` shrink the
ranges of a byte and of an integer. `writer` and `reader` hold what the C stack and the
caches hold; the parts of `buffer` are cut by the environment, and `pc` "call" is between
two calls of `deserialize`.

### Remote calls: `Rpc`

| variable | program |
|---|---|
| `seqnum`, `closed` | the field of the session; whether the side closed its socket |
| `chan` | the pieces (header or payload) on their way to each peer, at most the capacity of the instance; a scrap is where a frame is torn |
| `loop` | the reader of the session: between frames, with a header in hand, or out of step |
| `stale` | the sockets that keep the watch of a killed sender |
| `call` | the tasks in `session:call`: in the middle of their sends, waiting, woken |
| `jobs` | the executions of the peer's calls: the function running, or its answer half sent |
| `returned`, `harm` | history: what each call returned; whether a frame was torn, or an answer refused by the socket |
| `use`, `garbled` | the instance; how many messages the readers took out of step |

`Call`, `ContinueCall`, `Resume`, `Kill` are the caller's side; `ReadHeader`,
`ReadPayload`, `EndLoop` the session's `loop`; `Execute`, `ContinueExecute` the task
that runs the function (or the loop itself, for a peer without a scheduler); `Close` a
side that goes away. A send takes what the connection has room for and waits
for the rest, so other tasks run in the middle of a frame, and three things may happen to it:

* another task begins a frame (common.lua:218-220), whose bytes go inside the first one when there is
  room again. If they do not go at once its own send fails with "already registered"
  (fd.lua:27), after what it had sent (`Begin`, `Refused`): a call returns that error, an answer is
  lost without a word (`harm` "lost answer"), since `execute` does not look at it;
* the task is killed wherever it is blocked (`Kill`): what it has sent stays on the
  connection, and its watch stays in `wait_write` (fd.lua:88), so that every later send of the
  session that has to wait is refused (`stale`);
* the connection ends.

Each of the first two may tear a frame (`Tears`; whether it does depends on the bytes that went, and is
certain when a header went without its payload). The reader of the peer then goes on decoding
(rpc/sched.lua:36-56): what it takes for a header has any type and any number, so
`Garbled` spawns an execution, signals a response with any number, takes too much or too
little, or ends in an error of `deserialize`, which ends the loop's task without closing the socket or
signalling `error`.

## 4. Runs

Bounds of `Sched`: two tasks (they are enough for a signaller and a blocked task, for a killer and its
victim, and for the `die` of a task a hook spawned), one or two hooks (a hook
that acts on another), one plain emitter besides the tasks and the clock, one or
two events and the wildcard, `MaxDepth` 2 nested calls (a signal, and what its hook
signals), `MaxQueue` 2 cells of a slot. A queue's bound only disables
registrations in a full queue, a stack's bound only disables deeper calls.

| run | program | checks |
|---|---|---|
| `hooks` | hooks of all kinds that signal other emitters, register, kill hooks and themselves | `TaskPlacement`, `HooksNotMissed`, `CleanupRemembered`, `HookStays` |
| `tasks` | wait, multiWait, reschedule, delays, kills of blocked tasks, recursive signals | `DieAtDeath`, `LifeSpec` (refinement of `TaskLife`) |
| `any` | undisciplined: blocking hooks, gc in hooks, recursive signals, kills of new, ready, dead and running tasks | `TypeOK`, `NoZombieHook`, `OnceRunsOnce` |
| `live` | cooperating tasks, under `FairSpec` | `ReadyRuns`, `TimersFire` |
| `lock_all` | acquire, release, destroy, death at any place but between wake-up and resumption | `MutualExclusion`, `WaitersListed`, `NoLostWakeup`, `DeathReleases`, `Handover` |
| `pipe_fifo` | send, receive, with and without delays, pushback, limits, waste parameters, kills; `reset` of fresh pipes | `StateMatches`, `Bounded`, `NoSleeper`, `Served`, `FifoSpec` |
| `loop` | tasks and callbacks over timers, descriptors and signals, the kernel acting at any time | `TypeOK`, `SleepsSafely`, `SignalsInOrder`, `FiredAsArmed` |
| `log` | the three policies, stores in the middle of a store, a restart at any point of a swap | `RamIsSuffix`, `FlashIsSuffix`, `AllLogged`, `CurrentFileKept` |
| `editor` | all keys, completion, history, prompts, changes of width | `TypeOK`, `CursorInText`, `EditsText` (refinement of `EditText`) |
| `shell` | both modes, chunks cut anywhere, sends that wait, foreground and background tasks | `TypeOK`, `LinesKept`, `AsTyped`, `HistoryIsList` |
| `codec` | 668 graphs of objects, written and read back in parts | `RoundTrip`, `PlaceKept` |
| `rpc` | two peers that call each other, with partial and refused sends, a kill anywhere (in the middle of a frame too), readers out of step, and a close | `AnswersOwn`, `CallsReturn` |

Symmetry (permutations of tasks and of hooks) is used where no liveness property
is checked: the specification never distinguishes two tasks or two hooks.

Bounds of `Lock`: three tasks (an owner, a waiter to wake, and one that overtakes
it) and two locks (a task that dies owning one and waiting for the other). Nothing
else needs a bound. `Killable = {"blocked"}` is a hypothesis about the
program: see below.

Bounds of `Pipe`: two tasks, two values, limits 1 and 2 or none, indexes up to
`MaxIndex` 4; recompaction parameters that trigger it at once (`MCWastes`), with
`BigContent` 4 so that both its copies are made. A send is begun only if every
pending send still has an index (`InBound`), so the bound never stops a woken
sender. `Resets = "fresh"` is a hypothesis about the program: see below.

Bounds of `Loop`: three instances (`MCInstances`), because what they test does not
interact elsewhere: two clients' timers and a task with delays, clock up to 2; two
tasks over two descriptors, three watches; two caught signals with a ring of
`MAX_SIGNALS` 2 and three arrivals, so that it overflows and wraps. Up to
four calls each.

Bounds of `LogStore`: a ring of 10 bytes with logs that take 3, 4 and 6 (they wrap in
their header and in their content, and one may push out two), files of 5, five logs,
one restart. Bounds of `Editor`: windows of 5 and 6, up to 7 symbols typed after a
prompt of 2, so a text takes up to three rows; at most two stop characters among
them. Bounds of `Shell`: the history of size 2 filled with three lines
at first, so that its ring has wrapped; three instances (`MCInstances`): four tokens in either
mode with sends that are done at once, four in line mode and three in edit mode with sends that may
wait (a line, an interruption and another line are three). `Luatobin`: three objects, any two entries
of one table among 3 keys and 5 values, pieces of 1, 2 and 5 bytes; bytes of 3 values so that
strings reach the long form. `Rpc`: two callers against one, one of the
peers with or without a scheduler, numbers modulo 2 so that they wrap, one kill; two instances
(`MCInstances` of `MCRpc`): three calls over three pieces on the way (a frame and a half), and two calls over one
piece (half a frame, so each frame is cut), where the readers take up to two messages out of step.

### Corners

Six modules and `Shell` have a parameter `Corners` (empty in the runs): each of its values adds
a case in which the code does not do what the property says. They are hypotheses
of the runs, stated next to the guard they remove; adding one to the cfg makes TLC
show the case in a few steps.

| module | value | what happens |
|---|---|---|
| `Editor` | `"word keys"` | `positionfromoffset` goes one position too far back over a full row (editor.c:215-230), and a deletion of several symbols over a row boundary leaves the cursor out of the text: a word key moves or deletes other symbols |
| | `"type-ahead"` | the prompt is written over what was typed before it, row breaks and overwrite mode included |
| | `"exact fit"` | a change of width leaves the last row full and no row after it (997-): the next move right starts in a row that does not exist, assert of editor.c:189 |
| `Telnet`, `Shell` | `"cut command"` | in edit mode `teel_reader` forgets a telnet command cut by a chunk, and takes what follows for text; in line mode so does one cut twice |
| | `"flush while cut"` | the shell calls the interpreter without input after each event, and the start of a command it holds is given up (telnet.c:557-571) |
| | `"history while browsing"` | a line added while the user browses resets the place and not the saved line (history.c:31) |
| `LogStore` | `"exact fit"` | a log that ends at the last byte leaves `current` at the size of the ring, or equal to `first` on a full ring: logs are read twice, or none is |
| | `"logs in step"` | the tasks that run while a store waits for room fill it again: logs are overwritten before they are saved |
| `Loop` | `"cancel when due"` | a callback cancels a timer of the date being fired (timer.lua:101-115): it fires all the same |
| | `"dropped watch"` | `when_fd(rw, fd, nil)` removes the watch of a task blocked in `wait_fd` (fd.lua:116-121): `select` sleeps without its descriptor (`Loop_dropped.cfg`) |
| `Luatobin` | `"wide integer"` | an integer of more bits than the format's is truncated by its cast |
| | `"object at a cut"` | a table that begins exactly after a cut is numbered twice, and references to it find another object |
| `Rpc` | `"burst"` | a second response is signalled between the wake-up of the callers for the first and their next wait: its caller never returns (sched.lua:44-57) |
| | `"seqnum in use"` | after 256 calls a number is given again while its call still waits: a response reaches the wrong call (common.lua:212) |

### Programs that break what documents say

Seven configurations, which are not among the runs since they end with a
counterexample, show what goes wrong in cases that the runs leave out, or in an order that no
property of a run claims; quotes are of the comments that say otherwise:

| cfg | violated | what happens |
|---|---|---|
| `Sched_lost_hook` | `HooksNotMissed` | a hook signals the slot it is called for: the nested `signal` detaches and then removes the `new_queue` of the outer one, where the hook is put back (init.lua:663-684). init.lua:236: "There is a guarantee that hooks won't miss an signal." |
| `Sched_once_twice` | `OnceRunsOnce` | a `sigOnce` hook on two events emits the second one while it runs for the first: it is emptied only when it returns (606-624). init.lua:971: "the hook will only be run once" |
| `Sched_kill_new` | `DieAtDeath` | `kill` of a task that has not started starts it (1139), and signals `die` at its first yield. init.lua:306: "The termination of a task is advertised by a `'die'` signal." |
| `Lock_lost` | `NoLostWakeup` | `release` signals one waiter; it is killed before it is resumed, and its `autorelease` only withdraws it from `waiting` (lock.lua:126-132, 188): the lock stays free, the others asleep. lock.lua:187: "wakeup a waiting thread, if any..." |
| `Pipe_reset` | `ResetEmpties` | `reset` replaces `content` and keeps the indexes (pipe.lua:225-230): the pipe has its old length and `receive` returns nils. pipe.lua:51: "return all of the pipe's current content and reset it as empty" |
| `Loop_dropped` | `SleepsSafely` | a callback or a task calls `when_readable(fd, nil)` while another task is in `wait_readable(fd)`: the watch is removed, and the task sleeps until something else wakes it |
| `Shell_overtaken` | `InOrder` | the read loop takes a line from the interpreter and its send waits (telnet.lua:98-100); the action loop, at the end of another event, calls `interpret` without input (286), which takes the line behind and signals it first |

Behaviours met while choosing the programs of the passing runs (each is seen by
adding the call named to the run's `TaskOps` or `EventLists`):

* `"killready"` in `tasks` breaks `DieAtDeath`: the killed task is still in the
  ready list, `step` resumes the dead coroutine and signals a second `die` (544-555).
* `"kill"`, or a delay, in `hooks` breaks `CleanupRemembered`: a blocked task's
  cell is emptied (874-875, 745-749) without `CLEANUP_REQUIRED`.
* A hook with a delay is detached when the delay elapses (748): `HookStays` leaves it out.
* `"block"` in a hook clears `__tasks.running` while the interrupted task
  continues (871): its next `wait` fails.
* Without the hypothesis of `TimersFire`, two tasks that call `wait()` in a loop
  keep `step` from returning (538-557) and no timer ever fires.

Other differences between comments and code in locks and pipes, read but not run:
`unlock(object, thread)` ignores its thread (lock.lua:208-212, against 58-59);
`synchronized` keeps the lock when its function fails (219-228), unless the thread
dies of it; `setmaxlength(nil)` compares a number with nil (pipe.lua:251, against
247); `pipe(0)` has no limit, since only the equality of length and limit makes
a pipe full (113-121).

Read in the rest of the code while modelling it, and part of the models unless said:

* `stop()` takes effect only when the loop comes round: a sleeping `select` is not
  woken by it. A task killed in `wait_fd` leaves its watch (fd.lua:88), and the next one to
  wait for that descriptor finds it registered. When a signal is delivered or
  a socket is dirty, `select` returns sets that `pselect` did not fill
  (lposixsignal.c:466-473): every watched descriptor is reported. `select` gets a timeout
computed from the clock that `loop` has read, so a sleep lasts beyond the date by what passed between
that reading and `pselect`: `SleepsSafely` says by no more than that. `addtimer` called
  twice registers a timer at two dates. Not modelled: `FD_SET` has no check of
  the descriptor's size (320), and an error raised by a hook in `l_select` leaves the
  signals blocked.
* A callback that always asks for a date already reached keeps `timer.step` from returning.
* An insertion of several letters in the middle of wrapped rows may leave one more
  row break, and a change of width may lose breaks: `EditText` allows both.
* The matcher of keys compares the current byte only, not those before it (teel.c): two
  sequences that differ earlier may be taken for each other; every sequence of the
  table is found as its own (`KeysFound` in `MCShell`).
* An unknown suboption is skipped by its three first bytes and its content taken for
  text; a window size cut by a chunk is dropped. Not modelled: in line mode a window size reaches
  an editor that does not exist (telnet.c:146; `teel` is NULL), so the tokens of line mode hold none.
* Lines may run out of order: those that waited behind a foreground task are sent again behind
  those that came meanwhile (telnet.lua:259), and a line taken by an `interpret` whose send waits is signalled after
  those that another `interpret` takes meanwhile (`Shell_overtaken`). `LinesKept` only says that
  none is lost or run twice, and `AsTyped`, which speaks of order, only of deliveries whose sends are done at once.
* An error in the deserialization of an argument ends the RPC loop's task without closing
  its session. `Rpc` has it for readers out of step only; the content of whole frames is not modelled.

What the runs do not exercise, and so do not show:

* The history is resized when its interpreter is created only, on an empty ring: the shift
  of history.c:42, which copies the lines from the next place to write, never meets one.
* The parts that `Luatobin` reads are right: no `deserialize` fails in `codec`, and `PlaceKept` is about
  successive calls and cuts.
* `NeverAborts` (the assert of editor.c:189) is not a property of `editor`: the run checks the types, the
  cursor and the text. The corner `"exact fit"` reaches the assert.
* `LifeSpec` allows stuttering: that a step of `Sched` should wake a task and does not would be no step of
  `TaskLife`. `HooksNotMissed`, `TaskPlacement` and `ReadyRuns` are there for that.

Why the properties of `rpc` have a condition on `harm`:

* `AnswersOwn` says nothing once a frame is torn: a reader out of step may take any bytes for a response with
  the number a call waits for. Without the condition TLC finds it in ten states: a call is refused by the socket, after
  its first bytes, in the middle of the answer that another task sends to the peer.
* `CallsReturn` lets a call pending once there is any harm: the peer's answer was refused or torn, or the request was
  swallowed, and nothing ends the wait (`call` has no timeout). Without it TLC finds, in six states, two callers of
  a session: the second is refused after its first bytes, the peer is out of step, and the first never returns.

### Fairness

`FairSpec` assumes that the loop's own steps and the parsing of signals go on
(weak fairness: it is straight-line code), that a hook returns and that a task
eventually calls `wait`, reschedules itself or ends (strong fairness: while it
signals, other actions interpose), that `timer.step` and `select` return (strong
fairness: elapsing timers and incoming signals interpose), and that a pending timer's
date is reached. `signal`, `run`, `kill` and registrations are never forced.

`Lock` and `Pipe` only assume that a ready task is eventually resumed (weak
fairness of `Resume(t)`): `ReadyRuns` of the run `live`. Nobody is forced to release,
send, receive or die, and delays need not expire.

`Rpc` assumes that a task in the middle of its sends, or woken, goes on (weak fairness
of `ContinueCall(c) \/ Resume(c)`), that each session's loop reads what arrives
(`Loop(x)`), and that the functions called return and are answered (`Serve(x)`). Nobody is
forced to call, kill or close. The other new modules state no fairness: their
properties are of safety.

## 5. Proofs

The theorems hold for all values of the constants that satisfy the named
assumptions of the modules: distinct ids, sets of event names, the
bounds are naturals. TLC evaluates the assumptions in every run.

**`SchedProofs`** proves `TypeCorrect` (`Spec => []TypeOK`) and `ZombieFree`
(`Spec => []NoZombieHook`) from one inductive invariant, `Sound`: the types, and every
queue, every list a frame still walks and every pending timer hold only cells of
`Alive` or `Emptied`. `NoZombieHook` alone is not inductive: it speaks of the hooks
a later step may find, and that step may find a cell through a list that is
detached from the table, or a nested frame's. The argument is that `Empty` replaces
a cell in all lists at once (it is one table in the program) and that all moves of
cells between lists go through a few operators; one lemma about each operator,
over any set of cells, then one step per action. The only arithmetic is
about sets of indexes: `gc` rebuilds a queue from its n-th remaining index.
`HooksStay` (`Spec => HookStays`) needs `Timely` too: `TimerRun` and the end of a hook that a
timer called empty a cell, so the timers and the frames timers made must be
shown to belong to hooks with a delay. No call of `signal` has such a frame, because
no program signals the event `timeout`; every other list of frames is the old one with
other cells, or one more call of a signal.

The other theorems of `SchedProofs`, and those of **`LifeProofs`** but for `RunsOnce` and
its invariant, have a hypothesis on the program, the one the run `tasks` makes: `Careful`, that it kills no task which is ready, new, dead or active, and does not
wait in a hook. Each of these calls breaks one of the properties (see above); all
other calls are allowed, signals of an emitter already being processed and kills of blocked
tasks from hooks included.

* `PlacedInvariant` is the inductive invariant `Alone`: only the bottom of the stack, or
  nobody, executes as a task, and no task is both in a list of woken tasks, in the ready list and
  in a cell, or twice in the first two. It is about every list of `woken` on the
  stack at once (`Spread`), since hooks may signal, and so wake, while a signal has its own
  tasks still to make ready.
* `OneDeath` (`DieAtDeath`) adds which steps can push a frame for `die`.
* `HooksHear` (`HooksNotMissed`) has the hypothesis `Orderly`, that moreover nothing signals an
  emitter while its signal is processed; `Sched_lost_hook.cfg` shows that it is needed. Its
  invariant, `Tidy`, says that each call in progress still fills the queue of its own slot
  (`Owned`), so that a hook put back in it is found again (`Heard`).
* `RunsOnce` (`OnceRunsOnce`) has another hypothesis, `Single`, which the run `any` satisfies: a list
  of events names one event, and a delay besides it only if hooks are `Mute` (they signal and kill
  nothing). Blocking hooks, kills of any task and signals of an emitter being processed are all
  allowed. A `sigonce` is emptied only when its function returns, so what must be invariant
  (`SoloInvariant`) is that a call that holds it, to run it or in the list left to parse, is alone: no queue a
  signal could parse holds it, nor does another call (`Suits`). With two events the other
  queue still holds it (`Sched_once_twice.cfg`); with a delay, a hook the timer calls is still
  queued for its event, and what saves it is that nothing signals from there (`Still`).
* `CleanupKept` (`CleanupRemembered`) has the hypothesis `Thrifty`: `Careful`, no kill of a blocked task, and
  lists of events that are finite and without a delay. The run `hooks` satisfies it; a kill or a delay breaks the
  property (see above). An emptied cell is taken out of the queue where the signal found it; if it
  is in others, `CLEANUP_REQUIRED` must be set, and the code sets it only for cells marked `multi`. So
  the invariant (`CountedInvariant`) is about the cells that are not marked: each is in one place, once, be it a
  queue, what a call has left to parse, or the call of its hook (`Sole`), and one never
  registered is nowhere (`Absent`). A hook that runs while it is marked or emptied has the flag set
  already (`Noticed`), by the call (593) or by the kill (1128).
  `Counted` is kept by every move of cells between lists (`Moved`), which leaves no cell in more places than it was.
* `SafeInvariant` and `SchedImplementsLife`: `TaskLife` makes a signal's tasks ready in one step,
  `Sched` takes as many steps as there are cells, with the steps of hooks, other signals
  and kills between them. The mapping says that a task is ready as soon as a call in progress is going to
  find its cell (`Caught`: in what it has left to parse, or in the second of the two
  queues it parses, once it has emptied the first). What has to be invariant is that nothing
  makes that set grow or shrink but the emission itself (`Steady`): `Parsed` says that no task
  waits in the queue a call is parsing (only an executing task registers its cell, and none
  executes again before the call returns), and that none does in a row cut from the table;
  `Booked`, that a task with a timer is in the slot of a delay, so that its end is an `Expire` of
  `TaskLife`. `Goes` is then proved for each action: one step of `TaskLife`, or none.
* `NobodyLost` (`TaskPlacement`) follows: `Found` (a living task that does not execute has a place) is
  kept by the same steps, and `Alone` says that it has no other.

**`LockProofs`** proves the invariants of `lock_all`. `MutualExclusion` rests on
`Insiders` (a task inside a lock owns it, or the lock was destroyed under it),
which `Die` preserves only if the death of a task touches no lock it does not own;
that is `DeathReleases`; it in turn needs that a listed waiter is really in
`acquire` (`WaitersListed`, `Sites`). All of these hold whatever is killed.
`WakeupKept` (`NoLostWakeup`) has the hypothesis that no woken task is killed; without it
`Lock_lost.cfg` gives a counterexample. The types are the first part of `Sound`.

**`PipeProofs`** proves `StateMatches`, `Bounded` and `NoSleeper` from their
conjunction with the types, whatever `reset` does. A blocked task knows the state it was
blocked in, and `updatestate` wakes it at any change of state: so `NoSleeper` needs
`StateMatches`, and `Bounded` needs the limit to be tested against a state that is right.
`PipeIsFifo` (every step is a step of `Fifo` or none, through recompaction in either
way and push-back at either end) needs that the table has no hole
(`Dense`), and so that `reset` is called on fresh pipes only.

**`RpcProofs`** proves two theorems, while no sequence number is given again before its call
is done with (`FreeNumbers`, the hypothesis that the corner `"seqnum in use"` removes). `FramesWhole`:
as long as no frame is torn, both readers are in step (`Framed`: what is on its way to each peer is whole frames, but for
the header the reader may hold and the end of the last frame, which exactly one task still has to send), whoever is killed and however sends are cut or refused. `OwnAnswers`, from it:
`Spec => []AnswersOwn`, a call returns its own answer or none, until a frame is torn. They hold for any
callers, modulus, capacities and numbers of calls and kills, with responses missed by `"burst"` and sides closed
at any time. `AnswersOwn` speaks of calls that have returned; what makes it inductive is the life of a number,
`InUse(x, s, n)`: number `s` stands for call `n` of peer `x` in the task that calls
(`Called`), in a piece on its way or held by the loop that read a header
(`Carried`, `Held`), in the execution (`Executed`) and in the answer. Every action but `Call` only
moves numbers between these places, so a number that stands for one call goes on standing
for it (`OneCall`), and `Call` takes one that is in none of them. `LeftIsOwn` and
`GotIsOwn` say the same of half sent frames and of the response a task was woken with. Nothing is proved of what a reader out of
step does: a frame once torn stays so (`WholeBefore`). The
lemmas on sequences (`Part`, `Joined`, `PutTaken`) say that a partial send adds pieces
of the frame and nothing else.

**`LoopProofs`** proves the four properties of the run `loop` for any tasks, timers,
descriptors, signals, delays, ring length and number of calls, under `NoCorner`: no callback
cancels a timer of the date being fired (the corner `"cancel when due"` breaks
`FiredAsArmed`), and nobody drops the watch of a task in `wait_fd` (the corner `"dropped watch"` breaks
`SleepsSafely`). `LoopSound` is the inductive invariant, a conjunction of one part for each
table: the list of dates is sorted and holds each date that has timers (`EventsOk`), an armed timer is
booked at its date or among those that fire (`TimersOk`, `FiringOk`), so is a timed wait (`Waits`); a ready task
is in the ready list once and a waiting one is not (`TasksOk`); the lists of watches and their
reverse index agree after the swap that removes one (`WatchOk`), and a descriptor
a task waits for is watched by it alone (`Watchers`); the ring holds the signals caught, modulo its
length (`RingOk`); what `select` was told is still true when it sleeps (`SleepOk`). `LoopSleepsSafely` needs
all of them: the timeout comes from the first date, the sets from the lists, and what
arrives between their computation and `pselect` from the masks and the ring. The date is compared with
the deadline the kernel is given, `now` at `pselect` plus the timeout: it may be later than the date by the ticks
since the clock was read, and by no more.

**`LogProofs`** proves the four properties of the run `log`, for every size of the ring, of the
files and of the logs. `CurrentFileIsKept` needs the types only (`LogTyped`: a swap opens a
new file when the current one was moved). The others are about what the ring holds.

* `Laid(r, e, n, acc)` says what a ring `r` is when the logs took `e`, it holds all but the first
  `n` of them, and their bytes are the last ones of `acc`: the `i`-th log is found at `first` plus
  what those before it took, wrapped (`Written`), and `current` is where the last one ends. So a
  position is a distance from `first`, and what wraps where is settled by three
  lemmas (`WrapMod`, `WrapOn`, `WrapApart`).
* The two loops are followed turn by turn. That the recursive functions `Reading` and `Freeing`
  are what their equations say is an instance of `Iterate`; what holds after each turn follows by
  `Induct`: the loop that reads has read the logs up to some `i` (`LogRamGetLaid`), and the one
  that makes room has dropped whole logs, and would not have had room with one less
  (`FreeSpaceLaid`). Both end before `buf_size` turns because a log takes three bytes at least.
* `WriteLaid` is the step that matters: the bytes written, in one part or two, with their header,
  are in no cell of a log that is kept, since there is room for them.
* `RamHoldsLast` (`RamIsSuffix`) follows by the invariant `RingKept`; `FilesHoldLast`
  (`FlashIsSuffix`) by `FilesKept`, which says what a `logflashstore` under way has left to write and
  that it is no more than the ring may hold; `AllLogsKept` (`AllLogged`) by `AllKept`: with
  `buffered_all` the ring holds every log since it was flushed, and has room for the stores
  under way, of which there may be two.

All but `LogTyped` and `CurrentFileIsKept` have the hypothesis `NoExactFit`, and `AllLogsKept` `NoLogsInStep` too:
`Corners` does not hold these values. Each adds a case of the code that breaks the property (see
the table of corners), and so each hypothesis is needed.

**`ShellProofs`** proves two properties of the run `shell` and a part of a third, for any tokens,
cut anywhere, in both modes and any size of the history; the first two in any corner.

* `LineInOnePlace` (`LinesKept`): each place a line may be in is a list of numbers, where 0 stands
  for an event that is not a line, and `Placed` says that the lines the interpreter took so far are in
  four lists, each once; those taken behind a send that waits are in the last, before those done with. The
  shell moves them (`TakeFirst`, `SendAgain`, `Drop_`, and `SetAside` behind such a send), and the
  interpreter adds the next numbers at the end (`ComeIn`). That it does nothing else to the events
  (`Grown`) is shown for a turn of either mode's loop (`LineTurnGrown`, `EditTurnGrown`), then for
  all turns (`TurnsGrown`): `Turns` is a recursive function of their number, which exists (`TurnByTurn`, an
  instance of `Iterate`). `Interprets` is what follows for `interpret`, wherever its send waits. A turn reads bytes, so the inductive invariant `Kept` (`ShellKept`) also
  says that the read buffer holds bytes and the wire tokens.
* `HistoryStaysList` (`HistoryIsList`): `RingGrows` says what a line that is added changes in the
  ring, whatever place is written: entry 1 is the line, each other entry is the one that was before
  it, the oldest is gone if the ring is full. `ListGrows` says the same of the list of entries,
  whose length is where the first empty place comes (`DepthOf`). No key changes a line of the
  ring (`SameTeel`, from the functions of the keys to `TeelByteKeeps` and `TurnsBrowsed`), so
  only a line that ran does (`TeelAdds`). The invariant `Browsing` says that the next place is in
  the ring; at first it is because the past was added line by line (`Remembered`).
* `UserInArea` (`InArea`, what `TypeOK` says of the user): the cursor is in the text, the place in
  the sequences of the keys is the number of bytes held, and the user's own line is kept exactly
  while he looks at another. It goes wrong when a line runs while he does, so the theorem
  assumes that `Corners` does not hold `"history while browsing"` (see the table of corners). A key
  may put in the text bytes that were compared, a line of the history or a name, so the invariant
  says that all of these are strings of bytes: `Area` of the edit area (`AreaActs` has the keys,
  `AreaBrowses` the history, `AreaCompletes` the completion, `AreaByte` the matcher), `Written` of
  what the interpreter works on (`TurnsWritten`, turn by turn again), and `Readable` of the
  events and of the lists of the shell, the chunk of which becomes a line of the history
  (`AreaAdds`).

Only model-checked:

* the liveness properties (`ReadyRuns`, `TimersFire`, `Handover`, `Served`, `CallsReturn`),
  out of the prover's reach;
* the properties of `Editor` and `Luatobin`, `AsTyped`, what `Rpc` does once a frame is torn, and what `TypeOK` of `Shell` says of the read
  buffer and of the length of the key under way: they say what folds
  over texts, the sorted table of keys and recursion over values that are not numbers (graphs,
  streams) compute for every input, which is out of the prover's reach. A loop counted by its
  turns is not: see `LogProofs` and `ShellProofs`.

## 6. Not modelled

* **RPC above the session**: the proxies (`proxy.lua`), the store of `newexec`, the
  server's list of clients, what a frame carries and the status of an answer. They
  keep no state that the session's ordering depends on; `Luatobin` models the encoding.
* **`coxpcall`**: `Sched` has no `copcall` inside a task. A `copcall` in the victim that catches
  `KILL_TOKEN` (coxpcall.lua:24) lets it survive a kill already signalled.
* **Scheduler**: `sched.listen`, the debugging listener (its sockets call `sighook` and `signal`,
  both modelled), the weak keys of `__tasks.waiting`, the log calls; an error raised in a hook inside
  `l_select`.
* **Timers**: the dates `cron` computes (a calendar); a cron timer is a timer that
  asks for its next date.
* **Logs**: levels, formats and the TCP target of the front end; write errors of the
  file system.
* **Shell**: the escape codes the editor writes to the terminal (the model is of what it
  keeps, not of what it draws), memory allocation failures, and `Lua` execution itself.
* **Utilities** (`print`, `utils`, `checks`, `lpack`): functions without state.
* **LuaSocket** (`src/c/socket`, `mime.c`, `ltn12`): vendored; `Watch` and `Rpc` model
  sockets from how the scheduler and the session use them.
