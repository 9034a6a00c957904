--------------------------------- MODULE Pipe ---------------------------------
(***************************************************************************)
(* The pipes of sched/pipe.lua, over what Sched shows of the scheduler: a  *)
(* call runs to its end unless it waits, a signal makes ready, at once,    *)
(* the tasks blocked on it, and a ready task is resumed later, after any   *)
(* number of calls by others.                                              *)
(*                                                                         *)
(* A call that does not wait can be made by anyone, hooks included: hooks  *)
(* on the pipe's signal run inside updatestate, the last thing each call   *)
(* does, so that their calls come after it. peek() and length() change     *)
(* nothing, and neither does a call that would wait with a delay of zero.  *)
(***************************************************************************)
EXTENDS Integers, Sequences, FiniteSets

CONSTANTS
    Tasks,      \* the tasks that may block in the pipe
    Values,     \* what is sent
    None,       \* nil
    Used,       \* false, what receive() leaves in a slot it has read
    MaxLengths, \* arguments of pipe() and setmaxlength()
    Wastes,     \* arguments of setwaste()
    BigContent, \* 2000, the length from which recompact() copies in a loop
    MaxIndex,   \* bound on sndidx
    Resets      \* "fresh": reset() is called before anything was sent;
                \* "any": whenever

ASSUME BoundAssumption == MaxIndex \in Nat /\ BigContent \in Nat
ASSUME WasteAssumption == Wastes \subseteq [abs : Nat, prop : Nat]
ASSUME LimitAssumption == MaxLengths \subseteq Nat \ {0}
ASSUME IdAssumption    == None \notin Values \cup Nat /\ Used \notin Values
                          /\ Used # None

VARIABLES
    content, sndidx, rcvidx,    \* the table and its two indexes
    maxlength,                  \* None without a limit
    state,                      \* cached: "empty", "ready" or "full"
    waste,                      \* wasteabs and wasteprop
    at,         \* where each task is: "out" of the pipe, "blocked", "woken"
                \* by a signal, or "late", woken by its delay
    call,       \* what a task that is not "out" is doing
    got         \* auxiliary: the last value receive() returned

vars  == <<content, sndidx, rcvidx, maxlength, state, waste, at, call, got>>

Idle  == [op |-> "none", item |-> None, timed |-> FALSE]
Calls == [op : {"none", "receive"}, item : {None}, timed : BOOLEAN]
         \cup [op : {"send"}, item : Values, timed : BOOLEAN]

Length == sndidx - rcvidx

Init ==
    /\ content = <<>> /\ sndidx = 1 /\ rcvidx = 1
    /\ maxlength \in MaxLengths \cup {None}
    /\ state = "empty"
    /\ waste = [abs |-> 32, prop |-> 2]
    /\ at = [t \in Tasks |-> "out"]
    /\ call = [t \in Tasks |-> Idle]
    /\ got = None

-----------------------------------------------------------------------------
StateOf(n, max) ==
    IF n = 0 THEN "empty" ELSE IF max = n THEN "full" ELSE "ready"

(* updatestate: with n values and the limit max, the tasks being as in a. *)
(* Mutant: the signal is sent only when the pipe becomes ready.           *)
UpdateState_Ready(n, max, a) ==
    /\ state' = StateOf(n, max)
    /\ at' = IF state' # state /\ state' = "ready"
             THEN [t \in Tasks |-> IF a[t] = "blocked" THEN "woken" ELSE a[t]]
             ELSE a
UpdateState(n, max, a) ==
    /\ state' = StateOf(n, max)
    /\ at' = IF state' # state
             THEN [t \in Tasks |-> IF a[t] = "blocked" THEN "woken" ELSE a[t]]
             ELSE a

(* content[i] = x *)
Set(c, i, x) == [j \in DOMAIN c \cup {i} |-> IF j = i THEN x ELSE c[j]]

(* #content: any border, once reset() has left holes.                     *)
Borders(c) ==
    {n \in {0} \cup DOMAIN c : n + 1 \notin DOMAIN c}

(* The n values of c from index r on, moved to its beginning.             *)
Moved_Short(c, r, n) ==            \* mutant: one value is left behind
    [i \in {j \in 1 .. n - 1 : j + r - 1 \in DOMAIN c} |-> c[i + r - 1]]
Moved(c, r, n) ==
    [i \in {j \in 1 .. n : j + r - 1 \in DOMAIN c} |-> c[i + r - 1]]

Recompactable(r) ==
    r - 1 > waste.abs /\ r - 1 > waste.prop * (sndidx - r)

Recompact(c, r) ==
    IF Recompactable(r)
    THEN /\ IF sndidx < BigContent
            THEN \E b \in Borders(c) : content' = Moved(c, r, b - r + 1)
            ELSE content' = Moved(c, r, sndidx - r)
         /\ rcvidx' = 1
         /\ sndidx' = sndidx - r + 1
    ELSE content' = c /\ rcvidx' = r /\ sndidx' = sndidx

(* Writes are begun as long as all the pending ones have an index left.   *)
InBound == sndidx + Cardinality({t \in Tasks : call[t].op = "send"}) <= MaxIndex

(* The end of receive(), when the pipe is not empty. *)
Take(a) ==
    /\ rcvidx # sndidx
    /\ got' = IF rcvidx \in DOMAIN content THEN content[rcvidx] ELSE None
    /\ Recompact(Set(content, rcvidx, Used), rcvidx + 1)
    /\ UpdateState(Length - 1, maxlength, a)
    /\ UNCHANGED <<maxlength, waste>>

(* The end of send(), when the pipe is not full. *)
Put(x, a) ==
    /\ state # "full"
    /\ content' = Set(content, sndidx, x)
    /\ sndidx' = sndidx + 1
    /\ UpdateState(Length + 1, maxlength, a)
    /\ UNCHANGED <<rcvidx, maxlength, waste, got>>

Receive == Take(at) /\ UNCHANGED call
Send(x) == InBound /\ Put(x, at) /\ UNCHANGED call

(* sched.wait on the pipe's signal 'state', with or without a delay. *)
Block(t, op, x, timed) ==
    /\ at[t] = "out"
    /\ at' = [at EXCEPT ![t] = "blocked"]
    /\ call' = [call EXCEPT ![t] = [op |-> op, item |-> x, timed |-> timed]]
    /\ UNCHANGED <<content, sndidx, rcvidx, maxlength, state, waste, got>>

ReceiveBlocks(t, timed) ==
    rcvidx = sndidx /\ Block(t, "receive", None, timed)
SendBlocks(t, x, timed) ==
    InBound /\ state = "full" /\ Block(t, "send", x, timed)

(* A woken task tests its condition again, and returns, waits again, or   *)
(* gives up if its due date has passed meanwhile.                         *)
Out(t)    == [at EXCEPT ![t] = "out"]
Return(t) == call' = [call EXCEPT ![t] = Idle]

ResumeReceive(t) ==
    at[t] = "woken" /\ call[t].op = "receive" /\ Take(Out(t)) /\ Return(t)
ResumeSend(t) ==
    at[t] = "woken" /\ call[t].op = "send" /\ Put(call[t].item, Out(t)) /\ Return(t)

StillStuck(t) ==
    CASE call[t].op = "receive" -> rcvidx = sndidx
      [] call[t].op = "send"    -> state = "full"
      [] OTHER                  -> FALSE

WaitAgain(t) ==
    /\ at[t] = "woken" /\ StillStuck(t)
    /\ at' = [at EXCEPT ![t] = "blocked"]
    /\ UNCHANGED <<content, sndidx, rcvidx, maxlength, state, waste, call, got>>

(* It returns nil, "timeout".                                             *)
GiveUp(t) ==
    /\ \/ at[t] = "late"
       \/ at[t] = "woken" /\ StillStuck(t) /\ call[t].timed
    /\ at' = Out(t) /\ Return(t)
    /\ UNCHANGED <<content, sndidx, rcvidx, maxlength, state, waste, got>>

Expire(t) ==
    /\ at[t] = "blocked" /\ call[t].timed
    /\ at' = [at EXCEPT ![t] = "late"]
    /\ UNCHANGED <<content, sndidx, rcvidx, maxlength, state, waste, call, got>>

(* sched.kill, wherever the task is in the pipe.                          *)
Kill(t) ==
    /\ at[t] # "out"
    /\ at' = Out(t) /\ Return(t)
    /\ UNCHANGED <<content, sndidx, rcvidx, maxlength, state, waste, got>>

(* table.insert(content, 1, x) *)
Inserted(c, b, x) ==
    [j \in {1} \cup {i + 1 : i \in {k \in DOMAIN c : k <= b}}
               \cup {i \in DOMAIN c : i > b} |->
        IF j = 1 THEN x ELSE IF j <= b + 1 THEN c[j - 1] ELSE c[j]]

(* Mutant: no test of fullness. *)
Pushback_Unbounded(x) ==
    /\ rcvidx > 1
    /\ content' = Set(content, rcvidx - 1, x)
    /\ rcvidx' = rcvidx - 1
    /\ UpdateState(Length + 1, maxlength, at)
    /\ UNCHANGED <<sndidx, maxlength, waste, call, got>>
Pushback(x) ==
    /\ state # "full"
    /\ IF rcvidx = 1
       THEN /\ InBound
            /\ \E b \in Borders(content) : content' = Inserted(content, b, x)
            /\ sndidx' = sndidx + 1
            /\ UNCHANGED rcvidx
       ELSE /\ content' = Set(content, rcvidx - 1, x)
            /\ rcvidx' = rcvidx - 1
            /\ UNCHANGED sndidx
    /\ UpdateState(Length + 1, maxlength, at)
    /\ UNCHANGED <<maxlength, waste, call, got>>

(* The content is replaced and the indexes are left alone.                *)
Reset ==
    /\ Resets = "any" \/ sndidx = 1
    /\ content' = <<>>
    /\ UpdateState(Length, maxlength, at)
    /\ UNCHANGED <<sndidx, rcvidx, maxlength, waste, call, got>>

(* Without an argument setmaxlength() fails; too small a limit is refused.*)
SetMaxLength_Quiet(n) ==           \* mutant: no updatestate
    /\ Length <= n
    /\ maxlength' = n
    /\ UNCHANGED <<content, sndidx, rcvidx, state, waste, at, call, got>>
SetMaxLength(n) ==
    /\ Length <= n
    /\ maxlength' = n
    /\ UpdateState(Length, n, at)
    /\ UNCHANGED <<content, sndidx, rcvidx, waste, call, got>>

SetWaste(w) ==
    /\ waste' = w
    /\ UNCHANGED <<content, sndidx, rcvidx, maxlength, state, at, call, got>>

Resume(t) == ResumeReceive(t) \/ ResumeSend(t) \/ WaitAgain(t) \/ GiveUp(t)

Next ==
    \/ Receive \/ Reset
    \/ \E x \in Values : Send(x) \/ Pushback(x)
    \/ \E n \in MaxLengths : SetMaxLength(n)
    \/ \E w \in Wastes : SetWaste(w)
    \/ \E t \in Tasks : Resume(t) \/ Expire(t) \/ Kill(t)
    \/ \E t \in Tasks, timed \in BOOLEAN :
          \/ ReceiveBlocks(t, timed)
          \/ \E x \in Values : SendBlocks(t, x, timed)

Spec == Init /\ [][Next]_vars

(* A ready task is eventually resumed (ReadyRuns of SchedLife).           *)
FairSpec == Spec /\ \A t \in Tasks : WF_vars(Resume(t))

-----------------------------------------------------------------------------
(* Properties. *)

TypeOK ==
    /\ DOMAIN content \subseteq 1 .. sndidx - 1
    /\ \A i \in DOMAIN content : content[i] \in Values \cup {Used}
    /\ sndidx \in Nat \ {0} /\ rcvidx \in 1 .. sndidx
    /\ maxlength \in MaxLengths \cup {None}
    /\ state \in {"empty", "ready", "full"}
    /\ waste \in [abs : Nat, prop : Nat]
    /\ at \in [Tasks -> {"out", "blocked", "woken", "late"}]
    /\ call \in [Tasks -> Calls]
    /\ \A t \in Tasks : at[t] = "out" <=> call[t].op = "none"
    /\ got \in Values \cup {None, Used}

(* The cached state that send() and pushback() rely on is the state of    *)
(* the content and its limit (sched/pipe.lua:113-121, 184).               *)
StateMatches == state = StateOf(Length, maxlength)

(* A pipe never holds more than its limit, however sends, pushbacks and   *)
(* changes of the limit come together (sched/pipe.lua:207, 251).          *)
Bounded == maxlength # None => Length <= maxlength

(* No task sleeps on a pipe that could serve it: a blocked reader means   *)
(* an empty pipe, and a blocked writer a full one (sched/pipe.lua:158,    *)
(* 184), whichever calls, delays and deaths come between.                 *)
NoSleeper ==
    \A t \in Tasks : at[t] = "blocked" =>
        \/ call[t].op = "receive" /\ Length = 0
        \/ call[t].op = "send" /\ state = "full"

(* A reader does not stay for ever in a pipe that keeps something to read,*)
(* nor a writer in one that keeps some room (sched/pipe.lua:155-174,      *)
(* 184-194).                                                              *)
Served ==
    \A t \in Tasks :
        /\ call[t].op = "receive" ~> call[t].op # "receive" \/ Length = 0
        /\ call[t].op = "send" ~> call[t].op # "send" \/ state = "full"

(* The n values of c from index r on. *)
Slice(c, r, n) ==
    [i \in 1 .. n |-> IF r + i - 1 \in DOMAIN c THEN c[r + i - 1] ELSE None]

Contents == Slice(content, rcvidx, Length)

F == INSTANCE Fifo WITH queue <- Contents, cap <- maxlength

(* Everything that is written is read back, once and in order, through    *)
(* recompactions and pushbacks, by whichever task is served               *)
(* (sched/pipe.lua:27-28).                                                *)
FifoSpec == F!Spec

(* reset() leaves an empty pipe (sched/pipe.lua:51 "reset it as           *)
(* empty").                                                               *)
ResetEmpties == [][content' = <<>> /\ content # <<>> => Length' = 0]_vars
=============================================================================
