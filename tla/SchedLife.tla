------------------------------ MODULE SchedLife ------------------------------
(***************************************************************************)
(* What Sched promises to a program: its tasks live as TaskLife says, and, *)
(* when they cooperate, the loop runs every ready task and every timer.    *)
(***************************************************************************)
EXTENDS Sched

-----------------------------------------------------------------------------
(* Tasks live as TaskLife says: a signal, parsed here cell by cell while  *)
(* hooks run, makes ready at once the tasks it is going to wake up.       *)

(* The cell of t is in a queue that a signal in progress has still to     *)
(* parse or is parsing.                                                   *)
Caught(t) ==
    \E j \in DOMAIN stack :
        LET f == stack[j]
            p == <<f.em, f.ev>>
        IN  \/ Count(f.todo, t) > 0
            \/ f.key = Star /\ f.att # "none"
               /\ p \in DOMAIN waiting /\ Count(waiting[p], t) > 0

Blocked(t) == co[t] = "suspended" /\ HasCell(t) /\ ~Caught(t)

(* What each task does, and the slots it waits for, as TaskLife sees it. *)
St == [t \in Tasks |->
          CASE co[t] = "active"  -> "running"
            [] co[t] = "created" -> "ready"
            [] co[t] = "suspended" -> IF Blocked(t) THEN "blocked" ELSE "ready"
            [] OTHER -> co[t]]
On == [t \in Tasks |->
          IF Blocked(t) THEN {p \in DOMAIN waiting : Count(waiting[p], t) > 0} ELSE {}]

Life == INSTANCE TaskLife WITH st <- St, on <- On

(* The scheduler implements TaskLife: every signal wakes exactly the      *)
(* tasks blocked on it when it was sent, as if at once, though hooks run, *)
(* signal, spawn and kill before signal() returns (sched/init.lua:645-698,*)
(* 836-926, 1122-1144).                                                   *)
LifeSpec == Life!Spec

-----------------------------------------------------------------------------
(* Liveness. A task is cooperative: it cannot run for ever without        *)
(* blocking, rescheduling itself or ending; a hook ends; the loop goes on.*)

Cooperate ==
    \/ Finish \/ Yield \/ WaitFails
    \/ \E em \in Known : \E evs \in Lists(em) : Wait(em, evs)

Fairness ==
    /\ WF_vars(ParseStep)
    /\ WF_vars(StartLoop \/ Resume \/ StepDone)
    /\ SF_vars(TimersDone)
    /\ SF_vars(SelectDone)
    /\ \A d \in 1 .. MaxDepth : SF_vars(Len(stack) = d /\ HookDone)
    /\ SF_vars(Cooperate)
    /\ \A t \in Tasks : SF_vars(TimerTask(t))

FairSpec == Spec /\ Fairness

(* A task in the ready list is eventually resumed (or killed), however    *)
(* often the others reschedule themselves (sched/init.lua:194-196).       *)
ReadyRuns ==
    \A t \in Tasks : co[t] \in {"created", "suspended"} /\ Count(ready, t) > 0
                        ~> co[t] \in {"active", "dead"}

(* A task which waits with a delay is eventually woken up, by its timer   *)
(* or by a signal before it, provided that step() returns: tasks which    *)
(* keep rescheduling themselves hold it for ever (sched/init.lua:538-557, *)
(* 741-759; sched/platform.lua:24-40).                                    *)
TimersFire ==
    []<>(phase # "step") => \A t \in Tasks : t \in timers ~> t \notin timers
=============================================================================
