------------------------------- MODULE TaskLife -------------------------------
(***************************************************************************)
(* What sched promises about tasks, without cells, queues, hooks or a Lua  *)
(* stack: a task blocks on a set of slots (an emitter and one of its       *)
(* events, the wildcard or a delay), and a signal makes ready, at once,    *)
(* exactly the tasks blocked on a slot it matches.                         *)
(***************************************************************************)
CONSTANTS Tasks, Emitters, Keys, Star, Die, Timeout

VARIABLES st,   \* what each task does
          on    \* the slots a blocked task waits for, {} for the others

vars == <<st, on>>

Slots  == Emitters \X Keys
Status == {"none", "ready", "running", "blocked", "dead"}

Init == st = [t \in Tasks |-> "none"] /\ on = [t \in Tasks |-> {}]

Waiters(em, ev) == {t \in Tasks : on[t] \cap {<<em, Star>>, <<em, ev>>} # {}}

(* The tasks of W become ready, after task t's status has become s. *)
Wake(W, t, s) ==
    /\ st' = [u \in Tasks |-> IF u = t THEN s
                              ELSE IF u \in W THEN "ready" ELSE st[u]]
    /\ on' = [u \in Tasks |-> IF u = t \/ u \in W THEN {} ELSE on[u]]

Spawn(t)  == st[t] = "none" /\ Wake({}, t, "ready")
Resume(t) == st[t] = "ready" /\ (\A u \in Tasks : st[u] # "running")
             /\ Wake({}, t, "running")
Yield(t)  == st[t] = "running" /\ Wake({}, t, "ready")
Finish(t) == st[t] = "running" /\ Wake(Waiters(t, Die), t, "dead")
Kill(t)   == st[t] \in {"ready", "blocked"} /\ Wake(Waiters(t, Die), t, "dead")

Block(t) ==
    /\ st[t] = "running"
    /\ st' = [st EXCEPT ![t] = "blocked"]
    /\ on'[t] \in (SUBSET Slots) \ {{}}
    /\ on' = [on EXCEPT ![t] = on'[t]]

Expire(t) ==
    /\ \E em \in Emitters : <<em, Timeout>> \in on[t]
    /\ Wake({}, t, "ready")

Signal(em, ev) ==
    LET W == Waiters(em, ev)
    IN  /\ st' = [u \in Tasks |-> IF u \in W THEN "ready" ELSE st[u]]
        /\ on' = [u \in Tasks |-> IF u \in W THEN {} ELSE on[u]]

Next ==
    \/ \E t \in Tasks : Spawn(t) \/ Resume(t) \/ Yield(t) \/ Finish(t)
                        \/ Kill(t) \/ Block(t) \/ Expire(t)
    \/ \E em \in Emitters, ev \in Keys : Signal(em, ev)

Spec == Init /\ [][Next]_vars
=============================================================================
