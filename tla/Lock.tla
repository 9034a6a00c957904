--------------------------------- MODULE Lock ---------------------------------
(***************************************************************************)
(* The locks of sched/lock.lua, over what Sched shows of the scheduler: a  *)
(* call runs to its end unless it waits, a signal makes ready, at once,    *)
(* the task it names if it blocks on the lock, and a ready task is resumed *)
(* later, after any number of calls by the others.                         *)
(*                                                                         *)
(* A failed assertion of acquire() or release() changes nothing: the task  *)
(* goes on if it catches the error, and dies (Die) if it does not.         *)
(* lock(object), unlock(object) and synchronized(f) acquire and release    *)
(* the lock they keep for an object, and nothing more.                     *)
(***************************************************************************)
EXTENDS Naturals, FiniteSets

CONSTANTS
    Tasks,      \* threads, each used for one coroutine
    Locks,      \* lock objects: made by new(), or by lock() for an object
    None,       \* nil
    Killable    \* which tasks waiting for a lock the program may kill

Destroyed == "destroyed"

ASSUME IdAssumption       == None \notin Tasks \cup Locks /\ Destroyed \notin Tasks
                             /\ None # Destroyed
ASSUME KillableAssumption == Killable \subseteq {"blocked", "woken"}

VARIABLES
    owner,      \* LOCK.owner: a thread, Destroyed, or None
    waiting,    \* LOCK.waiting: the threads inside the loop of acquire()
    hooks,      \* the locks in LOCK.hooks[thread]
    armed,      \* the threads with LOCK.hooks[thread], and so a hook on 'die'
    pc,         \* where each task is: "out" of acquire(), "blocked" in its
                \* wait(), "woken" but not yet resumed, or "dead"
    on,         \* the lock a blocked or woken task waits for
    inside      \* auxiliary: <<l, t>> once t's acquire() of l has returned

vars == <<owner, waiting, hooks, armed, pc, on, inside>>

Init ==
    /\ owner   = [l \in Locks |-> None]
    /\ waiting = [l \in Locks |-> {}]
    /\ hooks   = [t \in Tasks |-> {}]
    /\ armed   = {}
    /\ pc      = [t \in Tasks |-> "out"]
    /\ on      = [t \in Tasks |-> None]
    /\ inside  = {}

-----------------------------------------------------------------------------
(* protectdie *)
Protect(l, t) ==
    /\ hooks' = [hooks EXCEPT ![t] = @ \cup {l}]
    /\ armed' = armed \cup {t}

(* unprotectdie: the hook on 'die' goes with the last lock of the thread. *)
Unprotect_Always(l, t) ==          \* mutant: the hook goes with any lock
    /\ hooks' = [hooks EXCEPT ![t] = {}]
    /\ armed' = armed \ {t}
Unprotect(l, t) ==
    /\ hooks' = [hooks EXCEPT ![t] = @ \ {l}]
    /\ armed' = IF hooks[t] = {l} THEN armed \ {t} ELSE armed

(* sched.signal(lock, t) for each t of T: those which are not blocked on  *)
(* the lock, because another signal has woken them, miss it.              *)
Signalled(l, T, p) ==
    [t \in Tasks |-> IF t \in T /\ p[t] = "blocked" /\ on[t] = l
                     THEN "woken" ELSE p[t]]

(* The loop of acquire(): t takes the free lock, or blocks.               *)
Take(l, t) ==
    /\ owner' = [owner EXCEPT ![l] = t]
    /\ waiting' = [waiting EXCEPT ![l] = @ \ {t}]
    /\ pc' = [pc EXCEPT ![t] = "out"]
    /\ on' = [on EXCEPT ![t] = None]
    /\ inside' = inside \cup {<<l, t>>}

Block(l, t) ==
    /\ waiting' = [waiting EXCEPT ![l] = @ \cup {t}]
    /\ pc' = [pc EXCEPT ![t] = "blocked"]
    /\ on' = [on EXCEPT ![t] = l]
    /\ UNCHANGED <<owner, inside>>

Acquire(l, t) ==
    /\ pc[t] = "out"
    /\ owner[l] \notin {t, Destroyed}
    /\ Protect(l, t)
    /\ IF owner[l] = None THEN Take(l, t) ELSE Block(l, t)

(* The task resumes in acquire(): another one may have taken the lock     *)
(* since the signal, or destroyed it, and then acquire() fails.           *)
Retry_Trusting(l, t) == Take(l, t)     \* mutant: `if' instead of `while'
Retry(l, t) == IF owner[l] = None THEN Take(l, t) ELSE Block(l, t)

Resume(t) ==
    /\ pc[t] = "woken"
    /\ IF owner[on[t]] = Destroyed
       THEN /\ pc' = [pc EXCEPT ![t] = "out"]
            /\ on' = [on EXCEPT ![t] = None]
            /\ UNCHANGED <<owner, waiting, inside>>
       ELSE Retry(on[t], t)
    /\ UNCHANGED <<hooks, armed>>

(* The waiter that next() returns for a lock, if any.                     *)
Waiters(l) == IF waiting[l] = {} THEN {None} ELSE waiting[l]

(* Called by the owner, or with the owner as its parameter.               *)
Release(l) ==
    /\ owner[l] \in Tasks
    /\ Unprotect(l, owner[l])
    /\ owner' = [owner EXCEPT ![l] = None]
    /\ \E w \in Waiters(l) : pc' = Signalled(l, {w}, pc)
    /\ inside' = inside \ {<<l, owner[l]>>}
    /\ UNCHANGED <<waiting, on>>

Destroy_Silent(l) ==               \* mutant: the waiters are not signalled
    /\ owner' = [owner EXCEPT ![l] = Destroyed]
    /\ waiting' = [waiting EXCEPT ![l] = {}]
    /\ UNCHANGED <<hooks, armed, pc, on, inside>>
Destroy(l) ==
    /\ owner' = [owner EXCEPT ![l] = Destroyed]
    /\ waiting' = [waiting EXCEPT ![l] = {}]
    /\ pc' = Signalled(l, waiting[l], pc)
    /\ UNCHANGED <<hooks, armed, on, inside>>

-----------------------------------------------------------------------------
(* The end of a task: it returns, fails or is killed, wherever it is. The *)
(* hook on 'die' (autorelease) releases the locks it owns, each with the  *)
(* signal of release(), and withdraws it from those it waits for.         *)

Owned(t) == {l \in hooks[t] : owner[l] = t}

Withdraw_Not(t) == waiting         \* mutant: a dead waiter stays listed
Withdraw(t) ==
    [l \in Locks |-> IF l \in hooks[t] \ Owned(t)
                     THEN waiting[l] \ {t} ELSE waiting[l]]

Autorelease(t) ==
    /\ owner' = [l \in Locks |-> IF l \in Owned(t) THEN None ELSE owner[l]]
    /\ waiting' = Withdraw(t)
    /\ \E next \in [Locks -> Tasks \cup {None}] :
          /\ \A l \in Owned(t) : next[l] \in Waiters(l)
          /\ \A l \in Locks \ Owned(t) : next[l] = None
          /\ pc' = [u \in Tasks |->
                      IF u = t THEN "dead"
                      ELSE IF pc[u] = "blocked" /\ next[on[u]] = u
                           THEN "woken" ELSE pc[u]]
    /\ hooks' = [hooks EXCEPT ![t] = {}]
    /\ armed' = armed \ {t}

Die(t) ==
    /\ pc[t] \in {"out"} \cup Killable
    /\ IF t \in armed
       THEN Autorelease(t)
       ELSE /\ pc' = [pc EXCEPT ![t] = "dead"]
            /\ UNCHANGED <<owner, waiting, hooks, armed>>
    /\ on' = [on EXCEPT ![t] = None]
    /\ inside' = {x \in inside : x[2] # t}

Next ==
    \/ \E t \in Tasks : Resume(t) \/ Die(t) \/ \E l \in Locks : Acquire(l, t)
    \/ \E l \in Locks : Release(l) \/ Destroy(l)

Spec == Init /\ [][Next]_vars

(* A ready task is eventually resumed (ReadyRuns of SchedLife).           *)
FairSpec == Spec /\ \A t \in Tasks : WF_vars(Resume(t))

-----------------------------------------------------------------------------
(* Properties. *)

(* Every variable has its type; LOCK.hooks[thread], and the hook on 'die' *)
(* in it, exist exactly while they name a lock (sched/lock.lua:137-156).  *)
TypeOK ==
    /\ owner \in [Locks -> Tasks \cup {None, Destroyed}]
    /\ waiting \in [Locks -> SUBSET Tasks]
    /\ hooks \in [Tasks -> SUBSET Locks]
    /\ armed = {t \in Tasks : hooks[t] # {}}
    /\ pc \in [Tasks -> {"out", "blocked", "woken", "dead"}]
    /\ on \in [Tasks -> Locks \cup {None}]
    /\ inside \subseteq Locks \X Tasks

(* No two tasks are between acquire() and release() of a lock             *)
(* (sched/lock.lua:6-7), although the lock may be taken by a third one    *)
(* between the signal of release() and the moment the waiter is resumed.  *)
MutualExclusion ==
    \A l \in Locks, t, u \in Tasks :
        <<l, t>> \in inside /\ <<l, u>> \in inside => t = u

(* A blocked task is listed by its lock, which is not destroyed; only     *)
(* tasks in acquire() are listed, and they own nothing there: release()   *)
(* never wastes its only signal on a thread that does not wait            *)
(* (sched/lock.lua:168-174, 187-191, 126-132).                            *)
WaitersListed ==
    /\ \A t \in Tasks : pc[t] = "blocked" =>
          t \in waiting[on[t]] /\ owner[on[t]] # Destroyed
    /\ \A l \in Locks : \A t \in waiting[l] :
          pc[t] \in {"blocked", "woken"} /\ on[t] = l /\ owner[l] # t

(* A free lock with waiters has one which is about to be resumed: nobody  *)
(* sleeps for ever on a free lock (sched/lock.lua:187-191).               *)
NoLostWakeup ==
    \A l \in Locks : owner[l] = None /\ waiting[l] # {} =>
        \E t \in waiting[l] : pc[t] = "woken"

(* Whatever a task owns or waits for, its death will find: the lock is in *)
(* LOCK.hooks[thread], and a dead thread neither owns nor waits           *)
(* (sched/lock.lua:18 "automatically released when its owning thread      *)
(* dies").                                                                *)
DeathReleases ==
    \A t \in Tasks, l \in Locks : owner[l] = t \/ t \in waiting[l] =>
        l \in hooks[t] /\ pc[t] # "dead"

(* A lock that is released while tasks wait for it is taken again, or all *)
(* the waiters leave (sched/lock.lua:168-174, 187-191).                   *)
Handover ==
    \A l \in Locks : owner[l] = None /\ waiting[l] # {}
                        ~> owner[l] # None \/ waiting[l] = {}
=============================================================================
