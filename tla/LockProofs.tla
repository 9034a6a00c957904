------------------------------ MODULE LockProofs ------------------------------
(***************************************************************************)
(* The safety of the locks of sched/lock.lua, for any number of tasks and  *)
(* locks. MutualExclusion is not inductive: it rests on Insiders (a task   *)
(* inside a lock owns it, or the lock has been destroyed under it), which  *)
(* rests on DeathReleases (the hook on 'die' misses no lock), which rests  *)
(* on WaitersListed. Sound joins them.                                     *)
(***************************************************************************)
EXTENDS Lock, TLAPS

Sites ==
    /\ \A t \in Tasks : pc[t] \in {"blocked", "woken"} =>
          on[t] \in Locks /\ (t \in waiting[on[t]] \/ owner[on[t]] = Destroyed)
    /\ \A l \in Locks : owner[l] = Destroyed => waiting[l] = {}

Insiders == \A x \in inside : owner[x[1]] \in {x[2], Destroyed}

Sound == /\ TypeOK /\ Sites /\ WaitersListed /\ DeathReleases
         /\ Insiders /\ MutualExclusion

USE DEF Destroyed

-----------------------------------------------------------------------------
(* The two outcomes of the loop of acquire(), for a task which waits for  *)
(* no other lock, once the lock is in its LOCK.hooks.                     *)

\* A task that is alive and waits for no other lock may take a free one.
LEMMA TakeSound ==
    ASSUME Sound, NEW l \in Locks, NEW t \in Tasks, Take(l, t),
           owner[l] = None, pc[t] # "dead",
           \A k \in Locks : t \in waiting[k] => k = l,
           hooks' = [hooks EXCEPT ![t] = @ \cup {l}],
           armed' = armed \cup {t}
    PROVE  Sound'
<1> USE IdAssumption
<1>1. TypeOK'  BY DEF Sound, TypeOK, Take
<1>2. Sites'  BY DEF Sound, TypeOK, Take, Sites
<1>3. WaitersListed'  BY DEF Sound, TypeOK, Take, WaitersListed
<1>4. DeathReleases'  BY DEF Sound, TypeOK, Take, DeathReleases
<1>5. Insiders'  BY DEF Sound, TypeOK, Take, Insiders
<1>6. MutualExclusion'
  BY DEF Sound, TypeOK, Take, Insiders, MutualExclusion
<1> QED  BY <1>1, <1>2, <1>3, <1>4, <1>5, <1>6 DEF Sound

\* Such a task may block on a lock that another task owns.
LEMMA BlockSound ==
    ASSUME Sound, NEW l \in Locks, NEW t \in Tasks, Block(l, t),
           owner[l] \notin {t, None, Destroyed}, pc[t] # "dead",
           \A k \in Locks : t \in waiting[k] => k = l,
           hooks' = [hooks EXCEPT ![t] = @ \cup {l}],
           armed' = armed \cup {t}
    PROVE  Sound'
<1>1. TypeOK'  BY DEF Sound, TypeOK, Block
<1>2. Sites'  BY DEF Sound, TypeOK, Block, Sites
<1>3. WaitersListed'  BY DEF Sound, TypeOK, Block, WaitersListed
<1>4. DeathReleases'  BY DEF Sound, TypeOK, Block, DeathReleases
<1>5. Insiders' /\ MutualExclusion'
  BY DEF Sound, Block, Insiders, MutualExclusion
<1> QED  BY <1>1, <1>2, <1>3, <1>4, <1>5 DEF Sound

\* acquire, up to the lock or to its first wait.
LEMMA AcquireSound ==
    ASSUME Sound, NEW l \in Locks, NEW t \in Tasks, Acquire(l, t)
    PROVE  Sound'
<1>1. /\ pc[t] = "out" /\ \A k \in Locks : t \notin waiting[k]
      /\ hooks' = [hooks EXCEPT ![t] = @ \cup {l}]
      /\ armed' = armed \cup {t}
  BY DEF Acquire, Protect, Sound, WaitersListed
<1>2. CASE owner[l] = None  BY <1>1, <1>2, TakeSound DEF Acquire
<1>3. CASE owner[l] # None  BY <1>1, <1>3, BlockSound DEF Acquire
<1> QED  BY <1>2, <1>3

\* A woken waiter takes the lock, blocks again, or finds the lock destroyed.
LEMMA ResumeSound ==
    ASSUME Sound, NEW t \in Tasks, Resume(t)
    PROVE  Sound'
<1> DEFINE l == on[t]
<1>1. l \in Locks /\ pc[t] = "woken"  BY DEF Resume, Sound, Sites
<1>2. \A k \in Locks : t \in waiting[k] => k = l
  BY DEF Sound, WaitersListed
<1>3. CASE owner[l] = Destroyed
  <2>1. \A k \in Locks : t \notin waiting[k]
    BY <1>2, <1>3 DEF Sound, Sites
  <2>2. TypeOK' /\ Sites'
    BY <1>1, <1>3 DEF Resume, Sound, TypeOK, Sites
  <2>3. WaitersListed' /\ DeathReleases'
    BY <1>1, <1>3, <2>1
    DEF Resume, Sound, TypeOK, WaitersListed, DeathReleases
  <2>4. Insiders' /\ MutualExclusion'
    BY <1>3 DEF Resume, Sound, Insiders, MutualExclusion
  <2> QED  BY <2>2, <2>3, <2>4 DEF Sound
<1>4. CASE owner[l] # Destroyed
  <2>1. Retry(l, t) /\ hooks' = hooks /\ armed' = armed
    BY <1>4 DEF Resume
  <2>2. t \in waiting[l]  BY <1>1, <1>4 DEF Sound, Sites
  <2>3. l \in hooks[t] /\ owner[l] # t
    BY <1>1, <2>2 DEF Sound, DeathReleases, WaitersListed
  <2>4. /\ hooks' = [hooks EXCEPT ![t] = @ \cup {l}]
        /\ armed' = armed \cup {t}
    BY <2>1, <2>3 DEF Sound, TypeOK
  <2> QED
    BY <1>1, <1>2, <1>4, <2>1, <2>3, <2>4, TakeSound, BlockSound DEF Retry
<1> QED  BY <1>3, <1>4

-----------------------------------------------------------------------------
(* Only blocked tasks change place when locks are released, and they keep *)
(* their lock and their place in its list.                                *)
LEMMA ReleaseSound ==
    ASSUME Sound, NEW l \in Locks, Release(l)
    PROVE  Sound'
<1> DEFINE t == owner[l]
<1>1. PICK w \in Waiters(l) : pc' = Signalled(l, {w}, pc)  BY DEF Release
<1>2. t \in Tasks /\ owner' = [owner EXCEPT ![l] = None]
      /\ UNCHANGED <<waiting, on>>
  BY DEF Release
<1>3. \A u \in Tasks :
         \/ pc'[u] = pc[u]
         \/ pc[u] = "blocked" /\ pc'[u] = "woken" /\ on[u] = l
  BY <1>1 DEF Signalled
<1>4. TypeOK'
  BY <1>1, <1>2 DEF Release, Unprotect, Signalled, Sound, TypeOK
<1>5. Sites'
  BY <1>2, <1>3, IdAssumption DEF Sound, TypeOK, Sites, WaitersListed
<1>6. WaitersListed'
  BY <1>2, <1>3, IdAssumption DEF Sound, TypeOK, Sites, WaitersListed
<1>7. DeathReleases'
  <2>1. SUFFICES ASSUME NEW u \in Tasks, NEW k \in Locks,
                        owner'[k] = u \/ u \in waiting'[k]
                 PROVE  k \in hooks'[u] /\ pc'[u] # "dead"
    BY DEF DeathReleases
  <2>2. owner[k] = u \/ u \in waiting[k]
    BY <1>2, <2>1, IdAssumption DEF Sound, TypeOK
  <2>3. k \in hooks[u] /\ pc[u] # "dead"
    BY <2>2 DEF Sound, DeathReleases
  <2>4. k # l \/ u # t
    BY <1>2, <2>1, IdAssumption DEF Sound, TypeOK, WaitersListed
  <2>5. k \in hooks'[u]
    BY <1>2, <2>3, <2>4 DEF Release, Unprotect, Sound, TypeOK
  <2> QED  BY <1>3, <2>3, <2>5
<1>8. Insiders'
  BY <1>2, IdAssumption DEF Release, Sound, TypeOK, Insiders
<1>9. MutualExclusion'  BY DEF Release, Sound, MutualExclusion
<1> QED  BY <1>4, <1>5, <1>6, <1>7, <1>8, <1>9 DEF Sound

\* destroy: nobody owns the lock, all its waiters are woken.
LEMMA DestroySound ==
    ASSUME Sound, NEW l \in Locks, Destroy(l)
    PROVE  Sound'
<1>1. \A u \in Tasks :
         \/ pc'[u] = pc[u]
         \/ pc[u] = "blocked" /\ pc'[u] = "woken" /\ on[u] = l
  BY DEF Destroy, Signalled
<1>2. \A u \in waiting[l] : pc[u] = "blocked" => pc'[u] = "woken"
  BY DEF Destroy, Signalled, Sound, TypeOK, WaitersListed
<1>3. TypeOK'  BY DEF Destroy, Signalled, Sound, TypeOK
<1>4. Sites'  BY <1>1 DEF Destroy, Sound, TypeOK, Sites, WaitersListed
<1>5. WaitersListed'
  BY <1>1, <1>2 DEF Destroy, Sound, TypeOK, Sites, WaitersListed
<1>6. DeathReleases'
  BY <1>1, IdAssumption DEF Destroy, Sound, TypeOK, DeathReleases
<1>7. Insiders' /\ MutualExclusion'
  BY DEF Destroy, Sound, TypeOK, Insiders, MutualExclusion
<1> QED  BY <1>3, <1>4, <1>5, <1>6, <1>7 DEF Sound

(* A task without a hook on 'die' owns no lock and waits for none.        *)
LEMMA UnarmedDieSound ==
    ASSUME Sound, NEW t \in Tasks, Die(t), t \notin armed
    PROVE  Sound'
<1>1. \A l \in Locks : owner[l] # t /\ t \notin waiting[l]
  BY DEF Sound, TypeOK, DeathReleases
<1>2. TypeOK'  BY DEF Die, Sound, TypeOK
<1>3. Sites'  BY DEF Die, Sound, TypeOK, Sites
<1>4. WaitersListed'  BY <1>1 DEF Die, Sound, TypeOK, WaitersListed
<1>5. DeathReleases'  BY <1>1 DEF Die, Sound, TypeOK, DeathReleases
<1>6. Insiders' /\ MutualExclusion'
  BY DEF Die, Sound, Insiders, MutualExclusion
<1> QED  BY <1>2, <1>3, <1>4, <1>5, <1>6 DEF Sound

\* The death of a task that has locks or waits for one: autorelease.
LEMMA ArmedDieSound ==
    ASSUME Sound, NEW t \in Tasks, Die(t), t \in armed
    PROVE  Sound'
<1>1. Autorelease(t) /\ on' = [on EXCEPT ![t] = None]
      /\ inside' = {x \in inside : x[2] # t}
  BY DEF Die
<1>2. /\ pc' \in [Tasks -> {"out", "blocked", "woken", "dead"}]
      /\ pc'[t] = "dead"
      /\ \A u \in Tasks \ {t} :
            pc'[u] = pc[u] \/ (pc[u] = "blocked" /\ pc'[u] = "woken")
  BY <1>1 DEF Autorelease, Sound, TypeOK
<1>3. \A l \in Locks : owner'[l] = IF owner[l] = t THEN None ELSE owner[l]
  BY <1>1 DEF Autorelease, Owned, Sound, TypeOK, DeathReleases
<1>4. \A l \in Locks : waiting'[l] = waiting[l] \ {t}
  BY <1>1 DEF Autorelease, Owned, Withdraw, Sound, TypeOK, DeathReleases,
              WaitersListed
<1>5. TypeOK'
  <2>1. owner' \in [Locks -> Tasks \cup {None, Destroyed}]
        /\ waiting' \in [Locks -> SUBSET Tasks]
    BY <1>1 DEF Autorelease, Withdraw, Sound, TypeOK
  <2> QED  BY <1>1, <1>2, <2>1 DEF Autorelease, Sound, TypeOK
<1>6. Sites'
  BY <1>1, <1>2, <1>3, <1>4, IdAssumption DEF Sound, TypeOK, Sites, WaitersListed
<1>7. WaitersListed'
  BY <1>1, <1>2, <1>3, <1>4, IdAssumption
  DEF Sound, TypeOK, Sites, WaitersListed
<1>8. DeathReleases'
  BY <1>1, <1>2, <1>3, <1>4, IdAssumption
  DEF Autorelease, Sound, TypeOK, DeathReleases
<1>9. Insiders' /\ MutualExclusion'
  BY <1>1, <1>3, IdAssumption DEF Sound, TypeOK, Insiders, MutualExclusion
<1> QED  BY <1>5, <1>6, <1>7, <1>8, <1>9 DEF Sound

-----------------------------------------------------------------------------
\* Every action keeps the invariant.
LEMMA StepSound == ASSUME Sound, [Next]_vars PROVE Sound'
<1>1. CASE UNCHANGED vars
  BY <1>1 DEF vars, Sound, TypeOK, Sites, WaitersListed, DeathReleases,
              Insiders, MutualExclusion
<1>2. CASE Next
  BY <1>2, AcquireSound, ResumeSound, ReleaseSound, DestroySound,
     UnarmedDieSound, ArmedDieSound DEF Next
<1> QED  BY <1>1, <1>2

(* Sound is an inductive invariant of the locks.                          *)
THEOREM SoundInvariant == Spec => []Sound
<1>1. Init => Sound
  BY IdAssumption DEF Init, Sound, TypeOK, Sites, WaitersListed,
                      DeathReleases, Insiders, MutualExclusion
<1>2. Sound /\ [Next]_vars => Sound'  BY StepSound
<1> QED  BY <1>1, <1>2, PTL DEF Spec

(* At most one task at a time is between acquire() and release() of a     *)
(* lock, whatever the tasks do and whoever is killed.                     *)
THEOREM Exclusion == Spec => []MutualExclusion
<1>1. Sound => MutualExclusion  BY DEF Sound
<1> QED  BY <1>1, SoundInvariant, PTL

(* The hook on 'die' of a task finds every lock it owns or waits for, and *)
(* a dead task owns none.                                                 *)
THEOREM DeathIsClean == Spec => []DeathReleases
<1>1. Sound => DeathReleases  BY DEF Sound
<1> QED  BY <1>1, SoundInvariant, PTL

(* A lock lists the tasks that wait for it, and no other.                 *)
THEOREM WaitersAreListed == Spec => []WaitersListed
<1>1. Sound => WaitersListed  BY DEF Sound
<1> QED  BY <1>1, SoundInvariant, PTL

-----------------------------------------------------------------------------
(* As long as no task is killed between its wake-up and its resumption, a *)
(* free lock with waiters has one that is about to take it.               *)

\* While no woken task is killed, a free lock always has a waiter awake.
LEMMA StepWakes ==
    ASSUME Sound, NoLostWakeup, [Next]_vars, "woken" \notin Killable
    PROVE  NoLostWakeup'
<1> USE IdAssumption
<1>1. CASE UNCHANGED vars  BY <1>1 DEF vars, NoLostWakeup
<1>2. ASSUME NEW t \in Tasks, NEW l \in Locks, Acquire(l, t)
      PROVE  NoLostWakeup'
  <2>1. \A k \in Locks : t \notin waiting[k]
    BY <1>2 DEF Acquire, Sound, WaitersListed
  <2> QED
    BY <1>2, <2>1 DEF Acquire, Take, Block, Sound, TypeOK, NoLostWakeup
<1>3. ASSUME NEW t \in Tasks, Resume(t) PROVE NoLostWakeup'
  <2>1. on[t] \in Locks /\ \A k \in Locks : t \in waiting[k] => k = on[t]
    BY <1>3 DEF Resume, Sound, Sites, WaitersListed
  <2>2. CASE owner[on[t]] = Destroyed
    BY <1>3, <2>1, <2>2 DEF Resume, Sound, TypeOK, NoLostWakeup
  <2>3. CASE owner[on[t]] # Destroyed
    BY <1>3, <2>1, <2>3
    DEF Resume, Retry, Take, Block, Sound, TypeOK, NoLostWakeup
  <2> QED  BY <2>2, <2>3
<1>4. ASSUME NEW l \in Locks, Release(l) PROVE NoLostWakeup'
  <2>1. PICK w \in Waiters(l) : pc' = Signalled(l, {w}, pc)
    BY <1>4 DEF Release
  <2>2. /\ UNCHANGED waiting
        /\ \A k \in Locks \ {l} : owner'[k] = owner[k]
        /\ \A u \in Tasks : pc[u] = "woken" => pc'[u] = "woken"
    BY <1>4, <2>1 DEF Release, Signalled, Sound, TypeOK
  <2>3. waiting[l] # {} => w \in waiting[l] /\ pc'[w] = "woken"
    BY <2>1 DEF Waiters, Signalled, Sound, TypeOK, WaitersListed
  <2>4. \A k \in Locks : waiting[k] \in SUBSET Tasks  BY DEF Sound, TypeOK
  <2> QED  BY <2>2, <2>3, <2>4 DEF NoLostWakeup
<1>5. ASSUME NEW l \in Locks, Destroy(l) PROVE NoLostWakeup'
  <2>1. \A u \in Tasks : pc[u] = "woken" => pc'[u] = "woken"
    BY <1>5 DEF Destroy, Signalled
  <2> QED  BY <1>5, <2>1 DEF Destroy, Sound, TypeOK, NoLostWakeup
<1>6. ASSUME NEW t \in Tasks, Die(t), t \notin armed PROVE NoLostWakeup'
  <2>1. \A l \in Locks : t \notin waiting[l]
    BY <1>6 DEF Sound, TypeOK, DeathReleases
  <2> QED  BY <1>6, <2>1 DEF Die, Sound, TypeOK, NoLostWakeup
<1>7. ASSUME NEW t \in Tasks, Die(t), t \in armed PROVE NoLostWakeup'
  <2>1. PICK next \in [Locks -> Tasks \cup {None}] :
          /\ \A l \in Owned(t) : next[l] \in Waiters(l)
          /\ pc' = [u \in Tasks |->
                      IF u = t THEN "dead"
                      ELSE IF pc[u] = "blocked" /\ next[on[u]] = u
                           THEN "woken" ELSE pc[u]]
    BY <1>7 DEF Die, Autorelease
  <2>2. pc[t] # "woken"  BY <1>7 DEF Die
  <2>3. \A l \in Locks : waiting'[l] = waiting[l] \ {t}
    BY <1>7 DEF Die, Autorelease, Owned, Withdraw, Sound, TypeOK,
                DeathReleases, WaitersListed
  <2>4. SUFFICES ASSUME NEW l \in Locks, owner'[l] = None, waiting'[l] # {}
                 PROVE  \E u \in waiting'[l] : pc'[u] = "woken"
    BY DEF NoLostWakeup
  <2>5. waiting[l] \in SUBSET Tasks  BY DEF Sound, TypeOK
  <2>6. CASE l \in Owned(t)
    <3>1. next[l] \in waiting[l]  BY <2>1, <2>3, <2>4, <2>6 DEF Waiters
    <3>2. /\ next[l] # t /\ on[next[l]] = l
          /\ pc[next[l]] \in {"blocked", "woken"}
      BY <2>6, <3>1 DEF Owned, Sound, WaitersListed
    <3> QED  BY <2>1, <2>3, <2>5, <3>1, <3>2
  <2>7. CASE l \notin Owned(t)
    <3>1. owner[l] = None
      BY <1>7, <2>4, <2>7 DEF Die, Autorelease, Sound, TypeOK
    <3>2. PICK u \in waiting[l] : pc[u] = "woken"
      BY <2>3, <2>4, <3>1 DEF NoLostWakeup
    <3> QED  BY <2>1, <2>2, <2>3, <2>5, <3>2
  <2> QED  BY <2>6, <2>7
<1> QED  BY <1>1, <1>2, <1>3, <1>4, <1>5, <1>6, <1>7 DEF Next

(* The signal of release() is never lost, if woken tasks are not killed.  *)
THEOREM WakeupKept ==
    ASSUME "woken" \notin Killable
    PROVE  Spec => []NoLostWakeup
<1>1. Init => NoLostWakeup  BY DEF Init, NoLostWakeup
<1>2. Sound /\ NoLostWakeup /\ [Next]_vars => NoLostWakeup'  BY StepWakes
<1> QED  BY <1>1, <1>2, SoundInvariant, PTL DEF Spec
=============================================================================
