------------------------------ MODULE PipeProofs ------------------------------
(***************************************************************************)
(* The pipes of sched/pipe.lua, for any tasks, values, limits and waste    *)
(* parameters: the cached state is right, the limit is respected and       *)
(* nobody sleeps on a pipe that could serve it (whatever reset() does to   *)
(* the content), and, when reset() is called on fresh pipes only, a pipe   *)
(* implements Fifo.                                                        *)
(***************************************************************************)
EXTENDS Pipe, SequenceTheorems, TLAPS

Sound == TypeOK /\ StateMatches /\ Bounded /\ NoSleeper

-----------------------------------------------------------------------------
(* updatestate, called with the new length n and limit max by a task which *)
(* leaves the pipe, or by anyone else.                                     *)
LEMMA UpdateSound ==
    ASSUME Sound, NEW n \in Nat, NEW max \in MaxLengths \cup {None}, NEW a,
           UpdateState(n, max, a),
           Length' = n, maxlength' = max,
           \/ a = at /\ call' = call
           \/ \E t \in Tasks : a = Out(t) /\ Return(t)
    PROVE  /\ StateMatches' /\ NoSleeper'
           /\ state' \in {"empty", "ready", "full"}
           /\ at' \in [Tasks -> {"out", "blocked", "woken", "late"}]
           /\ call' \in [Tasks -> Calls]
           /\ \A t \in Tasks : at'[t] = "out" <=> call'[t].op = "none"
<1>1. /\ a \in [Tasks -> {"out", "blocked", "woken", "late"}]
      /\ call' \in [Tasks -> Calls]
      /\ \A t \in Tasks : a[t] = "out" <=> call'[t].op = "none"
      /\ \A t \in Tasks : a[t] = "blocked" =>
            at[t] = "blocked" /\ call'[t] = call[t]
  <2>1. CASE a = at /\ call' = call  BY <2>1 DEF Sound, TypeOK
  <2>2. ASSUME NEW t \in Tasks, a = Out(t), Return(t)
        PROVE  /\ a = [at EXCEPT ![t] = "out"]
               /\ call' = [call EXCEPT ![t] = Idle]
               /\ Idle \in Calls /\ Idle.op = "none"
    BY <2>2 DEF Out, Return, Idle, Calls
  <2> QED  BY <2>1, <2>2 DEF Sound, TypeOK
<1>2. /\ at' \in [Tasks -> {"out", "blocked", "woken", "late"}]
      /\ \A t \in Tasks : at'[t] = "out" <=> a[t] = "out"
      /\ \A t \in Tasks : at'[t] = "blocked" => a[t] = "blocked" /\ state' = state
  BY <1>1 DEF UpdateState
<1>3. StateMatches' /\ state' \in {"empty", "ready", "full"}
  BY DEF UpdateState, StateMatches, StateOf
<1>4. NoSleeper'
  <2>1. SUFFICES ASSUME NEW t \in Tasks, at'[t] = "blocked"
                 PROVE  \/ call'[t].op = "receive" /\ Length' = 0
                        \/ call'[t].op = "send" /\ state' = "full"
    BY DEF NoSleeper
  <2>2. at[t] = "blocked" /\ call'[t] = call[t] /\ state' = state
    BY <1>1, <1>2, <2>1
  <2>3. CASE call[t].op = "receive" /\ Length = 0
    <3>1. state = "empty"  BY <2>3 DEF Sound, StateMatches, StateOf
    <3>2. n = 0  BY <2>2, <3>1 DEF UpdateState, StateOf
    <3> QED  BY <2>2, <2>3, <3>2
  <2>4. CASE call[t].op = "send" /\ state = "full"  BY <2>2, <2>4
  <2> QED  BY <2>2, <2>3, <2>4 DEF Sound, NoSleeper
<1> QED  BY <1>1, <1>2, <1>3, <1>4

(* The limit as updatestate's callers know it: state "full" is the only   *)
(* length at which a value cannot be added.                               *)
LEMMA Room ==
    ASSUME Sound
    PROVE  /\ Length \in Nat
           /\ state # "full" /\ maxlength # None => Length + 1 <= maxlength
BY LimitAssumption, IdAssumption
   DEF Sound, TypeOK, StateMatches, StateOf, Bounded, Length

\* A table without keys from n on has its borders below n.
LEMMA BorderBound ==
    ASSUME NEW n \in Nat \ {0}, NEW c, DOMAIN c \subseteq 1 .. n - 1,
           NEW b \in Borders(c)
    PROVE  b \in 0 .. n - 1
BY DEF Borders

(* The table after recompact, called with the content c and the read index *)
(* r.                                                                      *)
LEMMA RecompactType ==
    ASSUME Sound, NEW r \in 1 .. sndidx, NEW c, Recompact(c, r),
           DOMAIN c \subseteq 1 .. sndidx - 1,
           \A i \in DOMAIN c : c[i] \in Values \cup {Used}
    PROVE  /\ DOMAIN content' \subseteq 1 .. sndidx' - 1
           /\ \A i \in DOMAIN content' : content'[i] \in Values \cup {Used}
           /\ sndidx' \in Nat \ {0} /\ rcvidx' \in 1 .. sndidx'
           /\ Length' = sndidx - r
<1>0. sndidx \in Nat \ {0}  BY DEF Sound, TypeOK
<1>1. CASE ~Recompactable(r)  BY <1>0, <1>1 DEF Recompact, Length
<1>2. CASE Recompactable(r)
  <2>1. rcvidx' = 1 /\ sndidx' = sndidx - r + 1
    BY <1>2 DEF Recompact
  <2>2. PICK n : n \in Int /\ n <= sndidx - r /\ content' = Moved(c, r, n)
    BY <1>0, <1>2, BorderBound DEF Recompact
  <2>3. /\ DOMAIN content' \subseteq 1 .. n
        /\ \A i \in DOMAIN content' : content'[i] \in Values \cup {Used}
    BY <2>2 DEF Moved
  <2> QED  BY <1>0, <2>1, <2>2, <2>3 DEF Length
<1> QED  BY <1>1, <1>2

\* Taking the oldest value, in a first call of receive or in a woken one.
LEMMA TakeSound ==
    ASSUME Sound, NEW a, Take(a),
           \/ a = at /\ call' = call
           \/ \E t \in Tasks : a = Out(t) /\ Return(t)
    PROVE  Sound'
<1> DEFINE c == Set(content, rcvidx, Used)
<1>1. rcvidx + 1 \in 1 .. sndidx /\ Length \in Nat /\ Length - 1 \in Nat
  BY DEF Take, Sound, TypeOK, Length
<1>2. /\ DOMAIN c \subseteq 1 .. sndidx - 1
      /\ \A i \in DOMAIN c : c[i] \in Values \cup {Used}
  BY <1>1 DEF Set, Sound, TypeOK
<1>3. Recompact(c, rcvidx + 1) /\ UpdateState(Length - 1, maxlength, a)
      /\ UNCHANGED <<maxlength, waste>>
  BY DEF Take
<1>4. /\ DOMAIN content' \subseteq 1 .. sndidx' - 1
      /\ \A i \in DOMAIN content' : content'[i] \in Values \cup {Used}
      /\ sndidx' \in Nat \ {0} /\ rcvidx' \in 1 .. sndidx'
      /\ Length' = sndidx - (rcvidx + 1)
  <2> HIDE DEF c
  <2> QED  BY <1>1, <1>2, <1>3, RecompactType
<1>5. Length' = Length - 1  BY <1>4 DEF Length, Sound, TypeOK
<1>6. got' \in Values \cup {None, Used}  BY DEF Take, Sound, TypeOK
<1>7. maxlength \in MaxLengths \cup {None}  BY DEF Sound, TypeOK
<1>8. Bounded'
  BY <1>1, <1>3, <1>5, LimitAssumption DEF Sound, TypeOK, Bounded
<1> QED
  BY <1>1, <1>3, <1>4, <1>5, <1>6, <1>7, <1>8, UpdateSound DEF Sound, TypeOK

\* Adding a value, in a first call of send or in a woken one.
LEMMA PutSound ==
    ASSUME Sound, NEW x \in Values, NEW a, Put(x, a),
           \/ a = at /\ call' = call
           \/ \E t \in Tasks : a = Out(t) /\ Return(t)
    PROVE  Sound'
<1>1. /\ DOMAIN content' \subseteq 1 .. sndidx' - 1
      /\ \A i \in DOMAIN content' : content'[i] \in Values \cup {Used}
  BY DEF Put, Set, Sound, TypeOK
<1>2. /\ sndidx' \in Nat \ {0} /\ rcvidx' \in 1 .. sndidx'
      /\ Length \in Nat /\ Length' = Length + 1
  BY DEF Put, Length, Sound, TypeOK
<1>3. UNCHANGED <<maxlength, waste, got>>  BY DEF Put
<1>4. Bounded'  BY <1>2, <1>3, Room DEF Put, Bounded
<1>5. maxlength \in MaxLengths \cup {None}  BY DEF Sound, TypeOK
<1>6. UpdateState(Length + 1, maxlength, a)  BY DEF Put
<1> QED
  BY <1>1, <1>2, <1>3, <1>4, <1>5, <1>6, UpdateSound DEF Sound, TypeOK

\* A value pushed back, whether there is an index below the oldest or not.
LEMMA PushbackSound ==
    ASSUME Sound, NEW x \in Values, Pushback(x)
    PROVE  Sound'
<1>1. /\ UpdateState(Length + 1, maxlength, at)
      /\ UNCHANGED <<maxlength, waste, call, got>>
  BY DEF Pushback
<1>2. /\ DOMAIN content' \subseteq 1 .. sndidx' - 1
      /\ \A i \in DOMAIN content' : content'[i] \in Values \cup {Used}
      /\ sndidx' \in Nat \ {0} /\ rcvidx' \in 1 .. sndidx'
      /\ Length' = Length + 1
  <2>1. CASE rcvidx = 1
    <3>1. PICK b \in Borders(content) : content' = Inserted(content, b, x)
      BY <2>1 DEF Pushback
    <3>2. b \in 0 .. sndidx - 1  BY BorderBound DEF Sound, TypeOK
    <3>3. sndidx' = sndidx + 1 /\ rcvidx' = rcvidx  BY <2>1 DEF Pushback
    <3>4. DOMAIN content' = {1} \cup {i + 1 : i \in {k \in DOMAIN content : k <= b}}
                                \cup {i \in DOMAIN content : i > b}
      BY <3>1 DEF Inserted
    <3>5. DOMAIN content \subseteq 1 .. sndidx - 1 /\ sndidx \in Nat \ {0}
      BY DEF Sound, TypeOK
    <3>6. DOMAIN content' \subseteq 1 .. sndidx  BY <3>2, <3>4, <3>5
    <3>7. ASSUME NEW i \in DOMAIN content'
          PROVE  content'[i] \in Values \cup {Used}
      <4>1. content'[i] = IF i = 1 THEN x
                          ELSE IF i <= b + 1 THEN content[i - 1] ELSE content[i]
        BY <3>1, <3>4 DEF Inserted
      <4>2. i = 1 \/ (i <= b + 1 /\ i - 1 \in DOMAIN content)
                  \/ (i > b + 1 /\ i \in DOMAIN content)
        BY <3>1, <3>2, <3>4, <3>5 DEF Borders
      <4> QED  BY <3>2, <3>6, <4>1, <4>2 DEF Sound, TypeOK
    <3> QED  BY <3>3, <3>6, <3>7 DEF Length, Sound, TypeOK
  <2>2. CASE rcvidx # 1
    BY <2>2 DEF Pushback, Set, Length, Sound, TypeOK
  <2> QED  BY <2>1, <2>2
<1>3. Length \in Nat /\ Bounded'  BY <1>1, <1>2, Room DEF Pushback, Bounded
<1>4. maxlength \in MaxLengths \cup {None}  BY DEF Sound, TypeOK
<1> QED
  BY <1>1, <1>2, <1>3, <1>4, UpdateSound DEF Sound, TypeOK

(* Steps that touch neither the table nor the limit, of a task which       *)
(* blocks, or stops being blocked.                                         *)
LEMMA TaskSound ==
    ASSUME Sound, NEW t \in Tasks,
           UNCHANGED <<content, sndidx, rcvidx, maxlength, state, waste, got>>,
           NEW s \in {"out", "blocked", "woken", "late"}, NEW k \in Calls,
           at' = [at EXCEPT ![t] = s], call' = [call EXCEPT ![t] = k],
           s = "out" <=> k.op = "none",
           s = "blocked" => \/ k.op = "receive" /\ Length = 0
                            \/ k.op = "send" /\ state = "full"
    PROVE  Sound'
<1>1. TypeOK'  BY DEF Sound, TypeOK
<1>2. StateMatches' /\ Bounded' /\ Length' = Length
  BY DEF Sound, StateMatches, Bounded, Length
<1>3. NoSleeper'  BY <1>2 DEF Sound, TypeOK, NoSleeper
<1> QED  BY <1>1, <1>2, <1>3 DEF Sound

\* Every action keeps the invariant.
LEMMA StepSound == ASSUME Sound, [Next]_vars PROVE Sound'
<1>1. CASE UNCHANGED vars
  BY <1>1 DEF vars, Sound, TypeOK, StateMatches, Bounded, NoSleeper, Length
<1>2. CASE Receive  BY <1>2, TakeSound DEF Receive
<1>3. CASE Reset
  <2>1. Length \in Nat /\ Length' = Length /\ maxlength' = maxlength
    BY <1>3, Room DEF Reset, Length
  <2>2. Bounded'  BY <2>1 DEF Sound, Bounded
  <2>3. maxlength \in MaxLengths \cup {None}  BY DEF Sound, TypeOK
  <2>4. /\ DOMAIN content' \subseteq 1 .. sndidx' - 1
        /\ \A i \in DOMAIN content' : content'[i] \in Values \cup {Used}
    BY <1>3 DEF Reset
  <2> QED
    BY <1>3, <2>1, <2>2, <2>3, <2>4, UpdateSound DEF Reset, Sound, TypeOK
<1>4. ASSUME NEW x \in Values, Send(x) PROVE Sound'
  BY <1>4, PutSound DEF Send
<1>5. ASSUME NEW x \in Values, Pushback(x) PROVE Sound'
  BY <1>5, PushbackSound
<1>6. ASSUME NEW n \in MaxLengths, SetMaxLength(n) PROVE Sound'
  <2>1. Length \in Nat /\ Length' = Length  BY <1>6, Room DEF SetMaxLength, Length
  <2>2. Bounded'  BY <1>6, <2>1 DEF SetMaxLength, Bounded
  <2> QED
    BY <1>6, <2>1, <2>2, UpdateSound DEF SetMaxLength, Sound, TypeOK
<1>7. ASSUME NEW w \in Wastes, SetWaste(w) PROVE Sound'
  BY <1>7, WasteAssumption
  DEF SetWaste, Sound, TypeOK, StateMatches, Bounded, NoSleeper, Length
<1>8. ASSUME NEW t \in Tasks, ResumeReceive(t) PROVE Sound'
  BY <1>8, TakeSound DEF ResumeReceive
<1>9. ASSUME NEW t \in Tasks, ResumeSend(t) PROVE Sound'
  <2>1. call[t].item \in Values  BY <1>9 DEF ResumeSend, Sound, TypeOK, Calls
  <2> QED  BY <1>9, <2>1, PutSound DEF ResumeSend
<1>10. ASSUME NEW t \in Tasks, WaitAgain(t) PROVE Sound'
  <2>1. /\ at[t] # "out" /\ call[t] \in Calls
        /\ call' = [call EXCEPT ![t] = call[t]]
    BY <1>10 DEF WaitAgain, Sound, TypeOK
  <2>2. \/ call[t].op = "receive" /\ Length = 0
        \/ call[t].op = "send" /\ state = "full"
    BY <1>10 DEF WaitAgain, StillStuck, Length, Sound, TypeOK
  <2> QED
    BY <1>10, <2>1, <2>2, TaskSound DEF WaitAgain, Sound, TypeOK
<1>11. ASSUME NEW t \in Tasks, GiveUp(t) \/ Kill(t) PROVE Sound'
  <2>1. Idle \in Calls /\ Idle.op = "none"  BY DEF Idle, Calls
  <2> QED  BY <1>11, <2>1, TaskSound DEF GiveUp, Kill, Out, Return
<1>12. ASSUME NEW t \in Tasks, Expire(t) PROVE Sound'
  <2>1. call[t] \in Calls /\ call' = [call EXCEPT ![t] = call[t]]
        /\ call[t].op # "none"
    BY <1>12 DEF Expire, Sound, TypeOK
  <2> QED  BY <1>12, <2>1, TaskSound DEF Expire
<1>13. ASSUME NEW t \in Tasks, NEW timed \in BOOLEAN, ReceiveBlocks(t, timed)
       PROVE  Sound'
  <2> DEFINE k == [op |-> "receive", item |-> None, timed |-> timed]
  <2>1. k \in Calls /\ k.op = "receive"  BY DEF Calls
  <2>2. Length = 0  BY <1>13 DEF ReceiveBlocks, Length, Sound, TypeOK
  <2>3. call' = [call EXCEPT ![t] = k]  BY <1>13 DEF ReceiveBlocks, Block
  <2> HIDE DEF k
  <2> QED  BY <1>13, <2>1, <2>2, <2>3, TaskSound DEF ReceiveBlocks, Block
<1>14. ASSUME NEW t \in Tasks, NEW timed \in BOOLEAN, NEW x \in Values,
              SendBlocks(t, x, timed)
       PROVE  Sound'
  <2> DEFINE k == [op |-> "send", item |-> x, timed |-> timed]
  <2>1. k \in Calls /\ k.op = "send"  BY DEF Calls
  <2>2. call' = [call EXCEPT ![t] = k]  BY <1>14 DEF SendBlocks, Block
  <2> HIDE DEF k
  <2> QED  BY <1>14, <2>1, <2>2, TaskSound DEF SendBlocks, Block
<1> QED
  BY <1>1, <1>2, <1>3, <1>4, <1>5, <1>6, <1>7, <1>8, <1>9, <1>10, <1>11,
     <1>12, <1>13, <1>14
  DEF Next, Resume

-----------------------------------------------------------------------------
(* Sound is an inductive invariant of the pipes.                          *)
THEOREM SoundInvariant == Spec => []Sound
<1>1. Init => Sound
  BY LimitAssumption, IdAssumption
  DEF Init, Sound, TypeOK, StateMatches, StateOf, Bounded, NoSleeper, Length,
      Idle, Calls
<1>2. Sound /\ [Next]_vars => Sound'  BY StepSound
<1> QED  BY <1>1, <1>2, PTL DEF Spec

(* The cached state on which send() and pushback() rely is never wrong,   *)
(* even after reset().                                                    *)
THEOREM StateIsRight == Spec => []StateMatches
<1>1. Sound => StateMatches  BY DEF Sound
<1> QED  BY <1>1, SoundInvariant, PTL

(* A pipe never holds more than its limit.                                *)
THEOREM LimitHolds == Spec => []Bounded
<1>1. Sound => Bounded  BY DEF Sound
<1> QED  BY <1>1, SoundInvariant, PTL

(* No wake-up is lost: a task that sleeps in a pipe cannot be served.     *)
THEOREM NobodySleeps == Spec => []NoSleeper
<1>1. Sound => NoSleeper  BY DEF Sound
<1> QED  BY <1>1, SoundInvariant, PTL

-----------------------------------------------------------------------------
(* The refinement. Without a reset() of a used pipe, the table has no     *)
(* holes, so that #content is its length.                                 *)

Dense == DOMAIN content = 1 .. sndidx - 1

V == Values \cup {Used}

\* A function over 1 .. n is a sequence of length n.
LEMMA FunctionIsSeq ==
    ASSUME NEW n \in Nat, NEW S, NEW f \in [1 .. n -> S]
    PROVE  f \in Seq(S) /\ Len(f) = n
<1>1. f \in Seq(S)  BY SeqDef
<1>2. DOMAIN f = 1 .. Len(f) /\ Len(f) \in Nat  BY <1>1, LenProperties
<1>3. DOMAIN f = 1 .. n  OBVIOUS
<1> QED  BY <1>1, <1>2, <1>3

\* The elements of a slice of a table that has no hole there.
LEMMA SliceProperties ==
    ASSUME NEW n \in Nat, NEW r \in Nat \ {0}, NEW c, NEW S,
           \A i \in 1 .. n : r + i - 1 \in DOMAIN c /\ c[r + i - 1] \in S
    PROVE  /\ Slice(c, r, n) \in Seq(S)
           /\ Len(Slice(c, r, n)) = n
           /\ \A i \in 1 .. n : Slice(c, r, n)[i] = c[r + i - 1]
<1>1. Slice(c, r, n) = [i \in 1 .. n |-> c[r + i - 1]]  BY DEF Slice
<1>2. Slice(c, r, n) \in [1 .. n -> S]  BY <1>1
<1> QED  BY <1>1, <1>2, FunctionIsSeq

\* The values of the pipe, as the sequence the refinement maps to.
LEMMA ContentsProperties ==
    ASSUME Sound, Dense
    PROVE  /\ Contents \in Seq(V) /\ Len(Contents) = Length
           /\ \A i \in 1 .. Length : Contents[i] = content[rcvidx + i - 1]
           /\ \A i \in 1 .. Length : rcvidx + i - 1 \in DOMAIN content
<1>1. /\ Length \in Nat /\ rcvidx \in Nat \ {0}
      /\ \A i \in 1 .. Length : /\ rcvidx + i - 1 \in DOMAIN content
                                /\ content[rcvidx + i - 1] \in V
  BY DEF Sound, TypeOK, Dense, Length, V
<1> QED  BY <1>1, SliceProperties DEF Contents

\* The same after the step.
LEMMA NextContentsProperties ==
    ASSUME Sound', Dense'
    PROVE  /\ Contents' \in Seq(V) /\ Len(Contents') = Length'
           /\ \A i \in 1 .. Length' : Contents'[i] = content'[rcvidx' + i - 1]
<1> DEFINE c == content'
           r == rcvidx'
           s == sndidx'
           n == Length'
<1>1. /\ s \in Nat \ {0} /\ r \in 1 .. s /\ DOMAIN c = 1 .. s - 1
      /\ \A i \in DOMAIN c : c[i] \in V
      /\ n = s - r
  BY DEF Sound, TypeOK, Dense, Length, V
<1>2. Contents' = Slice(c, r, n)  BY DEF Contents
<1> HIDE DEF c, r, s, n
<1>3. n \in Nat /\ r \in Nat \ {0}  BY <1>1
<1>4. \A i \in 1 .. n : r + i - 1 \in DOMAIN c /\ c[r + i - 1] \in V  BY <1>1
<1>5. /\ Slice(c, r, n) \in Seq(V) /\ Len(Slice(c, r, n)) = n
      /\ \A i \in 1 .. n : Slice(c, r, n)[i] = c[r + i - 1]
  BY <1>3, <1>4, SliceProperties
<1> QED  BY <1>2, <1>5 DEF c, r, n

(* The values of the table after recompact: those from index r on.        *)
LEMMA RecompactKeeps ==
    ASSUME Sound, NEW r \in 1 .. sndidx, NEW c, Recompact(c, r),
           DOMAIN c = 1 .. sndidx - 1
    PROVE  /\ DOMAIN content' = 1 .. sndidx' - 1
           /\ sndidx' \in Nat \ {0} /\ rcvidx' \in Nat \ {0}
           /\ sndidx' - rcvidx' = sndidx - r
           /\ \A i \in 1 .. sndidx - r : content'[rcvidx' + i - 1] = c[r + i - 1]
<1>0. sndidx \in Nat \ {0}  BY DEF Sound, TypeOK
<1>1. CASE ~Recompactable(r)  BY <1>0, <1>1 DEF Recompact
<1>2. CASE Recompactable(r)
  <2>1. rcvidx' = 1 /\ sndidx' = sndidx - r + 1
    BY <1>2 DEF Recompact
  <2>2. \A b \in Borders(c) : b = sndidx - 1
    BY <1>0 DEF Borders
  <2>3. content' = Moved(c, r, sndidx - r)
    BY <1>0, <1>2, <2>2 DEF Recompact
  <2>4. content' = [i \in 1 .. sndidx - r |-> c[i + r - 1]]
    <3>1. {j \in 1 .. sndidx - r : j + r - 1 \in DOMAIN c} = 1 .. sndidx - r
      BY <1>0
    <3> QED  BY <2>3, <3>1 DEF Moved
  <2> QED  BY <1>0, <2>1, <2>4
<1> QED  BY <1>1, <1>2

\* Taking a value is a receive of Fifo.
LEMMA TakeRefines ==
    ASSUME Sound, Dense, NEW a, Take(a), Sound'
    PROVE  Dense' /\ F!Receive
<1> DEFINE c == Set(content, rcvidx, Used)
<1>1. rcvidx + 1 \in 1 .. sndidx /\ Length \in Nat \ {0} /\ rcvidx \in Nat \ {0}
  BY DEF Take, Sound, TypeOK, Length
<1>2. DOMAIN c = 1 .. sndidx - 1
      /\ \A i \in 1 .. sndidx - 1 : i # rcvidx => c[i] = content[i]
  BY <1>1 DEF Set, Dense, Sound, TypeOK
<1>3. Recompact(c, rcvidx + 1)  BY DEF Take
<1>4. /\ Dense' /\ Length' = Length - 1
      /\ \A i \in 1 .. Length - 1 : content'[rcvidx' + i - 1] = c[rcvidx + i]
  <2> DEFINE r == rcvidx + 1
  <2> HIDE DEF c
  <2>1. /\ DOMAIN content' = 1 .. sndidx' - 1
        /\ sndidx' \in Nat \ {0} /\ rcvidx' \in Nat \ {0}
        /\ sndidx' - rcvidx' = sndidx - r
        /\ \A i \in 1 .. sndidx - r : content'[rcvidx' + i - 1] = c[r + i - 1]
    <3>1. r \in 1 .. sndidx /\ Recompact(c, r)  BY <1>1, <1>3
    <3>2. DOMAIN c = 1 .. sndidx - 1  BY <1>2
    <3> HIDE DEF r
    <3> QED  BY <3>1, <3>2, RecompactKeeps
  <2>2. sndidx \in Nat /\ sndidx - r = Length - 1  BY <1>1 DEF Length, Sound, TypeOK
  <2>3. \A i \in 1 .. Length - 1 : r + i - 1 = rcvidx + i  BY <1>1, <2>2
  <2> QED  BY <2>1, <2>2, <2>3 DEF Dense, Length
<1>5. \A i \in 1 .. Length - 1 : content'[rcvidx' + i - 1] = content[rcvidx + i]
  BY <1>1, <1>2, <1>4 DEF Length, Sound, TypeOK
<1>6. /\ Contents' \in Seq(V) /\ Len(Contents') = Length'
      /\ \A i \in 1 .. Length' : Contents'[i] = content'[rcvidx' + i - 1]
  BY <1>4, NextContentsProperties
<1>7. Contents # <<>> /\ Head(Contents) = content[rcvidx]
  BY <1>1, ContentsProperties
<1>8. Contents' = Tail(Contents)
  <2>1. /\ Tail(Contents) \in Seq(V) /\ Len(Tail(Contents)) = Length - 1
        /\ \A i \in 1 .. Length - 1 : Tail(Contents)[i] = Contents[i + 1]
    BY <1>1, <1>7, ContentsProperties, HeadTailProperties
  <2>2. \A i \in 1 .. Length - 1 : Contents[i + 1] = content[rcvidx + i]
    BY <1>1, ContentsProperties DEF Sound, TypeOK
  <2> QED  BY <1>1, <1>4, <1>5, <1>6, <2>1, <2>2, SeqEqual
<1>9. got' = content[rcvidx] /\ maxlength' = maxlength
  BY <1>1 DEF Take, Dense, Sound, TypeOK
<1> QED  BY <1>4, <1>7, <1>8, <1>9 DEF F!Receive

\* Adding a value is a send of Fifo.
LEMMA PutRefines ==
    ASSUME Sound, Dense, NEW x \in Values, NEW a, Put(x, a), Sound'
    PROVE  Dense' /\ F!Send(x)
<1>1. /\ content' = Set(content, sndidx, x) /\ sndidx' = sndidx + 1
      /\ UNCHANGED <<rcvidx, maxlength, got>>
  BY DEF Put
<1>2. /\ Length \in Nat /\ Length' = Length + 1
      /\ rcvidx \in Nat \ {0} /\ rcvidx + Length = sndidx
  BY <1>1 DEF Length, Sound, TypeOK
<1>3. /\ DOMAIN content' = 1 .. sndidx /\ content'[sndidx] = x
      /\ \A i \in 1 .. sndidx - 1 : content'[i] = content[i]
  BY <1>1, <1>2 DEF Set, Dense, Sound, TypeOK
<1>4. Dense'  BY <1>1, <1>3 DEF Dense, Sound, TypeOK
<1>5. /\ Contents' \in Seq(V) /\ Len(Contents') = Length + 1
      /\ \A i \in 1 .. Length + 1 : Contents'[i] = content'[rcvidx + i - 1]
  BY <1>1, <1>2, <1>4, NextContentsProperties
<1>6. Contents' = Append(Contents, x)
  <2>1. /\ Append(Contents, x) \in Seq(V) /\ Len(Append(Contents, x)) = Length + 1
        /\ \A i \in 1 .. Length : Append(Contents, x)[i] = Contents[i]
        /\ Append(Contents, x)[Length + 1] = x
    BY <1>2, ContentsProperties, AppendProperties DEF V
  <2>2. \A i \in 1 .. Length : Contents'[i] = Contents[i]
    BY <1>2, <1>3, <1>5, ContentsProperties
  <2>3. Contents'[Length + 1] = x  BY <1>2, <1>3, <1>5
  <2> QED  BY <1>2, <1>5, <2>1, <2>2, <2>3, SeqEqual
<1>7. F!Room
  BY <1>2, Room, ContentsProperties, LimitAssumption
  DEF Put, F!Room, Sound, TypeOK
<1> QED  BY <1>1, <1>4, <1>6, <1>7 DEF F!Send

\* Pushing back is a push-back of Fifo.
LEMMA PushbackRefines ==
    ASSUME Sound, Dense, NEW x \in Values, Pushback(x), Sound'
    PROVE  Dense' /\ F!Pushback(x)
<1>1. UNCHANGED <<maxlength, got>>  BY DEF Pushback
<1>2. Length \in Nat /\ rcvidx \in Nat \ {0} /\ rcvidx + Length = sndidx
  BY DEF Length, Sound, TypeOK
<1>3. /\ Dense' /\ Length' = Length + 1 /\ rcvidx' \in Nat \ {0}
      /\ content'[rcvidx'] = x
      /\ \A i \in 1 .. Length : content'[rcvidx' + i] = content[rcvidx + i - 1]
  <2>1. CASE rcvidx = 1
    <3>1. PICK b \in Borders(content) : content' = Inserted(content, b, x)
      BY <2>1 DEF Pushback
    <3>2. b = sndidx - 1  BY <1>2 DEF Borders, Dense
    <3>3. sndidx' = sndidx + 1 /\ rcvidx' = 1  BY <2>1 DEF Pushback
    <3>4. content' = [j \in 1 .. sndidx |-> IF j = 1 THEN x ELSE content[j - 1]]
      <4>1. {i + 1 : i \in {k \in 1 .. sndidx - 1 : k <= sndidx - 1}} = 2 .. sndidx
        <5>1. \A j \in 2 .. sndidx : j = (j - 1) + 1 /\ j - 1 \in 1 .. sndidx - 1
          BY <1>2
        <5> QED  BY <1>2, <5>1
      <4>2. {1} \cup (2 .. sndidx) \cup {i \in 1 .. sndidx - 1 : i > sndidx - 1}
               = 1 .. sndidx
        BY <1>2
      <4>3. \A j \in 1 .. sndidx : j <= (sndidx - 1) + 1  BY <1>2
      <4> QED  BY <3>1, <3>2, <4>1, <4>2, <4>3 DEF Inserted, Dense
    <3> QED  BY <1>2, <2>1, <3>3, <3>4 DEF Dense, Length
  <2>2. CASE rcvidx # 1
    BY <1>2, <2>2, SMTT(40) DEF Pushback, Set, Dense, Length, Sound, TypeOK
  <2> QED  BY <2>1, <2>2
<1>4. /\ Contents' \in Seq(V) /\ Len(Contents') = Length + 1
      /\ \A i \in 1 .. Length + 1 : Contents'[i] = content'[rcvidx' + i - 1]
  BY <1>3, NextContentsProperties
<1>5. Contents' = <<x>> \o Contents
  <2>1. /\ <<x>> \o Contents \in Seq(V) /\ Len(<<x>> \o Contents) = Length + 1
        /\ (<<x>> \o Contents)[1] = x
        /\ \A i \in 1 .. Length : (<<x>> \o Contents)[i + 1] = Contents[i]
    BY <1>2, ContentsProperties DEF V
  <2>2. Contents'[1] = x  BY <1>2, <1>3, <1>4
  <2>3. ASSUME NEW i \in 1 .. Length PROVE Contents'[i + 1] = Contents[i]
    <3>1. i + 1 \in 1 .. Length + 1 /\ rcvidx' + (i + 1) - 1 = rcvidx' + i
      BY <1>2, <1>3
    <3>2. Contents'[i + 1] = content'[rcvidx' + i]  BY <1>4, <3>1
    <3> QED  BY <1>3, <3>2, ContentsProperties
  <2>4. \A i \in 1 .. Length + 1 : Contents'[i] = (<<x>> \o Contents)[i]
    <3>1. \A i \in 1 .. Length + 1 : i = 1 \/ (i - 1 \in 1 .. Length /\ i = (i - 1) + 1)
      BY <1>2
    <3> QED  BY <2>1, <2>2, <2>3, <3>1
  <2> QED  BY <1>2, <1>4, <2>1, <2>4, SeqEqual
<1>6. F!Room
  BY <1>2, Room, ContentsProperties, LimitAssumption
  DEF Pushback, F!Room, Sound, TypeOK
<1> QED  BY <1>1, <1>3, <1>5, <1>6 DEF F!Pushback

(* Every step of a pipe is a step of a queue, or none.                    *)
LEMMA StepRefines ==
    ASSUME Sound, Dense, [Next]_vars, Resets # "any"
    PROVE  Dense' /\ [F!Next]_(F!vars)
<1>0. Sound'  BY StepSound
<1> DEFINE Same == UNCHANGED <<content, sndidx, rcvidx, maxlength, got>>
<1>1. Same => Dense' /\ UNCHANGED F!vars
  BY DEF Dense, F!vars, Contents, Length
<1>2. CASE UNCHANGED vars  BY <1>1, <1>2 DEF vars
<1>3. CASE Receive  BY <1>0, <1>3, TakeRefines DEF Receive, F!Next
<1>4. CASE Reset
  <2>1. content = content'
    BY <1>4 DEF Reset, Dense
  <2> QED  BY <1>1, <1>4, <2>1 DEF Reset
<1>5. ASSUME NEW x \in Values, Send(x) PROVE Dense' /\ F!Next
  BY <1>0, <1>5, PutRefines DEF Send, F!Next
<1>6. ASSUME NEW x \in Values, Pushback(x) PROVE Dense' /\ F!Next
  BY <1>0, <1>6, PushbackRefines DEF F!Next
<1>7. ASSUME NEW n \in MaxLengths, SetMaxLength(n) PROVE Dense' /\ F!Next
  <2>1. UNCHANGED <<content, sndidx, rcvidx, got>> /\ maxlength' = n /\ Length <= n
    BY <1>7 DEF SetMaxLength
  <2>2. Dense' /\ Contents' = Contents  BY <2>1 DEF Dense, Contents, Length
  <2>3. n \in Nat  BY LimitAssumption
  <2> QED  BY <2>1, <2>2, <2>3, ContentsProperties DEF F!Next, F!Resize
<1>8. ASSUME NEW w \in Wastes, SetWaste(w) PROVE Same
  BY <1>8 DEF SetWaste
<1>9. ASSUME NEW t \in Tasks, ResumeReceive(t) PROVE Dense' /\ F!Next
  BY <1>0, <1>9, TakeRefines DEF ResumeReceive, F!Next
<1>10. ASSUME NEW t \in Tasks, ResumeSend(t) PROVE Dense' /\ F!Next
  <2>1. call[t].item \in Values  BY <1>10 DEF ResumeSend, Sound, TypeOK, Calls
  <2> QED  BY <1>0, <1>10, <2>1, PutRefines DEF ResumeSend, F!Next
<1>11. ASSUME NEW t \in Tasks,
              WaitAgain(t) \/ GiveUp(t) \/ Expire(t) \/ Kill(t)
       PROVE  Same
  BY <1>11 DEF WaitAgain, GiveUp, Expire, Kill
<1>12. ASSUME NEW t \in Tasks, NEW timed \in BOOLEAN,
              \/ ReceiveBlocks(t, timed)
              \/ \E x \in Values : SendBlocks(t, x, timed)
       PROVE  Same
  BY <1>12 DEF ReceiveBlocks, SendBlocks, Block
<1> HIDE DEF Same
<1> QED
  BY <1>1, <1>2, <1>3, <1>4, <1>5, <1>6, <1>7, <1>8, <1>9, <1>10, <1>11, <1>12
  DEF Next, Resume

(* A pipe whose reset() is called only while it is fresh is a bounded     *)
(* queue: everything written is read back, once and in order.             *)
THEOREM PipeIsFifo ==
    ASSUME Resets # "any"
    PROVE  Spec => FifoSpec
<1>1. Init => Dense /\ F!Init
  <2> SUFFICES ASSUME Init PROVE Dense /\ F!Init
    OBVIOUS
  <2>1. Length = 0 /\ Dense  BY DEF Init, Length, Dense
  <2>2. Contents = <<>>  BY <2>1 DEF Contents, Slice
  <2> QED  BY <2>1, <2>2, LimitAssumption DEF Init, F!Init
<1>2. Sound /\ Dense /\ [Next]_vars => Dense' /\ [F!Next]_(F!vars)
  BY StepRefines
<1> QED  BY <1>1, <1>2, SoundInvariant, PTL DEF Spec, FifoSpec, F!Spec
=============================================================================
