--------------------------------- MODULE Rpc ---------------------------------
(***************************************************************************)
(* Remote calls (rpc/common.lua, rpc/sched.lua, rpc/nosched.lua): the two  *)
(* peers of a connection, the tasks that call, the task that reads each    *)
(* session's socket and the tasks that execute what the peer asks.  A      *)
(* frame is two pieces, a header and a payload, each sent by a call of     *)
(* skt:send; what calls and answers hold, the status of an answer          *)
(* included, is left out.  A frame is torn when a task is killed, or its   *)
(* send refused, in the middle of it, or when another frame is begun       *)
(* inside it: the peer's reader is then out of step, and takes whatever    *)
(* bytes come next for headers and payloads.                               *)
(***************************************************************************)
EXTENDS Integers, Sequences, FiniteSetsExt

CONSTANTS p, q,        \* the peers
          PCallers, QCallers, \* the tasks of each that make calls
          PlainPeers,  \* the peers that may run without a scheduler (rpc.nosched)
          SeqMod,      \* 256 in the code
          Instances,   \* what a behaviour uses, a set of [capacity, calls, kills,
                       \* garbled]: the pieces the connection holds in each
                       \* direction, and the bounds on the calls, on the kills of
                       \* callers and on what the readers take out of step
          Corners      \* the corner cases the run includes, a subset of
                       \* {"burst", "seqnum in use"}

Peers == {p, q}
Other(x) == IF x = p THEN q ELSE p
Callers == PCallers \cup QCallers
Side(c) == IF c \in PCallers THEN p ELSE q

ASSUME RpcConstants ==
  /\ p # q /\ PCallers \cap QCallers = {} /\ PlainPeers \subseteq Peers
  /\ SeqMod \in Nat \ {0} /\ \A i \in Instances : i.capacity \in Nat \ {0}

VARIABLES plain,      \* the peers without a scheduler
          seqnum,     \* the session's field
          closed,     \* the peers whose socket is closed on their side
          chan,       \* the pieces on their way to each peer
          loop,       \* the reader of each session: [pc, head]; "adrift" out of step
          stale,      \* the peers whose socket has the watch of a killed sender
          call,       \* the callers: [pc, seq, id, left, got]
          jobs,       \* the executions: [peer, seq, id, left]; left = Run at first
          asked,      \* number of calls so far; it names them
          kills, garbled,
          returned,   \* history: the answer that each call returned, 0 for a failure
          use,        \* the instance
          harm        \* history: a subset of {"torn frame", "lost answer"}, the
                      \* second for one that the socket refused

vars == <<use, plain, seqnum, closed, chan, loop, stale, call, jobs, asked, kills, garbled,
          returned, harm>>

Idle == [pc |-> "idle", seq |-> 0, id |-> 0, left |-> <<>>, got |-> [seq |-> 0, id |-> 0]]
Error == [seq |-> -1, id |-> 0] \* signal(session, "error")
Run == <<>> \* the function called has not returned yet

\* type 0 is a call, 1 a response
Frame(type, seq, id) ==
  <<[part |-> "header", type |-> type, seq |-> seq, id |-> id],
    [part |-> "payload", type |-> type, seq |-> seq, id |-> id]>>

Garbage == -1 \* the call of a message that nobody sent
Scrap == [part |-> "scrap", type |-> 2, seq |-> -1, id |-> Garbage] \* a frame is torn here

Init ==
  /\ use \in Instances /\ plain \in SUBSET PlainPeers
  /\ seqnum = [x \in Peers |-> 0]
  /\ closed = {}
  /\ chan = [x \in Peers |-> <<>>]
  /\ loop = [x \in Peers |-> [pc |-> "header", head |-> <<>>]]
  /\ call = [c \in Callers |-> Idle]
  /\ jobs = {} /\ asked = 0 /\ kills = 0 /\ stale = {}
  /\ returned = <<>> /\ harm = {} /\ garbled = 0

-----------------------------------------------------------------------------
(* skt:send *)

\* What the tasks of x that wait for the socket, in wait_writable, have to send.
Unsent(x) == {call[c].left : c \in {d \in Callers : Side(d) = x /\ call[d].pc = "sending"}}
             \cup {j.left : j \in {k \in jobs : k.peer = x /\ k.left # Run}}
Sending(x) == Unsent(x) # {}
Halfway(x) == \E left \in Unsent(x) : Len(left) = 1

\* The socket of x has a watch to write: add_watch refuses another one.
Registered(x) == Sending(x) \/ x \in stale

\* How many of n pieces the socket of x takes now; what goes to a closed peer is lost.
Taken(x, n) ==
  LET room == use.capacity - Len(chan[Other(x)])
  IN IF Other(x) \in closed THEN n ELSE IF room < 0 THEN 0 ELSE Min({n, room})

Put(x, pieces) ==
  chan' = IF Other(x) \in closed THEN chan ELSE [chan EXCEPT ![Other(x)] = @ \o pieces]

\* Is a frame torn?  If it must be, its header has gone; else some bytes may have.
Tears(may, must) == IF closed # {} \/ ~may THEN {FALSE} ELSE IF must THEN {TRUE} ELSE BOOLEAN

Refused(x, n) == n < 2 /\ Registered(x)

\* The two sends of frame f, of which n pieces go: what goes while another task
\* waits to send the rest of a frame goes inside that frame.
Begin(x, f, n) ==
  \E torn \in Tears((n > 0 /\ Sending(x)) \/ Refused(x, n),
                   (n > 0 /\ Halfway(x)) \/ (n = 1 /\ Refused(x, n))) :
    LET sent == SubSeq(f, 1, n)
    IN /\ Put(x, IF ~torn THEN sent ELSE IF Sending(x) THEN <<Scrap>> \o sent ELSE Append(sent, Scrap))
       /\ harm' = harm \cup (IF torn THEN {"torn frame"} ELSE {})
                       \cup (IF Refused(x, n) /\ Head(f).type = 1 THEN {"lost answer"} ELSE {})

\* The send of x may fail: its socket is closed, or the peer's is and it is known.
SendFails(x) == x \in closed \/ Other(x) \in closed

-----------------------------------------------------------------------------
(* session:call *)

\* Corner "seqnum in use": the number of the call is that of an older one that
\* is on its way, or whose answer is.
FreeSeqnum(x) ==
  LET y == Other(x)
      used(piece, type) == piece.type = type /\ piece.seq = seqnum[x]
      inUse == \/ \E c \in Callers : Side(c) = x /\ call[c].pc # "idle" /\ call[c].seq = seqnum[x]
               \/ \E j \in jobs : j.peer = y /\ j.seq = seqnum[x]
               \/ \E i \in DOMAIN chan[y] : used(chan[y][i], 0)
               \/ \E i \in DOMAIN chan[x] : used(chan[x][i], 1)
               \/ loop[y].pc = "payload" /\ used(loop[y].head, 0)
               \/ loop[x].pc = "payload" /\ used(loop[x].head, 1)
  IN "seqnum in use" \in Corners \/ ~inUse

Call(c) ==
  LET x == Side(c)
      f == Frame(0, seqnum[x], asked + 1)
      n == Taken(x, 2)
  IN /\ call[c].pc = "idle" /\ x \notin plain /\ asked < use.calls /\ FreeSeqnum(x)
     /\ asked' = asked + 1
     /\ seqnum' = [seqnum EXCEPT ![x] = (@ + 1) % SeqMod]
     /\ returned' = Append(returned, 0)
     /\ \/ SendFails(x) /\ UNCHANGED <<chan, call, harm>>
        \/ /\ x \notin closed /\ Begin(x, f, n)
           /\ call' = IF Refused(x, n) THEN call
                      ELSE [call EXCEPT ![c] =
                              [Idle EXCEPT !.pc = IF n = 2 THEN "waiting" ELSE "sending",
                                 !.seq = seqnum[x], !.id = asked + 1, !.left = SubSeq(f, n + 1, 2)]]
     /\ UNCHANGED <<use, plain, closed, loop, stale, jobs, kills, garbled>>

ContinueCall(c) ==
  LET x == Side(c)
      n == Taken(x, Len(call[c].left))
  IN /\ call[c].pc = "sending"
     /\ \/ /\ SendFails(x)
           /\ call' = [call EXCEPT ![c] = Idle] /\ UNCHANGED chan
        \/ /\ x \notin closed /\ n > 0
           /\ Put(x, SubSeq(call[c].left, 1, n))
           /\ call' = [call EXCEPT ![c].left = SubSeq(@, n + 1, Len(@)),
                                   ![c].pc = IF n = Len(call[c].left) THEN "waiting" ELSE @]
     /\ UNCHANGED <<use, plain, seqnum, closed, loop, stale, jobs, asked, kills, returned, harm, garbled>>

\* Mutant: any answer will do.
Answers_Any(got, seq) == got # Error

Answers(got, seq) == got.seq = seq

\* The caller is resumed after its wait: it returns, or waits again.
Resume(c) ==
  LET k == call[c]
  IN /\ k.pc = "woken"
     /\ call' = [call EXCEPT ![c] = IF k.got = Error \/ Answers(k.got, k.seq) THEN Idle
                                    ELSE [k EXCEPT !.pc = "waiting", !.got = Idle.got]]
     /\ returned' = IF Answers(k.got, k.seq) THEN [returned EXCEPT ![k.id] = k.got.id]
                    ELSE returned
     /\ UNCHANGED <<use, plain, seqnum, closed, chan, loop, stale, jobs, asked, kills, harm, garbled>>

\* sched.kill, of a caller wherever it is blocked: in its sends, it leaves its watch
\* and what it had sent of its frame.
Kill(c) ==
  LET x == Side(c)
      sending == call[c].pc = "sending"
  IN /\ call[c].pc # "idle" /\ kills < use.kills
     /\ call' = [call EXCEPT ![c] = Idle] /\ kills' = kills + 1
     /\ stale' = IF sending THEN stale \cup {x} ELSE stale
     /\ \E torn \in Tears(sending, Len(call[c].left) = 1) :
          /\ Put(x, IF torn THEN <<Scrap>> ELSE <<>>)
          /\ harm' = IF torn THEN harm \cup {"torn frame"} ELSE harm
     /\ UNCHANGED <<use, plain, seqnum, closed, loop, jobs, asked, returned, garbled>>

-----------------------------------------------------------------------------
(* loop and execute *)

\* sched.signal(session, ...): the callers that wait are woken.
Wake(x, got) ==
  [c \in Callers |-> IF Side(c) = x /\ call[c].pc = "waiting"
                     THEN [call[c] EXCEPT !.pc = "woken", !.got = got] ELSE call[c]]

\* Corner "burst": the loop signals again before the callers it woke for nothing
\* wait again.
MaySignal(x) ==
  \/ "burst" \in Corners
  \/ \A c \in Callers : Side(c) = x /\ call[c].pc = "woken"
                          => call[c].got = Error \/ Answers(call[c].got, call[c].seq)

\* Without a scheduler, the loop executes the calls itself.
Free(x) == x \in plain => \A j \in jobs : j.peer # x

\* Out of step, the reader takes any bytes for headers and payloads: for less or
\* more than a message, for one which makes deserialize fail and ends the reader's
\* task, or for a message of one of these types with one of these numbers.
Garbled(x, types, seqs) ==
  LET goesOn(pcs) == \E pc \in pcs : loop' = [loop EXCEPT ![x] = [pc |-> pc, head |-> <<>>]]
  IN /\ garbled < use.garbled /\ garbled' = garbled + 1
     /\ \/ goesOn({"header", "adrift", "dead"}) /\ UNCHANGED <<call, jobs>>
        \/ \E s \in seqs : /\ 0 \in types /\ goesOn({"header", "adrift"}) /\ UNCHANGED call
                          /\ jobs' = jobs \cup {[peer |-> x, seq |-> s, id |-> Garbage, left |-> Run]}
        \/ \E s \in seqs : /\ 1 \in types /\ goesOn({"header", "adrift"}) /\ UNCHANGED jobs
                          /\ MaySignal(x) /\ call' = Wake(x, [seq |-> s, id |-> Garbage])

ReadHeader(x) ==
  /\ loop[x].pc \in {"header", "adrift"} /\ x \notin closed /\ chan[x] # <<>> /\ Free(x)
  /\ chan' = [chan EXCEPT ![x] = Tail(@)]
  /\ IF loop[x].pc = "header" /\ Head(chan[x]).part = "header"
     THEN /\ loop' = [loop EXCEPT ![x] = [pc |-> "payload", head |-> Head(chan[x])]]
          /\ UNCHANGED <<call, jobs, garbled>>
     ELSE Garbled(x, {0, 1}, 0 .. SeqMod - 1)
  /\ UNCHANGED <<use, plain, seqnum, closed, stale, asked, kills, returned, harm>>

ReadPayload(x) ==
  LET h == loop[x].head
      whole == Head(chan[x]) = [h EXCEPT !.part = "payload"]
      next == [loop EXCEPT ![x] = [pc |-> "header", head |-> <<>>]]
  IN /\ loop[x].pc = "payload" /\ x \notin closed /\ chan[x] # <<>>
     /\ chan' = [chan EXCEPT ![x] = Tail(@)]
     /\ \/ /\ UNCHANGED garbled /\ whole /\ h.type = 0 /\ loop' = next
           /\ jobs' = jobs \cup {[peer |-> x, seq |-> h.seq, id |-> h.id, left |-> Run]}
           /\ UNCHANGED call
        \/ /\ UNCHANGED garbled /\ whole /\ h.type = 1 /\ MaySignal(x) /\ loop' = next
           /\ call' = Wake(x, [seq |-> h.seq, id |-> h.id])
           /\ UNCHANGED jobs
        \/ ~whole /\ Garbled(x, {h.type}, {h.seq})
     /\ UNCHANGED <<use, plain, seqnum, closed, stale, asked, kills, returned, harm>>

\* Mutant: the end of the loop is not signalled.
WakeAtEnd_Silent(x) == call

WakeAtEnd(x) == Wake(x, Error)

\* receive fails, possibly before the last pieces that were sent.
EndLoop(x) ==
  /\ loop[x].pc \in {"header", "payload", "adrift"} /\ SendFails(x) /\ Free(x) /\ MaySignal(x)
  /\ loop' = [loop EXCEPT ![x] = [pc |-> "ended", head |-> <<>>]]
  /\ closed' = closed \cup {x}
  /\ chan' = [chan EXCEPT ![x] = <<>>]
  /\ call' = WakeAtEnd(x)
  /\ UNCHANGED <<use, plain, seqnum, stale, jobs, asked, kills, returned, harm, garbled>>

\* The function has returned: execute sends the answer, whether or not it can.
Execute(j) ==
  LET x == j.peer
      f == Frame(1, j.seq, j.id)
      n == Taken(x, 2)
  IN /\ j.left = Run
     /\ \/ SendFails(x) /\ jobs' = jobs \ {j} /\ UNCHANGED <<chan, harm>>
        \/ /\ x \notin closed /\ Begin(x, f, n)
           /\ jobs' = (jobs \ {j}) \cup (IF n = 2 \/ Refused(x, n) THEN {}
                                        ELSE {[j EXCEPT !.left = SubSeq(f, n + 1, 2)]})
     /\ UNCHANGED <<use, plain, seqnum, closed, loop, stale, call, asked, kills, returned, garbled>>

ContinueExecute(j) ==
  LET x == j.peer
      n == Taken(x, Len(j.left))
  IN /\ j.left # Run
     /\ \/ SendFails(x) /\ jobs' = jobs \ {j} /\ UNCHANGED chan
        \/ /\ x \notin closed /\ n > 0
           /\ Put(x, SubSeq(j.left, 1, n))
           /\ jobs' = (jobs \ {j}) \cup
                      {[j EXCEPT !.left = SubSeq(j.left, n + 1, Len(j.left))] : i \in n + 1 .. Len(j.left)}
     /\ UNCHANGED <<use, plain, seqnum, closed, loop, stale, call, asked, kills, returned, harm, garbled>>

\* session:close(), or the end of a process; by one side, then the other notices.
Close(x) ==
  /\ closed = {} /\ closed' = {x}
  /\ UNCHANGED <<use, plain, seqnum, chan, loop, stale, call, jobs, asked, kills, returned, harm, garbled>>

-----------------------------------------------------------------------------
Loop(x) == ReadHeader(x) \/ ReadPayload(x) \/ EndLoop(x)
Serve(x) == \E j \in jobs : j.peer = x /\ (Execute(j) \/ ContinueExecute(j))

Next ==
  \/ \E c \in Callers : Call(c) \/ ContinueCall(c) \/ Resume(c) \/ Kill(c)
  \/ \E x \in Peers : Loop(x) \/ Serve(x) \/ Close(x)

\* Ready tasks run, the loops read what arrives, and the functions called
\* return; nobody is forced to call, kill or close.
Spec ==
  /\ Init /\ [][Next]_vars
  /\ \A c \in Callers : WF_vars(ContinueCall(c) \/ Resume(c))
  /\ \A x \in Peers : WF_vars(Loop(x)) /\ WF_vars(Serve(x))

-----------------------------------------------------------------------------
(* Properties *)

\* However many calls are pending on both sides, in whatever order functions
\* return, whoever is killed and however a connection ends, what a call returns
\* is the answer to it, as long as no frame is torn: seqnum finds it
\* (sched.lua:17-18).
AnswersOwn == "torn frame" \notin harm => \A i \in 1 .. asked : returned[i] \in {0, i}

\* Every call returns, with its answer or with the error of the connection, or a
\* frame is torn or an answer refused by the socket: no response and no end of the
\* connection is signalled while the caller is not in its wait, and no call
\* begins after the end (sched.lua:33-57).
CallsReturn == \A c \in Callers : call[c].pc # "idle" ~> call[c].pc = "idle" \/ harm # {}
=============================================================================
