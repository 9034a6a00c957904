------------------------------ MODULE LogStore ------------------------------
(***************************************************************************)
(* The log store: a ring in RAM (c/log/log_store.c), two files of bounded  *)
(* size (c/log/log_storeflash.c), and the policies that decide what goes   *)
(* where (log/tools.lua).  A log is a number and a size; its bytes in the  *)
(* ring and in the files are its number, that many times.                  *)
(***************************************************************************)
EXTENDS Integers, Sequences, SequencesExt, FiniteSetsExt

CONSTANTS Policies,  \* a subset of {"sole", "buffered_all", "context"}
          buf_size,  \* the size of the ring
          file_size_limit,
          Sizes,     \* the sizes of the logs
          MaxLogs, MaxCrashes, \* bounds on the logs and on the restarts
          Corners    \* corner cases the run includes, a subset of
                     \* {"exact fit", "logs in step"}

ASSUME LogConstants ==
  /\ buf_size \in Nat \ {0} /\ buf_size <= 2048 /\ file_size_limit \in Nat
  /\ Sizes \subseteq Nat \ {0}

VARIABLES policy,
          buf,            \* the ring; its cell buf_size is the byte behind it
          current, first, \* where to write, and the oldest log
          file1, file2,   \* the files
          flash,          \* logflashstore under way: [pc, data], pc "idle" if none
          pending,        \* the logramstore calls under way, the innermost last
          logs,           \* number of logs so far
          crashes,
          kept,           \* history: for each log put in the ring since it was
                          \* emptied, what it and those before took, headers included
          flashed,        \* history: the bytes the files were given
          accepted        \* history: the bytes of the logs put in the ring since init

vars == <<policy, buf, current, first, file1, file2, flash, pending, logs, crashes,
          kept, flashed, accepted>>
ring == <<buf, current, first>>
files == <<file1, file2>>

Header == 2 \* sizeof(current): what the size of a log takes

BytesOf(l) == [i \in 1 .. l.size |-> l.id]

File(bytes) == [exists |-> TRUE, bytes |-> bytes]
Missing == [exists |-> FALSE, bytes |-> <<>>]

-----------------------------------------------------------------------------
(* The ring.  r stands for the three variables: [buf, current, first]. *)

Ring == [buf |-> buf, current |-> current, first |-> first]
Cell(r, i) == IF i \in DOMAIN r.buf THEN r.buf[i] ELSE 0

\* The size found at an offset, and the offset of the content.
ReadNextSize(r, offset) ==
  [size |-> Cell(r, offset) + 256 * Cell(r, (offset + 1) % buf_size),
   offset |-> (offset + 2) % buf_size]

\* The content of the log at an offset, in one or two parts, and where it ends.
NextCopy(r, offset) ==
  LET n == ReadNextSize(r, offset)
      two == n.offset + n.size > buf_size - 1
      end == IF two THEN n.size - (buf_size - n.offset) ELSE n.offset + n.size
  IN [end |-> end,
      bytes |-> [i \in 1 .. n.size |->
                   LET at == n.offset + i - 1
                   IN Cell(r, IF at >= buf_size THEN at - buf_size ELSE at)]]

\* One turn of the loop of logramget: s is what has been read, and an offset.
ReadOne(r, s) ==
  LET c == NextCopy(r, s.offset)
  IN IF s.offset = r.current \/ s.offset > buf_size THEN s
     ELSE [offset |-> c.end, bytes |-> s.bytes \o c.bytes]

\* The loop after n turns; buf_size bounds a reading that would miss the write index.
Reading(r) ==
  LET read[n \in Nat] ==
        IF n = 0 THEN [offset |-> r.first, bytes |-> <<>>] ELSE ReadOne(r, read[n - 1])
  IN read

LogRamGet(r) == Reading(r)[buf_size].bytes

Emptied == [buf |-> [i \in 0 .. buf_size |-> IF i < buf_size THEN 0 ELSE buf[i]],
            current |-> 0, first |-> 0]

WriteSize(r, size) ==
  [r EXCEPT !.buf[r.current] = size % 256, !.buf[(r.current + 1) % buf_size] = size \div 256,
            !.current = (@ + 2) % buf_size]

\* Mutant: the part that does not fit is dropped.
WriteLog_Truncates(r, l) ==
  [r EXCEPT !.buf = [i \in 0 .. buf_size |->
                       IF i \in r.current .. r.current + l.size - 1 THEN l.id ELSE @[i]],
            !.current = (@ + l.size) % buf_size]

WriteLog(r, l) ==
  LET part1 == IF r.current + l.size > buf_size THEN buf_size - r.current ELSE 0
      at == IF part1 > 0 THEN 0 ELSE r.current
      rest == l.size - part1
      written == (IF part1 > 0 THEN r.current .. buf_size - 1 ELSE {}) \cup (at .. at + rest - 1)
  IN [r EXCEPT !.buf = [i \in 0 .. buf_size |-> IF i \in written THEN l.id ELSE @[i]],
               !.current = at + rest]

SpareSpace(r) ==
  IF r.current >= r.first THEN buf_size - r.current + r.first ELSE r.first - r.current

\* Move first over the oldest logs until there is room: one turn of the loop, the
\* loop after n turns, and its end (each turn frees a header at least).
FreeOne(r, s) ==
  LET n == ReadNextSize(r, s.first)
  IN IF s.space <= 0 THEN s
     ELSE [first |-> (n.offset + n.size) % buf_size, space |-> s.space - Header - n.size]

Freeing(r, space) ==
  LET freed[n \in Nat] ==
        IF n = 0 THEN [first |-> r.first, space |-> space] ELSE FreeOne(r, freed[n - 1])
  IN freed

FreeSpace(r, space) == [r EXCEPT !.first = Freeing(r, space)[buf_size].first]

\* What the first n logs put in the ring since it was emptied took.
Taken(n) == IF n = 0 THEN 0 ELSE kept[n]

\* The end of logramstore, whatever was flushed before.
Stored(r, l) ==
  WriteLog(WriteSize(FreeSpace(r, l.size + Header - SpareSpace(r)), l.size), l)

-----------------------------------------------------------------------------
(* The policies *)

Idle == flash.pc = "idle"
SetRing(r) == buf' = r.buf /\ current' = r.current /\ first' = r.first

Init ==
  /\ policy \in Policies
  /\ buf = [i \in 0 .. buf_size |-> 0] /\ current = 0 /\ first = 0
  /\ file1 = File(<<>>) /\ file2 = File(<<>>)
  /\ flash = [pc |-> "idle", data |-> <<>>]
  /\ pending = <<>> /\ logs = 0 /\ crashes = 0
  /\ kept = <<>> /\ flashed = <<>> /\ accepted = <<>>

StartFlash(data) == flash' = [pc |-> "start", data |-> data]

\* Mutant: the ring is reset before it is read.
FlushRing_Resets ==
  /\ SetRing(Emptied) /\ kept' = <<>>
  /\ StartFlash(LogRamGet(Emptied))

\* The ring is read and reset, and what it held goes to the files.
FlushRing ==
  /\ SetRing(Emptied) /\ kept' = <<>>
  /\ StartFlash(LogRamGet(Ring))

\* Corner "logs in step": with buffered_all, the tasks that run in the middle of
\* a store leave no room for it.
LeavesRoom(l) ==
  "logs in step" \notin Corners /\ policy = "buffered_all" /\ pending # <<>> =>
    SpareSpace(Ring) >= l.size + Header + Last(pending).size + Header

\* log() with a severity: a store begins.  When room lacks, it signals
\* "erasedata", the hook of buffered_all flushes the ring, and a step of the
\* scheduler runs other tasks, which may log.
Log(size, severe) ==
  LET l == [id |-> logs + 1, size |-> size, severe |-> severe, stepped |-> FALSE]
      full == SpareSpace(Ring) < size + Header
  IN /\ Idle /\ logs < MaxLogs /\ size + Header <= buf_size
     /\ pending # <<>> => Len(pending) < 2 /\ Last(pending).stepped
     /\ LeavesRoom(l)
     /\ logs' = logs + 1
     /\ pending' = Append(pending, [l EXCEPT !.stepped = full])
     /\ IF full /\ policy = "buffered_all" THEN FlushRing
        ELSE UNCHANGED <<ring, kept, flash>>
     /\ UNCHANGED <<policy, files, crashes, flashed, accepted>>

\* The new ring keeps the corner "exact fit" out: no log ends at the end of the
\* ring, and the ring is never full to its last byte.
Fits(r) == "exact fit" \in Corners \/ (r.current # buf_size /\ r.current # r.first)

Keep(l) == kept' = Append(kept, Taken(Len(kept)) + Header + l.size)

\* The store goes on where it was: room is made, the log is written, and the
\* policy saves it, or the whole ring, in the files.
FinishStore ==
  /\ Idle /\ pending # <<>>
  /\ LET l == Last(pending)
         r == Stored(Ring, l)
     IN /\ Fits(r)
        /\ accepted' = accepted \o BytesOf(l)
        /\ IF policy = "context" /\ l.severe
           THEN IF r.current = r.first THEN SetRing(r) /\ Keep(l) /\ UNCHANGED flash
                ELSE SetRing(Emptied) /\ kept' = <<>> /\ StartFlash(LogRamGet(r))
           ELSE /\ SetRing(r) /\ Keep(l)
                /\ IF policy = "sole" /\ l.severe THEN StartFlash(BytesOf(l)) ELSE UNCHANGED flash
  /\ pending' = Front(pending)
  /\ UNCHANGED <<policy, files, logs, crashes, flashed>>

-----------------------------------------------------------------------------
(* The files *)

FlashStep(from, to) == flash.pc = from /\ flash' = [flash EXCEPT !.pc = to]
OnlyFiles == UNCHANGED <<policy, ring, pending, logs, crashes, kept, accepted>>

\* Mutant: the new data are not counted.
SwapNeeded_Late == Len(file1.bytes) > file_size_limit

SwapNeeded == Len(file1.bytes) + Len(flash.data) > file_size_limit

\* swap_files: nothing to do, or remove the old file, rename the current one and
\* open a new one; the process may stop between two of them.
SwapNot == FlashStep("start", "write") /\ ~SwapNeeded /\ UNCHANGED <<files, flashed>> /\ OnlyFiles
SwapRemove ==
  FlashStep("start", "rename") /\ SwapNeeded /\ file2' = Missing /\ UNCHANGED <<file1, flashed>> /\ OnlyFiles

SwapRename ==
  FlashStep("rename", "open") /\ file2' = file1 /\ file1' = Missing /\ UNCHANGED flashed /\ OnlyFiles
SwapOpen ==
  FlashStep("open", "write") /\ file1' = File(<<>>) /\ UNCHANGED <<file2, flashed>> /\ OnlyFiles

FlashWrite ==
  /\ flash.pc = "write" /\ flash' = [pc |-> "idle", data |-> <<>>]
  /\ file1' = File(file1.bytes \o flash.data)
  /\ flashed' = flashed \o flash.data
  /\ UNCHANGED file2 /\ OnlyFiles

\* Mutant: the files are opened anew at a restart.
Restart_Truncates ==
  /\ crashes < MaxCrashes /\ crashes' = crashes + 1
  /\ SetRing([buf |-> [i \in 0 .. buf_size |-> 0], current |-> 0, first |-> 0])
  /\ kept' = <<>> /\ accepted' = flashed
  /\ flash' = [pc |-> "idle", data |-> <<>>] /\ pending' = <<>>
  /\ file1' = File(<<>>) /\ file2' = File(file2.bytes)
  /\ UNCHANGED <<policy, logs, flashed>>

\* The process stops and starts again: the ring is lost, logflashinit creates the
\* files that are missing.
Restart ==
  /\ crashes < MaxCrashes /\ crashes' = crashes + 1
  /\ SetRing([buf |-> [i \in 0 .. buf_size |-> 0], current |-> 0, first |-> 0])
  /\ kept' = <<>> /\ accepted' = flashed
  /\ flash' = [pc |-> "idle", data |-> <<>>] /\ pending' = <<>>
  /\ file1' = File(file1.bytes) /\ file2' = File(file2.bytes)
  /\ UNCHANGED <<policy, logs, flashed>>

Next ==
  \/ \E s \in Sizes, severe \in BOOLEAN : Log(s, severe)
  \/ FinishStore
  \/ SwapNot \/ SwapRemove \/ SwapRename \/ SwapOpen \/ FlashWrite
  \/ Restart

Spec == Init /\ [][Next]_vars

-----------------------------------------------------------------------------
(* Properties *)

\* What logramget would return is the bytes of the longest run of last logs that
\* fits in the ring, headers included: wrapping loses nothing, overwriting takes
\* whole logs and no more than needed.
RamIsSuffix ==
  \E n \in 0 .. Len(kept) :
    LET space == Taken(Len(kept)) - Taken(n)
        size == space - Header * (Len(kept) - n)
    IN /\ space <= buf_size
       /\ n > 0 => Taken(Len(kept)) - Taken(n - 1) > buf_size
       /\ LogRamGet(Ring) = SubSeq(accepted, Len(accepted) - size + 1, Len(accepted))

\* The files, old then current, hold the last bytes they were given, in order,
\* through swaps and restarts, and the current one exceeds the limit only when a
\* single write does.
FlashIsSuffix ==
  /\ IsSuffix(file2.bytes \o file1.bytes, flashed)
  /\ Len(file1.bytes) <= Max({file_size_limit, buf_size - Header})

\* No step, a restart included, loses a byte of the current file.
CurrentFileKept ==
  [][\E f \in {file1'.bytes, file2'.bytes} : IsPrefix(file1.bytes, f)]_vars

\* buffered_all: every log reached the files or is in the ring (or was lost with
\* the ring at a restart): none is overwritten before it is flushed.
AllLogged ==
  policy = "buffered_all" =>
    flashed \o flash.data \o LogRamGet(Ring) = accepted
=============================================================================
