------------------------------- MODULE GlobalMem -------------------------------
(***************************************************************************)
(* The globalmem character device with its mutex (ch7): a piece of memory  *)
(* that processes read, write, clear and seek in.  The processes share one *)
(* open file.  What is copied to or from a process goes byte by byte, and  *)
(* may stop with a fault at any of them.                                   *)
(***************************************************************************)
EXTENDS Integers

CONSTANTS MemProcs, NoOwner,
          MEMSIZE,      \* GLOBALMEM_SIZE
          Cells,        \* what a process may write in a byte; 0 is cleared
          Offsets,      \* offsets given to llseek
          UIntRange,    \* 2^32: the width of unsigned int
          MaxMemCalls   \* bound on the calls of a process

ASSUME MemAssumption == /\ MEMSIZE \in Nat \ {0} /\ Offsets \subseteq Int
                        /\ UIntRange \in Nat /\ UIntRange > MEMSIZE
                        /\ NoOwner \notin MemProcs

VARIABLES mem, mmutex,
          f_pos,   \* position of the file
          mcall,   \* the call of each process
          mcalls,  \* calls begun by it
          whole    \* history: the memory, were every call made at one moment

memvars == <<mem, mmutex, f_pos, mcall, mcalls, whole>>

\* p, count: the part of the memory; i: the byte to copy, 0 before the mutex
\* is held; buf: the bytes of the process.
NoCall == [op |-> "none", p |-> 0, count |-> 0, i |-> 0, buf |-> <<>>]

Cell == 0 .. MEMSIZE - 1
MemInit == /\ mem = [c \in Cell |-> 0] /\ whole = mem /\ mmutex = NoOwner
           /\ f_pos = 0
           /\ mcall = [q \in MemProcs |-> NoCall]
           /\ mcalls = [q \in MemProcs |-> 0]

MemCall(q, k) == /\ mcall[q] = NoCall /\ mcalls[q] < MaxMemCalls
                 /\ mcalls' = [mcalls EXCEPT ![q] = @ + 1]
                 /\ mcall' = [mcall EXCEPT ![q] = k]

\* Mutant: the count is compared with the size of the device, not with what is
\* left of it behind the position.
Clip_Size(size, p) == IF size > MEMSIZE THEN MEMSIZE ELSE size

Clip(size, p) == IF size > MEMSIZE - p THEN MEMSIZE - p ELSE size

\* read and write take the position and clip the count before the mutex.  The
\* position is unsigned: a negative one is behind the end too, and the call
\* ends without the mutex.
MemEnter(q) ==
  /\ \E size \in 0 .. MEMSIZE + 1, v \in Cells, op \in {"read", "write"} :
       LET inside == f_pos \in Cell
           count  == IF inside THEN Clip(size, f_pos) ELSE 0
       IN  MemCall(q, [op |-> op, p |-> f_pos, count |-> count,
                       i |-> IF inside THEN 0 ELSE 1,
                       buf |-> [c \in 1 .. count |-> IF op = "write" THEN v ELSE 0]])
  /\ UNCHANGED <<mem, mmutex, f_pos, whole>>

\* ioctl MEM_CLEAR
ClearEnter(q) ==
  /\ MemCall(q, [op |-> "clear", p |-> 0, count |-> MEMSIZE, i |-> 0,
                 buf |-> [c \in 1 .. MEMSIZE |-> 0]])
  /\ UNCHANGED <<mem, mmutex, f_pos, whole>>

\* Mutant: no mutex, as in ch6.
MemLock_None(q) ==
  /\ mcall[q].op \in {"read", "write", "clear"} /\ mcall[q].i = 0
  /\ mcall' = [mcall EXCEPT ![q].i = 1]
  /\ UNCHANGED <<mem, mmutex, f_pos, mcalls, whole>>

MemLock(q) ==
  /\ mcall[q].op \in {"read", "write", "clear"} /\ mcall[q].i = 0
  /\ mmutex = NoOwner
  /\ mmutex' = q
  /\ mcall' = [mcall EXCEPT ![q].i = 1]
  /\ UNCHANGED <<mem, f_pos, mcalls, whole>>

\* The next byte of copy_to_user, copy_from_user or memset.
MemCopy(q) ==
  LET k == mcall[q]
  IN  /\ k.op # "seek" /\ k.i \in 1 .. k.count
      /\ IF k.op = "read"
         THEN /\ mcall' = [mcall EXCEPT ![q].buf[k.i] = mem[k.p + k.i - 1],
                                        ![q].i = @ + 1]
              /\ UNCHANGED mem
         ELSE /\ mem' = [mem EXCEPT ![k.p + k.i - 1] = k.buf[k.i]]
              /\ mcall' = [mcall EXCEPT ![q].i = @ + 1]
      /\ UNCHANGED <<mmutex, f_pos, mcalls, whole>>

\* The call is over; made at one moment, it changes what was copied of it.
MemReturn(q) ==
  LET k == mcall[q]
  IN  /\ mmutex' = (IF mmutex = q THEN NoOwner ELSE mmutex)
      /\ mcall' = [mcall EXCEPT ![q] = NoCall]
      /\ whole' = IF k.op = "read" THEN whole
                  ELSE [c \in Cell |-> IF c \in k.p .. k.p + k.i - 2
                                       THEN k.buf[c - k.p + 1] ELSE whole[c]]
      /\ UNCHANGED <<mem, mcalls>>

\* All bytes are copied; read and write give the file the position behind.
MemDone(q) ==
  /\ mcall[q].i > mcall[q].count
  /\ f_pos' = IF mcall[q].op = "clear" THEN f_pos ELSE mcall[q].p + mcall[q].count
  /\ MemReturn(q)

\* -EFAULT: the bytes copied so far stay, the position does too.
MemFault(q) ==
  /\ mcall[q].op \in {"read", "write"} /\ mcall[q].i \in 1 .. mcall[q].count
  /\ UNCHANGED f_pos
  /\ MemReturn(q)

\* llseek from the start; the offset is cut to an unsigned int.
SeekSet(q) ==
  /\ \E offset \in Offsets : /\ offset >= 0 /\ offset % UIntRange <= MEMSIZE
                             /\ f_pos' = offset % UIntRange
  /\ MemCall(q, NoCall)
  /\ UNCHANGED <<mem, mmutex, whole>>

\* llseek from the position tests where it leads and then, without a lock,
\* moves the position that is there by now.
SeekTest(q) ==
  /\ \E offset \in Offsets : /\ f_pos + offset \in 0 .. MEMSIZE
                             /\ MemCall(q, [NoCall EXCEPT !.op = "seek", !.p = offset])
  /\ UNCHANGED <<mem, mmutex, f_pos, whole>>

SeekMove(q) ==
  /\ mcall[q].op = "seek"
  /\ f_pos' = f_pos + mcall[q].p
  /\ mcall' = [mcall EXCEPT ![q] = NoCall]
  /\ UNCHANGED <<mem, mmutex, mcalls, whole>>

MemNext == \E q \in MemProcs :
  \/ MemEnter(q) \/ ClearEnter(q) \/ MemLock(q) \/ MemCopy(q) \/ MemDone(q)
  \/ MemFault(q) \/ SeekSet(q) \/ SeekTest(q) \/ SeekMove(q)

MemSpec == MemInit /\ [][MemNext]_memvars

--------------------------------------------------------------------------------
\* Calls take effect one after the other: with the mutex free the memory is
\* what the calls that ended leave when each is made at one moment, and a read
\* that has copied all has bytes that were in the memory together.
MemIsWhole ==
  /\ mmutex = NoOwner => mem = whole
  /\ \A q \in MemProcs : LET k == mcall[q] IN
       k.op = "read" /\ k.i > k.count =>
         \A c \in 1 .. k.count : k.buf[c] = whole[k.p + c - 1]

\* Where two processes that share the file can leave the position behind the
\* end or before the start (SeekMove), no copy leaves the memory.
CopyInMemory == \A q \in MemProcs :
  mcall[q].op \in {"read", "write", "clear"} /\ mcall[q].count > 0 =>
    mcall[q].p \in Cell /\ mcall[q].p + mcall[q].count <= MEMSIZE
=============================================================================
