--------------------------- MODULE GlobalFifoProps ---------------------------
(* What makes the globalfifo driver correct.                               *)
EXTENDS GlobalFifo

Labels == {"idle", "einval", "lock", "enqueue", "test", "unlock_sleep",
           "schedule", "woken", "relock", "copy", "shift", "commit", "wake",
           "sigio", "clear", "scan", "decide", "unlock", "dequeue", "return"}

\* The steps between a mutex_lock and the mutex_unlock that follows it.
Critical == {"clear", "enqueue", "test", "unlock_sleep", "copy", "shift",
             "commit", "wake", "sigio", "scan", "unlock"}

CallType == [op : Ops \cup {"none"}, nonblock : BOOLEAN, count : Nat,
             data : Seq(Byte), want : SUBSET {"in", "out"}]
Codes   == {"none", "OK", "EAGAIN", "EFAULT", "ERESTARTSYS", "EINTR", "EINVAL"}
RetType == [code : Codes, data : Seq(Byte), mask : SUBSET {"in", "out"}]

\* Every variable keeps its type; in particular current_len stays within mem
\* and every byte a call has in hand is a byte.
TypeOK == /\ registered \in BOOLEAN /\ gone \in BOOLEAN
          /\ file \in [Procs -> {"closed", "block", "nonblock"}]
          /\ mutex \in Procs \cup {NoProc}
          /\ current_len \in 0 .. SIZE
          /\ mem \in [Index -> Byte]
          /\ wait \in [{"r", "w"} -> SUBSET Procs]
          /\ async_queue \in SUBSET Procs
          /\ state \in [Procs -> {"RUNNING", "INTERRUPTIBLE"}]
          /\ sig \in [Procs -> BOOLEAN]
          /\ pc \in [Procs -> Labels]
          /\ call \in [Procs -> CallType]
          /\ ret \in [Procs -> RetType]
-----------------------------------------------------------------------------
(* Safety.                                                                 *)

\* The mutex is held by exactly the process that is between a lock and the
\* matching unlock: every path through the loops and the two goto labels
\* unlocks once, and no process goes to sleep with the mutex held.
MutexHeldInCritical == \A p \in Procs : mutex = p <=> pc[p] \in Critical

\* A call that will sleep unless someone changes state[p] to RUNNING.
Waiting(p) ==
  /\ state[p] = "INTERRUPTIBLE"
  /\ \/ pc[p] \in {"unlock_sleep", "schedule"}
     \/ pc[p] \in {"unlock", "decide"} /\ call[p].op = "poll" /\ ret[p] = NoRet
Wanting(p, op, event) == \/ call[p].op = op
                         \/ call[p].op = "poll" /\ event \in call[p].want
AboutToWake(op) == \E p \in Procs : pc[p] = "wake" /\ call[p].op = op

\* No reader and no poller for input is left asleep over data: when the FIFO
\* is not empty the writer that filled it has its wake_up still to do.  A task
\* that has tested the FIFO but not reached schedule() counts as asleep.
NoLostReadWakeup ==
  \A p \in Procs : Waiting(p) /\ Wanting(p, "read", "in") =>
    current_len = 0 \/ AboutToWake("write")

\* The same for writers and free space.  FIFO_CLEAR makes room and wakes
\* nobody, so this holds of the driver only while nobody issues that ioctl.
NoLostWriteWakeup ==
  \A p \in Procs : Waiting(p) /\ Wanting(p, "write", "out") =>
    current_len = SIZE \/ AboutToWake("read")

\* A wait-queue entry lives on the stack of the read or write, or in the
\* poll table, of the call that added it: when the call returns to user mode,
\* by whichever path, the entry is off every queue and the task is runnable.
NoStaleWaiter ==
  \A p \in Procs : pc[p] \in {"idle", "return"} =>
    /\ \A q \in {"r", "w"} : p \notin wait[q]
    /\ pc[p] = "idle" => state[p] = "RUNNING"

\* A task that waits is on the queue its waker will scan.
WaiterIsQueued ==
  \A p \in Procs : Waiting(p) => \A q \in QueuesOf(call[p].op) : p \in wait[q]
-----------------------------------------------------------------------------
(* The inductive invariant that proves the safety properties above.        *)

\* Between add_wait_queue and remove_wait_queue.
Queued == {"test", "unlock_sleep", "schedule", "woken", "relock", "copy",
           "shift", "commit", "wake", "sigio", "scan", "decide", "unlock",
           "dequeue"}
\* Nothing of the call's result is decided yet.
Undecided == {"idle", "einval", "lock", "enqueue", "test", "unlock_sleep",
              "schedule", "woken", "relock", "copy", "scan", "clear"}

\* Which operations take a process to each label.
LabelInv ==
  \A p \in Procs :
    LET at == pc[p]
        op == call[p].op IN
    /\ at = "idle" <=> op = "none"
    /\ at = "einval" => op = "badcmd"
    /\ at # "return" /\ op = "badcmd" => at = "einval"
    /\ at = "clear" => op = "clear"
    /\ op = "clear" => at \in {"lock", "clear", "unlock", "return"}
    /\ at \in {"scan", "decide"} => op = "poll"
    /\ at \in {"test", "unlock_sleep", "woken", "copy", "wake"}
         => op \in {"read", "write"}
    /\ at = "shift" => op = "read"
    /\ at \in {"commit", "sigio"} => op = "write"

QueueInv == \A p \in Procs : \A q \in {"r", "w"} :
              p \in wait[q] <=> pc[p] \in Queued /\ q \in QueuesOf(call[p].op)
StateInv == \A p \in Procs :
              state[p] = "INTERRUPTIBLE" /\ call[p].op # "poll" =>
                pc[p] \in {"unlock_sleep", "schedule"}
FileInv  == /\ \A p \in Procs : file[p] = "closed" =>
                 pc[p] = "idle" /\ p \notin async_queue
            /\ ~registered /\ ~gone => \A p \in Procs : file[p] = "closed"
RetInv   == \A p \in Procs :
              /\ pc[p] \in Undecided => ret[p] = NoRet
              /\ ret[p] = NoRet =>
                   \/ pc[p] \in Undecided
                   \/ pc[p] \in {"unlock", "decide"} /\ call[p].op = "poll"
              /\ ret[p].code = "none" => ret[p] = NoRet

\* What the two copies have prepared for the update of current_len.
CopyOK(p) ==
  /\ pc[p] = "copy" => ~Blocked(p)
  /\ pc[p] = "shift" =>
       LET n == Lesser(call[p].count, current_len) IN
       /\ current_len # 0
       /\ ret[p] = [code |-> "OK", mask |-> {},
                    data |-> [i \in 1 .. n |-> mem[i - 1]]]
  /\ pc[p] = "commit" =>
       LET n == Lesser(Len(call[p].data), SIZE - current_len) IN
       /\ current_len # SIZE
       /\ ret[p] = [code |-> "OK", mask |-> {},
                    data |-> SubSeq(call[p].data, 1, n)]
       /\ \A i \in 1 .. n : mem[current_len + i - 1] = call[p].data[i]
CopyInv == \A p \in Procs : CopyOK(p)

IInv == /\ TypeOK /\ MutexHeldInCritical /\ LabelInv /\ QueueInv /\ StateInv
        /\ FileInv /\ RetInv /\ CopyInv /\ NoLostReadWakeup
-----------------------------------------------------------------------------
(* Refinement: the driver is a queue whose calls take effect at one instant.*)

\* A read or write takes effect when it updates current_len, not when it
\* copies the bytes; what lies in mem beyond current_len is not in the queue.
Contents  == [i \in 1 .. current_len |-> mem[i - 1]]
Effective == [p \in Procs |-> IF pc[p] \in {"shift", "commit"} THEN NoRet
                                                               ELSE ret[p]]
AllCalls  == {[c EXCEPT !.nonblock = b] : c \in Calls, b \in BOOLEAN}

Abstract == INSTANCE ByteQueue WITH queue <- Contents, pending <- call,
                                    result <- Effective, Calls <- AllCalls

\* Every behaviour of the driver is a behaviour of ByteQueue: bytes come out
\* in the order they went in, none is lost, repeated or invented whatever the
\* interleaving, faults and signals, and each result fits one instant.
ImplementsByteQueue == Abstract!QSpec
-----------------------------------------------------------------------------
(* Liveness, under FairSpec, for as long as the device's memory is there.   *)

\* A process asleep in read while data is there does not stay asleep over it:
\* it is woken, or another reader empties the FIFO again.
ReaderIsWoken ==
  \A p \in Procs :
    Waiting(p) /\ call[p].op = "read" /\ current_len > 0
      ~> ~Waiting(p) \/ current_len = 0 \/ gone

\* The same for a process asleep in write.
WriterIsWoken ==
  \A p \in Procs :
    Waiting(p) /\ call[p].op = "write" /\ current_len < SIZE
      ~> ~Waiting(p) \/ current_len = SIZE \/ gone

\* Nobody sleeps on over what it waits for, reader or writer.
SleeperIsWoken == ReaderIsWoken /\ WriterIsWoken

\* Every call on a file opened with O_NONBLOCK, and every ioctl, returns.
NonblockingCallReturns ==
  \A p \in Procs :
    (pc[p] # "idle" /\ \/ call[p].nonblock /\ call[p].op # "poll"
                       \/ call[p].op \in {"clear", "badcmd"})
      ~> pc[p] = "idle" \/ gone

\* A call that gets a signal returns, wherever the signal finds it: before
\* the test, between the test and schedule(), asleep, or on its way back to
\* the mutex.  (It may return data instead of -ERESTARTSYS.)
SignalledCallReturns == \A p \in Procs : sig[p] ~> pc[p] = "idle" \/ gone

\* Whoever need not wait does not wait: these two kinds of call return.
UnblockedCallReturns == NonblockingCallReturns /\ SignalledCallReturns
=============================================================================
