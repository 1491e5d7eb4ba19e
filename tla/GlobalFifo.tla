------------------------------ MODULE GlobalFifo ------------------------------
(***************************************************************************)
(* The globalfifo driver of song/kernel/drivers/globalfifo/ch12: a FIFO    *)
(* character device with blocking read and write, poll, SIGIO and an ioctl *)
(* that empties it.                                                        *)
(*                                                                         *)
(* Processes interleave at every step at which the code touches state that *)
(* another process can see: mutex, current_len, mem, the two wait queue    *)
(* heads, a task's state, pending signals and the fasync list.  pc[p] names*)
(* the next such step of p's system call.                                  *)
(*                                                                         *)
(* External, as the driver uses it: the mutex is a lock without an order   *)
(* among its waiters; wake_up_interruptible makes every task on the queue  *)
(* runnable (the entries are not exclusive); schedule() returns to a task  *)
(* that is TASK_RUNNING or has a signal pending.  For a poller, whose      *)
(* waiting is done by do_poll, INTERRUPTIBLE stands for pwq->triggered = 0.*)
(***************************************************************************)
EXTENDS Naturals, Sequences, FiniteSets

CONSTANTS Procs,      \* the processes (each has at most one open file)
          Byte,       \* the values of a byte
          Zero,       \* the byte memset and kzalloc store
          SIZE,       \* GLOBALFIFO_SIZE
          Calls,      \* the system calls issued: [op, count, data, want]
          May,        \* May[p]: the operations p issues
          NoProc,     \* the mutex is free
          Signalled   \* the processes that others may send signals to

Ops == {"read", "write", "poll", "clear", "badcmd"}

ASSUME SizeAssumption == SIZE \in Nat \ {0}
ASSUME ByteAssumption == Zero \in Byte
ASSUME ProcAssumption == NoProc \notin Procs
ASSUME CallAssumption ==
         Calls \subseteq [op : Ops, nonblock : {FALSE}, count : Nat,
                          data : Seq(Byte), want : SUBSET {"in", "out"}]

VARIABLES registered,   \* the misc device of a bound platform device exists
          gone,         \* its memory was freed under an open file
          file,         \* "closed", or the flags p opened the device with
          mutex,        \* dev->mutex: its holder or NoProc
          current_len,  \* dev->current_len
          mem,          \* dev->mem
          wait,         \* wait["r"] and wait["w"]: dev->r_wait, dev->w_wait
          async_queue,  \* dev->async_queue: the processes to send SIGIO to
          state,        \* current->state of each process
          sig,          \* signal_pending() of each process
          pc,           \* next step of the process's system call
          call,         \* its arguments
          ret           \* its result, once it is decided

device == <<registered, gone, file, async_queue>>
fifo   == <<current_len, mem>>
task   == <<state, sig>>
io     == <<call, ret>>
vars == <<registered, gone, file, mutex, current_len, mem, wait, async_queue,
          state, sig, pc, call, ret>>

NoCall == [op |-> "none", nonblock |-> FALSE, count |-> 0, data |-> <<>>,
           want |-> {}]
NoRet  == [code |-> "none", data |-> <<>>, mask |-> {}]
Error(code)    == [code |-> code, data |-> <<>>, mask |-> {}]
Lesser(m, n)   == IF m < n THEN m ELSE n
Index          == 0 .. SIZE - 1

\* The conditions of the two while loops: read blocks on an empty FIFO,
\* write on a full one, each on a queue of its own.
Blocked(p) == IF call[p].op = "read" THEN current_len = 0
              ELSE current_len = SIZE
QueuesOf(op) == {q \in {"r", "w"} : \/ q = "r" /\ op \in {"read", "poll"}
                                    \/ q = "w" /\ op \in {"write", "poll"}}

Go(p, to)     == pc' = [pc EXCEPT ![p] = to]
SetRet(p, r)  == ret' = [ret EXCEPT ![p] = r]
At(p, label)  == pc[p] = label

Init == /\ registered = FALSE /\ gone = FALSE
        /\ file = [p \in Procs |-> "closed"]
        /\ mutex = NoProc
        /\ current_len = 0
        /\ mem = [i \in Index |-> Zero]
        /\ wait = [q \in {"r", "w"} |-> {}]
        /\ async_queue = {}
        /\ state = [p \in Procs |-> "RUNNING"]
        /\ sig = [p \in Procs |-> FALSE]
        /\ pc = [p \in Procs |-> "idle"]
        /\ call = [p \in Procs |-> NoCall]
        /\ ret = [p \in Procs |-> NoRet]
-----------------------------------------------------------------------------
(* The life of the device and of the open files.                           *)

\* globalfifo_probe: a zeroed device with a free mutex and empty queues is
\* made visible by misc_register, its last step.
Probe == /\ ~registered /\ ~gone
         /\ registered' = TRUE
         /\ mutex' = NoProc
         /\ current_len' = 0
         /\ mem' = [i \in Index |-> Zero]
         /\ wait' = [q \in {"r", "w"} |-> {}]
         /\ async_queue' = {}
         /\ UNCHANGED <<gone, file, task, pc, io>>

\* globalfifo_remove, on rmmod of this module or of globalfifo-dev, which has
\* the platform device, or on unbind.  An open file holds this module (.owner),
\* but nothing holds the other: devm_kzalloc's memory may go under open files
\* and calls.  What these do with it then is undefined, and the model ends.
Remove == /\ registered
          /\ registered' = FALSE
          /\ gone' = \E p \in Procs : file[p] # "closed"
          /\ UNCHANGED <<file, mutex, fifo, wait, async_queue, task, pc, io>>

Ended == gone /\ UNCHANGED vars

OpenFile(p) == /\ registered /\ file[p] = "closed"
               /\ \E flags \in {"block", "nonblock"} :
                    file' = [file EXCEPT ![p] = flags]
               /\ UNCHANGED <<registered, gone, mutex, fifo, wait, async_queue,
                              task, pc, io>>

\* globalfifo_fasync: fcntl(F_SETFL) with FASYNC set or cleared.
Fasync(p) == /\ file[p] # "closed" /\ At(p, "idle")
             /\ async_queue' \in {async_queue \cup {p}, async_queue \ {p}}
             /\ UNCHANGED <<registered, gone, file, mutex, fifo, wait, task, pc,
                            io>>

\* globalfifo_release takes the file off the fasync list.
Release(p) == /\ file[p] # "closed" /\ At(p, "idle")
              /\ file' = [file EXCEPT ![p] = "closed"]
              /\ async_queue' = async_queue \ {p}
              /\ UNCHANGED <<registered, gone, mutex, fifo, wait, task, pc, io>>
-----------------------------------------------------------------------------
(* Entry: a system call starts.                                            *)

\* poll_initwait clears pwq->triggered; an unknown ioctl returns -EINVAL
\* before it takes the mutex.
Invoke(p) == /\ file[p] # "closed" /\ At(p, "idle")
             /\ \E c \in {c \in Calls : c.op \in May[p]} :
                  /\ call' = [call EXCEPT ![p] =
                       [c EXCEPT !.nonblock = (file[p] = "nonblock")]]
                  /\ Go(p, IF c.op = "badcmd" THEN "einval" ELSE "lock")
                  /\ state' = [state EXCEPT ![p] =
                       IF c.op = "poll" THEN "INTERRUPTIBLE" ELSE "RUNNING"]
             /\ UNCHANGED <<device, mutex, fifo, wait, sig, ret>>

Einval(p) == /\ At(p, "einval")
             /\ SetRet(p, Error("EINVAL"))
             /\ Go(p, "return")
             /\ UNCHANGED <<device, mutex, fifo, wait, task, call>>

\* mutex_lock at the head of read, write, poll and FIFO_CLEAR.
Lock(p) == /\ At(p, "lock") /\ mutex = NoProc
           /\ mutex' = p
           /\ Go(p, IF call[p].op = "clear" THEN "clear" ELSE "enqueue")
           /\ UNCHANGED <<device, fifo, wait, task, io>>

\* Mutant: poll registers on r_wait only.
Enqueue_ReadOnly(p) ==
  /\ At(p, "enqueue")
  /\ wait' = [wait EXCEPT ![IF call[p].op = "write" THEN "w" ELSE "r"] =
                @ \cup {p}]
  /\ Go(p, IF call[p].op = "poll" THEN "scan" ELSE "test")
  /\ UNCHANGED <<device, mutex, fifo, task, io>>

\* add_wait_queue, and the two poll_waits.
Enqueue(p) == /\ At(p, "enqueue")
              /\ wait' = [q \in {"r", "w"} |->
                   IF q \in QueuesOf(call[p].op) THEN wait[q] \cup {p}
                                                 ELSE wait[q]]
              /\ Go(p, IF call[p].op = "poll" THEN "scan" ELSE "test")
              /\ UNCHANGED <<device, mutex, fifo, task, io>>
-----------------------------------------------------------------------------
(* The wait loop of read and of write.                                     *)

\* The while condition: go on, or fail at once, or prepare to sleep.
Proceed(p) == /\ At(p, "test") /\ ~Blocked(p)
              /\ Go(p, "copy")
              /\ UNCHANGED <<device, mutex, fifo, wait, task, io>>

\* Mutant: -EAGAIN leaves by out2 and not by out, with the mutex held.
WouldBlock_Locked(p) == /\ At(p, "test") /\ Blocked(p) /\ call[p].nonblock
                        /\ SetRet(p, Error("EAGAIN"))
                        /\ Go(p, "dequeue")
                        /\ UNCHANGED <<device, mutex, fifo, wait, task, call>>

WouldBlock(p) == /\ At(p, "test") /\ Blocked(p) /\ call[p].nonblock
                 /\ SetRet(p, Error("EAGAIN"))
                 /\ Go(p, "unlock")
                 /\ UNCHANGED <<device, mutex, fifo, wait, task, call>>

\* __set_current_state(TASK_INTERRUPTIBLE), with the mutex still held.
PrepareSleep(p) == /\ At(p, "test") /\ Blocked(p) /\ ~call[p].nonblock
                   /\ state' = [state EXCEPT ![p] = "INTERRUPTIBLE"]
                   /\ Go(p, "unlock_sleep")
                   /\ UNCHANGED <<device, mutex, fifo, wait, sig, io>>

UnlockSleep(p) == /\ At(p, "unlock_sleep")
                  /\ mutex' = NoProc
                  /\ Go(p, "schedule")
                  /\ UNCHANGED <<device, fifo, wait, task, io>>

\* schedule() returns: the task was woken, or it has a signal to handle.
\* poll_schedule_timeout clears pwq->triggered again and do_poll rescans.
Schedule(p) == /\ At(p, "schedule")
               /\ state[p] = "RUNNING" \/ sig[p]
               /\ state' = [state EXCEPT ![p] =
                    IF call[p].op = "poll" THEN "INTERRUPTIBLE" ELSE "RUNNING"]
               /\ Go(p, IF call[p].op = "poll" THEN "relock" ELSE "woken")
               /\ UNCHANGED <<device, mutex, fifo, wait, sig, io>>

\* Mutants: a signal leaves by out, unlocking a mutex it does not hold; it
\* returns past remove_wait_queue; it is not looked at.
Interrupted_Unlock(p) == /\ At(p, "woken") /\ sig[p]
                         /\ SetRet(p, Error("ERESTARTSYS"))
                         /\ Go(p, "unlock")
                         /\ UNCHANGED <<device, mutex, fifo, wait, task, call>>
Interrupted_Queued(p) == /\ At(p, "woken") /\ sig[p]
                         /\ SetRet(p, Error("ERESTARTSYS"))
                         /\ Go(p, "return")
                         /\ UNCHANGED <<device, mutex, fifo, wait, task, call>>
Interrupted_Ignored(p) == /\ At(p, "woken") /\ sig[p]
                          /\ Go(p, "relock")
                          /\ UNCHANGED <<device, mutex, fifo, wait, task, io>>

\* signal_pending(current): give the wait up without the mutex (goto out2).
Interrupted(p) == /\ At(p, "woken") /\ sig[p]
                  /\ SetRet(p, Error("ERESTARTSYS"))
                  /\ Go(p, "dequeue")
                  /\ UNCHANGED <<device, mutex, fifo, wait, task, call>>

Retry(p) == /\ At(p, "woken") /\ ~sig[p]
            /\ Go(p, "relock")
            /\ UNCHANGED <<device, mutex, fifo, wait, task, io>>

Relock(p) == /\ At(p, "relock") /\ mutex = NoProc
             /\ mutex' = p
             /\ Go(p, IF call[p].op = "poll" THEN "scan" ELSE "test")
             /\ UNCHANGED <<device, fifo, wait, task, io>>
-----------------------------------------------------------------------------
(* Moving the bytes.  The copy to or from the user may sleep in a page      *)
(* fault, so it and the update of current_len are separate steps.          *)

ReadCopy(p) ==
  LET n == Lesser(call[p].count, current_len) IN
  /\ At(p, "copy") /\ call[p].op = "read"
  /\ \/ /\ SetRet(p, Error("EFAULT"))
        /\ Go(p, "unlock")
     \/ /\ SetRet(p, [code |-> "OK", mask |-> {},
                      data |-> [i \in 1 .. n |-> mem[i - 1]]])
        /\ Go(p, "shift")
  /\ UNCHANGED <<device, mutex, fifo, wait, task, call>>

\* Mutant: a partial read does not move the rest of the bytes to the front.
ReadShift_NoMove(p) == /\ At(p, "shift")
                       /\ current_len' = current_len - Len(ret[p].data)
                       /\ Go(p, "wake")
                       /\ UNCHANGED <<device, mutex, mem, wait, task, io>>

\* The memcpy moves what is left to the front (it copies upwards on the
\* machines the driver is built for); the cells past it keep their bytes.
ReadShift(p) ==
  LET n == Len(ret[p].data) IN
  /\ At(p, "shift")
  /\ mem' = [i \in Index |-> IF i + n < current_len THEN mem[i + n]
                                                    ELSE mem[i]]
  /\ current_len' = current_len - n
  /\ Go(p, "wake")
  /\ UNCHANGED <<device, mutex, wait, task, io>>

\* A faulting copy_from_user stores a prefix of the bytes and zeroes the rest.
WriteCopy(p) ==
  LET n == Lesser(Len(call[p].data), SIZE - current_len)
      stored(good) == [i \in Index |->
        IF i \in current_len .. current_len + n - 1
        THEN IF i < current_len + good THEN call[p].data[i - current_len + 1]
                                       ELSE Zero
        ELSE mem[i]] IN
  /\ At(p, "copy") /\ call[p].op = "write"
  /\ \/ /\ \E good \in 0 .. n : good < n /\ mem' = stored(good)
        /\ SetRet(p, Error("EFAULT"))
        /\ Go(p, "unlock")
     \/ /\ mem' = stored(n)
        /\ SetRet(p, [code |-> "OK", mask |-> {},
                      data |-> SubSeq(call[p].data, 1, n)])
        /\ Go(p, "commit")
  /\ UNCHANGED <<device, mutex, current_len, wait, task, call>>

WriteCommit(p) == /\ At(p, "commit")
                  /\ current_len' = current_len + Len(ret[p].data)
                  /\ Go(p, "wake")
                  /\ UNCHANGED <<device, mutex, mem, wait, task, io>>

\* Mutants: read wakes r_wait and write w_wait; waking takes the entries off
\* the queue, as DEFINE_WAIT's would, which the loops do not put back; only
\* the first waiter is woken.
Wake_Swapped(p) ==
  /\ At(p, "wake")
  /\ LET woken == wait[IF call[p].op = "read" THEN "r" ELSE "w"] IN
     state' = [t \in Procs |-> IF t \in woken THEN "RUNNING" ELSE state[t]]
  /\ Go(p, IF call[p].op = "read" THEN "unlock" ELSE "sigio")
  /\ UNCHANGED <<device, mutex, fifo, wait, sig, io>>
Wake_Autoremove(p) ==
  /\ At(p, "wake")
  /\ LET q == IF call[p].op = "read" THEN "w" ELSE "r" IN
     /\ state' = [t \in Procs |-> IF t \in wait[q] THEN "RUNNING" ELSE state[t]]
     /\ wait' = [wait EXCEPT ![q] = {}]
  /\ Go(p, IF call[p].op = "read" THEN "unlock" ELSE "sigio")
  /\ UNCHANGED <<device, mutex, fifo, sig, io>>
Wake_First(p) ==
  /\ At(p, "wake")
  /\ LET woken == wait[IF call[p].op = "read" THEN "w" ELSE "r"] IN
     \/ woken = {} /\ UNCHANGED state
     \/ \E t \in woken : state' = [state EXCEPT ![t] = "RUNNING"]
  /\ Go(p, IF call[p].op = "read" THEN "unlock" ELSE "sigio")
  /\ UNCHANGED <<device, mutex, fifo, wait, sig, io>>

\* wake_up_interruptible: the reader wakes w_wait, the writer r_wait.
Wake(p) == /\ At(p, "wake")
           /\ LET woken == wait[IF call[p].op = "read" THEN "w" ELSE "r"] IN
              state' = [t \in Procs |-> IF t \in woken THEN "RUNNING"
                                                       ELSE state[t]]
           /\ Go(p, IF call[p].op = "read" THEN "unlock" ELSE "sigio")
           /\ UNCHANGED <<device, mutex, fifo, wait, sig, io>>

\* kill_fasync(SIGIO).  A process outside a system call handles it at once.
Sigio(p) == /\ At(p, "sigio")
            /\ sig' = [t \in Procs |-> sig[t] \/ (/\ t \in async_queue
                                                  /\ pc[t] # "idle")]
            /\ Go(p, "unlock")
            /\ UNCHANGED <<device, mutex, fifo, wait, state, io>>

\* FIFO_CLEAR empties the FIFO and wakes nobody.
Clear(p) == /\ At(p, "clear")
            /\ current_len' = 0
            /\ mem' = [i \in Index |-> Zero]
            /\ SetRet(p, Error("OK"))
            /\ Go(p, "unlock")
            /\ UNCHANGED <<device, mutex, wait, task, call>>
-----------------------------------------------------------------------------
(* poll: globalfifo_poll computes the mask; do_poll decides to sleep.      *)

Scan(p) ==
  LET mask == (IF current_len # 0 THEN {"in"} ELSE {}) \cup
              (IF current_len # SIZE THEN {"out"} ELSE {})
      hit  == mask \cap call[p].want IN
  /\ At(p, "scan")
  /\ SetRet(p, IF hit = {} THEN NoRet
               ELSE [code |-> "OK", data |-> <<>>, mask |-> hit])
  /\ Go(p, "unlock")
  /\ UNCHANGED <<device, mutex, fifo, wait, task, call>>

PollDecide(p) == /\ At(p, "decide")
                 /\ IF ret[p] = NoRet /\ ~sig[p]
                    THEN Go(p, "schedule") /\ UNCHANGED ret
                    ELSE /\ SetRet(p, IF ret[p] = NoRet THEN Error("EINTR")
                                                        ELSE ret[p])
                         /\ Go(p, "dequeue")
                 /\ UNCHANGED <<device, mutex, fifo, wait, task, call>>
-----------------------------------------------------------------------------
(* Exit.                                                                   *)

Unlock(p) == /\ At(p, "unlock")
             /\ mutex' = NoProc
             /\ Go(p, IF call[p].op = "poll" THEN "decide"
                      ELSE IF call[p].op = "clear" THEN "return"
                      ELSE "dequeue")
             /\ UNCHANGED <<device, fifo, wait, task, io>>

\* remove_wait_queue: the entry is on the stack of the call that returns.
Dequeue(p) == /\ At(p, "dequeue")
              /\ wait' = [q \in {"r", "w"} |->
                   wait[q] \ (IF q \in QueuesOf(call[p].op) THEN {p} ELSE {})]
              /\ Go(p, "return")
              /\ UNCHANGED <<device, mutex, fifo, task, io>>

\* set_current_state(TASK_RUNNING) and back to user mode, where the signals
\* that arrived during the call are handled.
Return(p) == /\ At(p, "return")
             /\ state' = [state EXCEPT ![p] = "RUNNING"]
             /\ sig' = [sig EXCEPT ![p] = FALSE]
             /\ call' = [call EXCEPT ![p] = NoCall]
             /\ SetRet(p, NoRet)
             /\ Go(p, "idle")
             /\ UNCHANGED <<device, mutex, fifo, wait>>

\* Another process sends p a signal while p is in a system call.
Signal(p) == /\ p \in Signalled /\ pc[p] # "idle" /\ ~sig[p]
             /\ sig' = [sig EXCEPT ![p] = TRUE]
             /\ UNCHANGED <<device, mutex, fifo, wait, state, pc, io>>
-----------------------------------------------------------------------------
Acquire(p) == ~gone /\ (Lock(p) \/ Relock(p))

\* The steps a process takes once it is in a system call and runnable.
Run(p) == /\ ~gone
          /\ \/ Einval(p) \/ Enqueue(p) \/ Proceed(p) \/ WouldBlock(p)
             \/ PrepareSleep(p) \/ UnlockSleep(p) \/ Schedule(p)
             \/ Interrupted(p) \/ Retry(p) \/ ReadCopy(p) \/ ReadShift(p)
             \/ WriteCopy(p) \/ WriteCommit(p) \/ Wake(p) \/ Sigio(p)
             \/ Clear(p) \/ Scan(p) \/ PollDecide(p) \/ Unlock(p)
             \/ Dequeue(p) \/ Return(p)

User(p) == /\ ~gone
           /\ OpenFile(p) \/ Fasync(p) \/ Release(p) \/ Invoke(p) \/ Signal(p)

Next == \/ Probe
        \/ Remove
        \/ Ended
        \/ \E p \in Procs : User(p) \/ Acquire(p) \/ Run(p)

Spec == Init /\ [][Next]_vars

\* The scheduler runs every runnable task, and the mutex does not pass the
\* same waiter over for ever (its waiters queue in arrival order).  Nothing
\* obliges a process to make a call or anyone to send a signal.
FairSpec == Spec /\ \A p \in Procs : WF_vars(Run(p)) /\ SF_vars(Acquire(p))
=============================================================================
