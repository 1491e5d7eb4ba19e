------------------------------ MODULE ByteQueue ------------------------------
(***************************************************************************)
(* What globalfifo (src/song/kernel/drivers/globalfifo) promises to its    *)
(* users: a bounded queue of bytes on which every system call takes effect *)
(* at one instant between its invocation and its return.                   *)
(*                                                                         *)
(* A call is invoked (Invoke), takes effect once or is given up (the       *)
(* actions Read ... GiveUp, which record the result) and returns (Return). *)
(* Nothing here says how the driver waits: GlobalFifo, which has the mutex,*)
(* the wait queues and the memory, is checked and proved to implement it.  *)
(***************************************************************************)
EXTENDS Naturals, Sequences

CONSTANTS Procs,      \* the processes that use the device
          Byte,       \* the values of a byte of the queue
          SIZE,       \* GLOBALFIFO_SIZE
          Calls       \* the system calls a process may issue

VARIABLES queue,      \* the bytes written and not yet read, oldest first
          pending,    \* the call each process is in, NoCall outside calls
          result      \* its result once it has taken effect, NoRet before

qvars == <<queue, pending, result>>

NoCall == [op |-> "none", nonblock |-> FALSE, count |-> 0, data |-> <<>>,
           want |-> {}]
NoRet  == [code |-> "none", data |-> <<>>, mask |-> {}]
Ret(code, data, mask) == [code |-> code, data |-> data, mask |-> mask]

\* The bytes a read of at most n bytes takes, and a write of d can add.
Lesser(m, n)  == IF m < n THEN m ELSE n
Taken(n)      == SubSeq(queue, 1, Lesser(n, Len(queue)))
Left(n)       == SubSeq(queue, Lesser(n, Len(queue)) + 1, Len(queue))
Accepted(d)   == SubSeq(d, 1, Lesser(Len(d), SIZE - Len(queue)))

Readable == queue # <<>>
Writable == Len(queue) # SIZE
PollMask == (IF Readable THEN {"in"} ELSE {}) \cup
            (IF Writable THEN {"out"} ELSE {})

QInit == /\ queue = <<>>
         /\ pending = [p \in Procs |-> NoCall]
         /\ result = [p \in Procs |-> NoRet]

Invoke(p) == /\ pending[p] = NoCall
             /\ \E c \in Calls : pending' = [pending EXCEPT ![p] = c]
             /\ UNCHANGED <<queue, result>>

\* p's call is in progress and has had no effect yet.
Open(p, op) == pending[p].op = op /\ result[p] = NoRet

Finish(p, r) == /\ result' = [result EXCEPT ![p] = r]
                /\ UNCHANGED pending

Read(p) == /\ Open(p, "read") /\ Readable
           /\ queue' = Left(pending[p].count)
           /\ Finish(p, Ret("OK", Taken(pending[p].count), {}))

Write(p) == /\ Open(p, "write") /\ Writable
            /\ queue' = queue \o Accepted(pending[p].data)
            /\ Finish(p, Ret("OK", Accepted(pending[p].data), {}))

\* A read or write that changes nothing: it would block and may not, the
\* user's buffer is bad, or a signal ends the wait of one that may block.
Refuse(p) == /\ \/ Open(p, "read") /\ ~Readable
                \/ Open(p, "write") /\ ~Writable
             /\ pending[p].nonblock
             /\ Finish(p, Ret("EAGAIN", <<>>, {}))
             /\ UNCHANGED queue

Fault(p) == /\ \/ Open(p, "read") /\ Readable
               \/ Open(p, "write") /\ Writable
            /\ Finish(p, Ret("EFAULT", <<>>, {}))
            /\ UNCHANGED queue

GiveUp(p) == /\ Open(p, "read") \/ Open(p, "write") \/ Open(p, "poll")
             /\ pending[p].op # "poll" => ~pending[p].nonblock
             /\ Finish(p, Ret(IF pending[p].op = "poll" THEN "EINTR"
                              ELSE "ERESTARTSYS", <<>>, {}))
             /\ UNCHANGED queue

Clear(p) == /\ Open(p, "clear")
            /\ queue' = <<>>
            /\ Finish(p, Ret("OK", <<>>, {}))

BadIoctl(p) == /\ Open(p, "badcmd")
               /\ Finish(p, Ret("EINVAL", <<>>, {}))
               /\ UNCHANGED queue

\* A poll reports readiness that holds, all together, at one instant.
Poll(p) == /\ Open(p, "poll") /\ PollMask \cap pending[p].want # {}
           /\ Finish(p, Ret("OK", <<>>, PollMask \cap pending[p].want))
           /\ UNCHANGED queue

Return(p) == /\ result[p] # NoRet
             /\ result' = [result EXCEPT ![p] = NoRet]
             /\ pending' = [pending EXCEPT ![p] = NoCall]
             /\ UNCHANGED queue

\* The driver is bound again: the new device is empty and nobody has it open.
Renew == /\ \A p \in Procs : pending[p] = NoCall /\ result[p] = NoRet
         /\ queue' = <<>>
         /\ UNCHANGED <<pending, result>>

QNext == \/ \E p \in Procs : \/ Invoke(p) \/ Read(p) \/ Write(p)
                             \/ Refuse(p) \/ Fault(p) \/ GiveUp(p)
                             \/ Clear(p) \/ BadIoctl(p) \/ Poll(p)
                             \/ Return(p)
         \/ Renew

QSpec == QInit /\ [][QNext]_qvars
=============================================================================
