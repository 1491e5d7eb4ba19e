-------------------------- MODULE GlobalFifo_proofs --------------------------
(***************************************************************************)
(* IInv is an inductive invariant of the globalfifo driver, for any number *)
(* of processes, any SIZE and any set of calls.  Its parts are proved one  *)
(* lemma each, one step per action of the driver.                          *)
(*                                                                         *)
(* On top of it: writers are woken where nobody issues FIFO_CLEAR, and     *)
(* every step of the driver is a step of ByteQueue or none.                *)
(***************************************************************************)
EXTENDS GlobalFifoProps, SequenceTheorems, TLAPS

USE ProcAssumption, SizeAssumption, ByteAssumption
USE DEF device, fifo, task, io, At, Go, SetRet

\* The parts of IInv that are about control: who holds the mutex, which label
\* goes with which operation, who is queued, and what is decided.
Control == /\ MutexHeldInCritical /\ LabelInv /\ QueueInv /\ StateInv
           /\ FileInv /\ RetInv

\* The actions of a process, for the case splits below.
LEMMA StepCases ==
  ASSUME Next
  PROVE  \/ Probe
         \/ Remove
         \/ UNCHANGED vars
         \/ \E p \in Procs :
              \/ OpenFile(p) \/ Fasync(p) \/ Release(p) \/ Invoke(p)
              \/ Signal(p) \/ Lock(p) \/ Relock(p) \/ Einval(p) \/ Enqueue(p)
              \/ Proceed(p) \/ WouldBlock(p) \/ PrepareSleep(p)
              \/ UnlockSleep(p) \/ Schedule(p) \/ Interrupted(p) \/ Retry(p)
              \/ ReadCopy(p) \/ ReadShift(p) \/ WriteCopy(p) \/ WriteCommit(p)
              \/ Wake(p) \/ Sigio(p) \/ Clear(p) \/ Scan(p) \/ PollDecide(p)
              \/ Unlock(p) \/ Dequeue(p) \/ Return(p)
BY DEF Next, User, Acquire, Run, Ended

\* A decided result is never NoRet.
LEMMA ResultFacts ==
  /\ NoRet.code = "none"
  /\ \A c : Error(c).code = c
  /\ \A c, d, m : [code |-> c, data |-> d, mask |-> m].code = c
BY DEF NoRet, Error

\* Every step keeps the control part of the invariant.
LEMMA ControlStep ==
  ASSUME TypeOK, Control, [Next]_vars
  PROVE  Control'
<1> USE DEF TypeOK, Control, MutexHeldInCritical, LabelInv, QueueInv, StateInv,
            FileInv, RetInv, Critical, Queued, Undecided, QueuesOf
<1>1. CASE UNCHANGED vars
  BY <1>1 DEF vars
<1>2. CASE Probe
  BY <1>2 DEF Probe
<1>3. CASE Remove
  BY <1>3 DEF Remove
<1>4. ASSUME NEW p \in Procs, OpenFile(p) PROVE Control'
  BY <1>4 DEF OpenFile
<1>5. ASSUME NEW p \in Procs, Fasync(p) PROVE Control'
  BY <1>5 DEF Fasync
<1>6. ASSUME NEW p \in Procs, Release(p) PROVE Control'
  BY <1>6 DEF Release
<1>7. ASSUME NEW p \in Procs, Invoke(p) PROVE Control'
  <2> PICK c \in Calls :
         /\ call' = [call EXCEPT ![p] =
                       [c EXCEPT !.nonblock = (file[p] = "nonblock")]]
         /\ Go(p, IF c.op = "badcmd" THEN "einval" ELSE "lock")
         /\ state' = [state EXCEPT ![p] =
                       IF c.op = "poll" THEN "INTERRUPTIBLE" ELSE "RUNNING"]
    BY <1>7 DEF Invoke
  <2>a. c \in [op : Ops, nonblock : {FALSE}, count : Nat, data : Seq(Byte),
                 want : SUBSET {"in", "out"}]
    BY CallAssumption
  <2>0. c.op \in Ops /\ call'[p].op = c.op
    BY <2>a DEF CallType
  <2>1. MutexHeldInCritical'
    BY <1>7,<2>0 DEF Invoke, Ops, NoCall
  <2>2. LabelInv'
    BY <1>7,<2>0 DEF Invoke, Ops, NoCall
  <2>3. QueueInv'
    BY <1>7,<2>0 DEF Invoke, Ops, NoCall
  <2>4. StateInv'
    BY <1>7,<2>0 DEF Invoke, Ops, NoCall
  <2>5. FileInv'
    BY <1>7,<2>0 DEF Invoke, Ops, NoCall
  <2>6. RetInv'
    BY <1>7,<2>0 DEF Invoke, Ops, NoCall
  <2> QED
    BY <2>1, <2>2, <2>3, <2>4, <2>5, <2>6
<1>8. ASSUME NEW p \in Procs, Signal(p) PROVE Control'
  BY <1>8 DEF Signal
<1>9. ASSUME NEW p \in Procs, Lock(p) PROVE Control'
  BY <1>9 DEF Lock
<1>10. ASSUME NEW p \in Procs, Relock(p) PROVE Control'
  <2>1. MutexHeldInCritical'
    BY <1>10 DEF Relock
  <2>2. LabelInv'
    BY <1>10 DEF Relock, CallType, Ops
  <2>3. QueueInv'
    BY <1>10 DEF Relock
  <2>4. StateInv'
    BY <1>10 DEF Relock
  <2>5. FileInv'
    BY <1>10 DEF Relock
  <2>6. RetInv'
    BY <1>10 DEF Relock
  <2> QED
    BY <2>1, <2>2, <2>3, <2>4, <2>5, <2>6
<1>11. ASSUME NEW p \in Procs, Einval(p) PROVE Control'
  BY <1>11 DEF Einval, Error, NoRet
<1>12. ASSUME NEW p \in Procs, Enqueue(p) PROVE Control'
  <2>1. MutexHeldInCritical'
    BY <1>12 DEF Enqueue
  <2>2. LabelInv'
    BY <1>12 DEF Enqueue, CallType, Ops
  <2>3. QueueInv'
    BY <1>12 DEF Enqueue
  <2>4. StateInv'
    BY <1>12 DEF Enqueue
  <2>5. FileInv'
    BY <1>12 DEF Enqueue
  <2>6. RetInv'
    BY <1>12 DEF Enqueue
  <2> QED
    BY <2>1, <2>2, <2>3, <2>4, <2>5, <2>6
<1>13. ASSUME NEW p \in Procs, Proceed(p) PROVE Control'
  BY <1>13 DEF Proceed
<1>14. ASSUME NEW p \in Procs, WouldBlock(p) PROVE Control'
  BY <1>14 DEF WouldBlock, Error, NoRet
<1>15. ASSUME NEW p \in Procs, PrepareSleep(p) PROVE Control'
  BY <1>15 DEF PrepareSleep
<1>16. ASSUME NEW p \in Procs, UnlockSleep(p) PROVE Control'
  BY <1>16 DEF UnlockSleep
<1>17. ASSUME NEW p \in Procs, Schedule(p) PROVE Control'
  <2>1. MutexHeldInCritical'
    BY <1>17 DEF Schedule
  <2>2. LabelInv'
    BY <1>17 DEF Schedule, CallType, Ops
  <2>3. QueueInv'
    BY <1>17 DEF Schedule
  <2>4. StateInv'
    BY <1>17 DEF Schedule
  <2>5. FileInv'
    BY <1>17 DEF Schedule
  <2>6. RetInv'
    BY <1>17 DEF Schedule
  <2> QED
    BY <2>1, <2>2, <2>3, <2>4, <2>5, <2>6
<1>18. ASSUME NEW p \in Procs, Interrupted(p) PROVE Control'
  BY <1>18 DEF Interrupted, Error, NoRet
<1>19. ASSUME NEW p \in Procs, Retry(p) PROVE Control'
  BY <1>19 DEF Retry
<1>20. ASSUME NEW p \in Procs, ReadCopy(p) PROVE Control'
  <2>0. \/ /\ ret' = [ret EXCEPT ![p] = Error("EFAULT")]
          /\ pc' = [pc EXCEPT ![p] = "unlock"]
       \/ \E r : /\ ret' = [ret EXCEPT ![p] = r] /\ r.code = "OK"
                 /\ pc' = [pc EXCEPT ![p] = "shift"]
    BY <1>20 DEF ReadCopy
  <2>1. MutexHeldInCritical'
    BY <1>20 DEF ReadCopy
  <2>2. LabelInv'
    BY <1>20 DEF ReadCopy
  <2>3. QueueInv'
    BY <1>20 DEF ReadCopy
  <2>4. StateInv'
    BY <1>20 DEF ReadCopy
  <2>5. FileInv'
    BY <1>20 DEF ReadCopy
  <2>6. RetInv'
    <3>1. UNCHANGED call
      BY <1>20 DEF ReadCopy
    <3> QED
      BY <2>0, <3>1, ResultFacts
  <2> QED
    BY <2>1, <2>2, <2>3, <2>4, <2>5, <2>6
<1>21. ASSUME NEW p \in Procs, ReadShift(p) PROVE Control'
  BY <1>21 DEF ReadShift
<1>22. ASSUME NEW p \in Procs, WriteCopy(p) PROVE Control'
  <2>0. \/ /\ ret' = [ret EXCEPT ![p] = Error("EFAULT")]
          /\ pc' = [pc EXCEPT ![p] = "unlock"]
       \/ \E r : /\ ret' = [ret EXCEPT ![p] = r] /\ r.code = "OK"
                 /\ pc' = [pc EXCEPT ![p] = "commit"]
    BY <1>22 DEF WriteCopy
  <2>1. MutexHeldInCritical'
    BY <1>22 DEF WriteCopy
  <2>2. LabelInv'
    BY <1>22 DEF WriteCopy
  <2>3. QueueInv'
    BY <1>22 DEF WriteCopy
  <2>4. StateInv'
    BY <1>22 DEF WriteCopy
  <2>5. FileInv'
    BY <1>22 DEF WriteCopy
  <2>6. RetInv'
    <3>1. UNCHANGED call
      BY <1>22 DEF WriteCopy
    <3> QED
      BY <2>0, <3>1, ResultFacts
  <2> QED
    BY <2>1, <2>2, <2>3, <2>4, <2>5, <2>6
<1>23. ASSUME NEW p \in Procs, WriteCommit(p) PROVE Control'
  BY <1>23 DEF WriteCommit
<1>24. ASSUME NEW p \in Procs, Wake(p) PROVE Control'
  BY <1>24 DEF Wake
<1>25. ASSUME NEW p \in Procs, Sigio(p) PROVE Control'
  BY <1>25 DEF Sigio
<1>26. ASSUME NEW p \in Procs, Clear(p) PROVE Control'
  BY <1>26 DEF Clear, Error, NoRet
<1>27. ASSUME NEW p \in Procs, Scan(p) PROVE Control'
  BY <1>27, ResultFacts DEF Scan
<1>28. ASSUME NEW p \in Procs, PollDecide(p) PROVE Control'
  <2>1. MutexHeldInCritical'
    BY <1>28 DEF PollDecide
  <2>2. LabelInv'
    BY <1>28 DEF PollDecide
  <2>3. QueueInv'
    BY <1>28 DEF PollDecide
  <2>4. StateInv'
    BY <1>28 DEF PollDecide
  <2>5. FileInv'
    BY <1>28 DEF PollDecide
  <2>6. RetInv'
    BY <1>28, ResultFacts DEF PollDecide
  <2> QED
    BY <2>1, <2>2, <2>3, <2>4, <2>5, <2>6
<1>29. ASSUME NEW p \in Procs, Unlock(p) PROVE Control'
  BY <1>29 DEF Unlock
<1>30. ASSUME NEW p \in Procs, Dequeue(p) PROVE Control'
  BY <1>30 DEF Dequeue
<1>31. ASSUME NEW p \in Procs, Return(p) PROVE Control'
  BY <1>31 DEF Return, NoCall, NoRet
<1> QED
  BY StepCases, <1>1, <1>2, <1>3, <1>4, <1>5, <1>6, <1>7, <1>8, <1>9, <1>10,
     <1>11, <1>12, <1>13, <1>14, <1>15, <1>16, <1>17, <1>18, <1>19, <1>20,
     <1>21, <1>22, <1>23, <1>24, <1>25, <1>26, <1>27, <1>28, <1>29, <1>30,
     <1>31

\* A function on 1 .. n is a sequence of length n, and so is a prefix.
LEMMA FunctionIsSeq ==
  ASSUME NEW S, NEW n \in Nat, NEW f \in [1 .. n -> S]
  PROVE  f \in Seq(S) /\ Len(f) = n
BY SeqDef

LEMMA PrefixIsSeq ==
  ASSUME NEW S, NEW s \in Seq(S), NEW n \in 0 .. Len(s)
  PROVE  /\ SubSeq(s, 1, n) \in Seq(S)
         /\ Len(SubSeq(s, 1, n)) = n
         /\ \A i \in 1 .. n : SubSeq(s, 1, n)[i] = s[i]
BY SubSeqProperties, LenProperties, ElementOfSeq

\* The results without data have their type.
LEMMA ErrorType ==
  /\ NoRet \in RetType
  /\ \A c \in Codes : Error(c) \in RetType
BY EmptySeq DEF NoRet, Error, RetType, Codes

\* What the copies counted fits: the mutex has kept current_len still.
LEMMA ShiftLength ==
  ASSUME TypeOK, CopyInv, NEW p \in Procs, pc[p] = "shift"
  PROVE  Len(ret[p].data) \in 0 .. current_len
<1> DEFINE n == Lesser(call[p].count, current_len)
<1>1. n \in 0 .. current_len
  BY DEF TypeOK, CallType, Lesser
<1>2. ret[p].data = [i \in 1 .. n |-> mem[i - 1]]
  <2> DEFINE d == [i \in 1 .. n |-> mem[i - 1]]
  <2>1. ret[p] = [code |-> "OK", mask |-> {}, data |-> d]
    BY Zenon DEF CopyInv, CopyOK
  <2> HIDE DEF d
  <2>2. ret[p].data = d
    BY <2>1
  <2> QED
    BY <2>2 DEF d
<1>3. [i \in 1 .. n |-> mem[i - 1]] \in [1 .. n -> Byte]
  BY <1>1 DEF TypeOK, Index
<1>4. Len(ret[p].data) = n
  BY <1>1, <1>2, <1>3, FunctionIsSeq DEF TypeOK
<1> QED
  BY <1>1, <1>4

LEMMA CommitLength ==
  ASSUME TypeOK, CopyInv, NEW p \in Procs, pc[p] = "commit"
  PROVE  Len(ret[p].data) \in 0 .. SIZE - current_len
<1> DEFINE n == Lesser(Len(call[p].data), SIZE - current_len)
<1>1. /\ call[p].data \in Seq(Byte)
      /\ Len(call[p].data) \in Nat
  BY LenProperties DEF TypeOK, CallType
<1>2. n \in 0 .. Len(call[p].data) /\ n <= SIZE - current_len
  BY <1>1 DEF TypeOK, Lesser
<1>3. ret[p].data = SubSeq(call[p].data, 1, n)
  <2> DEFINE d == SubSeq(call[p].data, 1, n)
  <2>1. ret[p] = [code |-> "OK", mask |-> {}, data |-> d]
    BY Zenon DEF CopyInv, CopyOK
  <2> HIDE DEF d
  <2>2. ret[p].data = d
    BY <2>1
  <2> QED
    BY <2>2 DEF d
<1>4. Len(ret[p].data) = n
  BY <1>1, <1>2, <1>3, PrefixIsSeq
<1> QED
  BY <1>2, <1>4 DEF TypeOK

\* Every step keeps the types; the updates of current_len need CopyInv.
LEMMA TypeStep ==
  ASSUME TypeOK, Control, CopyInv, [Next]_vars
  PROVE  TypeOK'
<1> USE DEF TypeOK
<1>1. CASE UNCHANGED vars
  BY <1>1 DEF vars
<1>2. CASE Probe
  BY <1>2 DEF Probe, Index
<1>3. CASE Remove
  BY <1>3 DEF Remove
<1>4. ASSUME NEW p \in Procs, OpenFile(p) PROVE TypeOK'
  BY <1>4 DEF OpenFile, Labels
<1>5. ASSUME NEW p \in Procs, Fasync(p) PROVE TypeOK'
  BY <1>5 DEF Fasync, Labels
<1>6. ASSUME NEW p \in Procs, Release(p) PROVE TypeOK'
  BY <1>6 DEF Release, Labels
<1>7. ASSUME NEW p \in Procs, Invoke(p) PROVE TypeOK'
  <2>1. PICK c \in Calls :
          call' = [call EXCEPT ![p] =
                     [c EXCEPT !.nonblock = (file[p] = "nonblock")]]
    BY <1>7 DEF Invoke
  <2>2. c \in [op : Ops, nonblock : {FALSE}, count : Nat, data : Seq(Byte),
               want : SUBSET {"in", "out"}]
    BY CallAssumption
  <2>3. [c EXCEPT !.nonblock = (file[p] = "nonblock")] \in CallType
    BY <2>2 DEF CallType
  <2>4. call' \in [Procs -> CallType]
    BY <2>1, <2>3
  <2> QED
    BY <1>7, <2>4 DEF Invoke, Labels
<1>8. ASSUME NEW p \in Procs, Signal(p) PROVE TypeOK'
  BY <1>8 DEF Signal, Labels
<1>9. ASSUME NEW p \in Procs, Lock(p) PROVE TypeOK'
  BY <1>9 DEF Lock, Labels
<1>10. ASSUME NEW p \in Procs, Relock(p) PROVE TypeOK'
  BY <1>10 DEF Relock, Labels
<1>11. ASSUME NEW p \in Procs, Einval(p) PROVE TypeOK'
  BY <1>11, ErrorType DEF Einval, Labels, Codes
<1>12. ASSUME NEW p \in Procs, Enqueue(p) PROVE TypeOK'
  BY <1>12 DEF Enqueue, Labels
<1>13. ASSUME NEW p \in Procs, Proceed(p) PROVE TypeOK'
  BY <1>13 DEF Proceed, Labels
<1>14. ASSUME NEW p \in Procs, WouldBlock(p) PROVE TypeOK'
  BY <1>14, ErrorType DEF WouldBlock, Labels, Codes
<1>15. ASSUME NEW p \in Procs, PrepareSleep(p) PROVE TypeOK'
  BY <1>15 DEF PrepareSleep, Labels
<1>16. ASSUME NEW p \in Procs, UnlockSleep(p) PROVE TypeOK'
  BY <1>16 DEF UnlockSleep, Labels
<1>17. ASSUME NEW p \in Procs, Schedule(p) PROVE TypeOK'
  BY <1>17 DEF Schedule, Labels
<1>18. ASSUME NEW p \in Procs, Interrupted(p) PROVE TypeOK'
  BY <1>18, ErrorType DEF Interrupted, Labels, Codes
<1>19. ASSUME NEW p \in Procs, Retry(p) PROVE TypeOK'
  BY <1>19 DEF Retry, Labels
<1>20. ASSUME NEW p \in Procs, ReadCopy(p) PROVE TypeOK'
  <2> DEFINE n == Lesser(call[p].count, current_len)
             d == [i \in 1 .. n |-> mem[i - 1]]
  <2>1. n \in 0 .. current_len
    BY DEF Lesser, CallType
  <2>2. n \in Nat /\ d \in [1 .. n -> Byte]
    BY <2>1 DEF Index
  <2> HIDE DEF n, d
  <2>3. d \in Seq(Byte)
    BY <2>2, FunctionIsSeq
  <2>4. [code |-> "OK", mask |-> {}, data |-> d] \in RetType
    BY <2>3 DEF RetType, Codes
  <2>5. Error("EFAULT") \in RetType
    BY ErrorType DEF Codes
  <2>6. ret' \in [Procs -> RetType]
    BY <1>20, <2>4, <2>5 DEF ReadCopy, n, d
  <2> QED
    BY <1>20, <2>6 DEF ReadCopy, Labels
<1>21. ASSUME NEW p \in Procs, ReadShift(p) PROVE TypeOK'
  <2>1. Len(ret[p].data) \in 0 .. current_len
    BY <1>21, ShiftLength DEF ReadShift
  <2>2. current_len' \in 0 .. SIZE
    BY <1>21, <2>1 DEF ReadShift
  <2>3. mem' \in [Index -> Byte]
    BY <1>21, <2>1 DEF ReadShift, Index
  <2> QED
    BY <1>21, <2>2, <2>3 DEF ReadShift, Labels
<1>22. ASSUME NEW p \in Procs, WriteCopy(p) PROVE TypeOK'
  <2> DEFINE n == Lesser(Len(call[p].data), SIZE - current_len)
             stored(good) == [i \in Index |->
               IF i \in current_len .. current_len + n - 1
               THEN IF i < current_len + good
                    THEN call[p].data[i - current_len + 1] ELSE Zero
               ELSE mem[i]]
  <2>1. /\ call[p].data \in Seq(Byte)
        /\ Len(call[p].data) \in Nat
    BY LenProperties DEF CallType
  <2>2. n \in 0 .. Len(call[p].data) /\ n + current_len <= SIZE
    BY <2>1 DEF Lesser
  <2>3. \A i \in 1 .. n : call[p].data[i] \in Byte
    BY <2>1, <2>2, ElementOfSeq
  <2>4. ASSUME NEW good \in 0 .. n PROVE stored(good) \in [Index -> Byte]
    BY <2>2, <2>3 DEF Index
  <2>5. [code |-> "OK", mask |-> {}, data |-> SubSeq(call[p].data, 1, n)]
          \in RetType
    BY <2>1, <2>2, PrefixIsSeq DEF RetType, Codes
  <2>6. Error("EFAULT") \in RetType
    BY ErrorType DEF Codes
  <2>7. \E good \in 0 .. n : mem' = stored(good)
    <3>1. n \in 0 .. n
      BY <2>1, <2>2
    <3> QED
      BY <1>22, <3>1 DEF WriteCopy
  <2>8. mem' \in [Index -> Byte]
    BY <2>4, <2>7
  <2>9. ret' \in [Procs -> RetType]
    BY <1>22, <2>5, <2>6 DEF WriteCopy
  <2> QED
    BY <1>22, <2>8, <2>9 DEF WriteCopy, Labels
<1>23. ASSUME NEW p \in Procs, WriteCommit(p) PROVE TypeOK'
  <2>1. Len(ret[p].data) \in 0 .. SIZE - current_len
    BY <1>23, CommitLength DEF WriteCommit
  <2>2. current_len' \in 0 .. SIZE
    BY <1>23, <2>1 DEF WriteCommit
  <2> QED
    BY <1>23, <2>2 DEF WriteCommit, Labels
<1>24. ASSUME NEW p \in Procs, Wake(p) PROVE TypeOK'
  BY <1>24 DEF Wake, Labels
<1>25. ASSUME NEW p \in Procs, Sigio(p) PROVE TypeOK'
  BY <1>25 DEF Sigio, Labels
<1>26. ASSUME NEW p \in Procs, Clear(p) PROVE TypeOK'
  BY <1>26, ErrorType DEF Clear, Labels, Codes
<1>27. ASSUME NEW p \in Procs, Scan(p) PROVE TypeOK'
  <2> DEFINE hit == ((IF current_len # 0 THEN {"in"} ELSE {}) \cup
                      (IF current_len # SIZE THEN {"out"} ELSE {}))
                      \cap call[p].want
  <2>1. hit \in SUBSET {"in", "out"}
    OBVIOUS
  <2>2. [code |-> "OK", data |-> <<>>, mask |-> hit] \in RetType
    BY <2>1, EmptySeq DEF RetType, Codes
  <2> HIDE DEF hit
  <2>3. ret' \in [Procs -> RetType]
    BY <1>27, <2>2, ErrorType DEF Scan, hit
  <2> QED
    BY <1>27, <2>3 DEF Scan, Labels
<1>28. ASSUME NEW p \in Procs, PollDecide(p) PROVE TypeOK'
  BY <1>28, ErrorType DEF PollDecide, Labels, Codes
<1>29. ASSUME NEW p \in Procs, Unlock(p) PROVE TypeOK'
  BY <1>29 DEF Unlock, Labels
<1>30. ASSUME NEW p \in Procs, Dequeue(p) PROVE TypeOK'
  BY <1>30 DEF Dequeue, Labels
<1>31. ASSUME NEW p \in Procs, Return(p) PROVE TypeOK'
  BY <1>31, ErrorType, EmptySeq DEF Return, Labels, NoCall, CallType
<1> QED
  BY StepCases, <1>1, <1>2, <1>3, <1>4, <1>5, <1>6, <1>7, <1>8, <1>9, <1>10,
     <1>11, <1>12, <1>13, <1>14, <1>15, <1>16, <1>17, <1>18, <1>19, <1>20,
     <1>21, <1>22, <1>23, <1>24, <1>25, <1>26, <1>27, <1>28, <1>29, <1>30,
     <1>31

\* While p is between lock and unlock no other process is.
LEMMA OthersOut ==
  ASSUME MutexHeldInCritical, NEW p \in Procs, NEW q \in Procs, p # q,
         pc[p] \in Critical
  PROVE  pc[q] \notin {"copy", "shift", "commit"}
BY DEF MutexHeldInCritical, Critical

\* A process's copied data stays good while the FIFO and the process do.
LEMMA CopyFrame ==
  ASSUME NEW q \in Procs, CopyOK(q), UNCHANGED fifo,
         pc'[q] = pc[q], call'[q] = call[q], ret'[q] = ret[q]
  PROVE  CopyOK(q)'
BY DEF CopyOK, Blocked

LEMMA CopyVacuous ==
  ASSUME NEW q \in Procs, pc'[q] \notin {"copy", "shift", "commit"}
  PROVE  CopyOK(q)'
BY DEF CopyOK

\* The two ways a step keeps CopyInv: it leaves the FIFO alone, or the
\* process that takes it holds the mutex.
LEMMA CopyKeep ==
  ASSUME CopyInv, NEW p \in Procs, UNCHANGED fifo,
         \A q \in Procs \ {p} :
           pc'[q] = pc[q] /\ call'[q] = call[q] /\ ret'[q] = ret[q],
         pc'[p] \notin {"copy", "shift", "commit"}
  PROVE  CopyInv'
BY CopyFrame, CopyVacuous DEF CopyInv

LEMMA CopyAlone ==
  ASSUME MutexHeldInCritical, NEW p \in Procs, pc[p] \in Critical,
         \A q \in Procs \ {p} : pc'[q] = pc[q],
         CopyOK(p)'
  PROVE  CopyInv'
BY OthersOut, CopyVacuous DEF CopyInv

\* Every step keeps what the copies have prepared.
LEMMA CopyStep ==
  ASSUME TypeOK, Control, CopyInv, [Next]_vars
  PROVE  CopyInv'
<1> USE DEF TypeOK
<1>1. CASE UNCHANGED vars
  BY <1>1, CopyFrame DEF vars, CopyInv
<1>2. CASE Probe
  BY <1>2, CopyVacuous DEF Probe, CopyInv, Control, FileInv
<1>3. CASE Remove
  BY <1>3, CopyFrame DEF Remove, CopyInv
<1>4. ASSUME NEW p \in Procs, OpenFile(p) PROVE CopyInv'
  BY <1>4, CopyFrame DEF OpenFile, CopyInv
<1>5. ASSUME NEW p \in Procs, Fasync(p) PROVE CopyInv'
  BY <1>5, CopyFrame DEF Fasync, CopyInv
<1>6. ASSUME NEW p \in Procs, Release(p) PROVE CopyInv'
  BY <1>6, CopyFrame DEF Release, CopyInv
<1>7. ASSUME NEW p \in Procs, Invoke(p) PROVE CopyInv'
  BY <1>7, CopyKeep DEF Invoke
<1>8. ASSUME NEW p \in Procs, Signal(p) PROVE CopyInv'
  BY <1>8, CopyFrame DEF Signal, CopyInv
<1>9. ASSUME NEW p \in Procs, Lock(p) PROVE CopyInv'
  BY <1>9, CopyKeep DEF Lock
<1>10. ASSUME NEW p \in Procs, Relock(p) PROVE CopyInv'
  BY <1>10, CopyKeep DEF Relock
<1>11. ASSUME NEW p \in Procs, Einval(p) PROVE CopyInv'
  BY <1>11, CopyKeep DEF Einval
<1>12. ASSUME NEW p \in Procs, Enqueue(p) PROVE CopyInv'
  BY <1>12, CopyKeep DEF Enqueue
<1>13. ASSUME NEW p \in Procs, Proceed(p) PROVE CopyInv'
  BY <1>13, CopyAlone DEF Proceed, Control, Critical, CopyOK, Blocked
<1>14. ASSUME NEW p \in Procs, WouldBlock(p) PROVE CopyInv'
  BY <1>14, CopyKeep DEF WouldBlock
<1>15. ASSUME NEW p \in Procs, PrepareSleep(p) PROVE CopyInv'
  BY <1>15, CopyKeep DEF PrepareSleep
<1>16. ASSUME NEW p \in Procs, UnlockSleep(p) PROVE CopyInv'
  BY <1>16, CopyKeep DEF UnlockSleep
<1>17. ASSUME NEW p \in Procs, Schedule(p) PROVE CopyInv'
  BY <1>17, CopyKeep DEF Schedule
<1>18. ASSUME NEW p \in Procs, Interrupted(p) PROVE CopyInv'
  BY <1>18, CopyKeep DEF Interrupted
<1>19. ASSUME NEW p \in Procs, Retry(p) PROVE CopyInv'
  BY <1>19, CopyKeep DEF Retry
<1>20. ASSUME NEW p \in Procs, ReadCopy(p) PROVE CopyInv'
  <2> DEFINE n == Lesser(call[p].count, current_len)
             r == [code |-> "OK", mask |-> {},
                   data |-> [i \in 1 .. n |-> mem[i - 1]]]
  <2>1. pc[p] = "copy" /\ pc[p] \in Critical
    BY <1>20 DEF ReadCopy, Critical
  <2>2. current_len # 0
    BY <1>20, <2>1 DEF ReadCopy, CopyInv, CopyOK, Blocked
  <2>3. UNCHANGED <<fifo, call>> /\ \A q \in Procs \ {p} : pc'[q] = pc[q]
    BY <1>20 DEF ReadCopy
  <2>4. CASE pc' = [pc EXCEPT ![p] = "unlock"]
    BY <2>1, <2>3, <2>4, CopyAlone, CopyVacuous DEF Control
  <2>5. CASE /\ pc' = [pc EXCEPT ![p] = "shift"]
             /\ ret' = [ret EXCEPT ![p] = r]
    <3>1. pc'[p] = "shift" /\ ret'[p] = r
      BY <2>5
    <3>2. CopyOK(p)'
      BY <2>2, <2>3, <3>1 DEF CopyOK
    <3> QED
      BY <2>1, <2>3, <3>2, CopyAlone DEF Control
  <2> QED
    BY <1>20, <2>4, <2>5 DEF ReadCopy
<1>21. ASSUME NEW p \in Procs, ReadShift(p) PROVE CopyInv'
  BY <1>21, CopyAlone, CopyVacuous DEF ReadShift, Control, Critical
<1>22. ASSUME NEW p \in Procs, WriteCopy(p) PROVE CopyInv'
  <2> DEFINE n == Lesser(Len(call[p].data), SIZE - current_len)
             r == [code |-> "OK", mask |-> {},
                   data |-> SubSeq(call[p].data, 1, n)]
             stored(good) == [i \in Index |->
               IF i \in current_len .. current_len + n - 1
               THEN IF i < current_len + good
                    THEN call[p].data[i - current_len + 1] ELSE Zero
               ELSE mem[i]]
  <2>1. pc[p] = "copy" /\ pc[p] \in Critical
    BY <1>22 DEF WriteCopy, Critical
  <2>2. current_len # SIZE
    BY <1>22, <2>1 DEF WriteCopy, CopyInv, CopyOK, Blocked
  <2>3. /\ UNCHANGED <<current_len, call>>
        /\ \A q \in Procs \ {p} : pc'[q] = pc[q]
    BY <1>22 DEF WriteCopy
  <2>4. CASE pc' = [pc EXCEPT ![p] = "unlock"]
    BY <2>1, <2>3, <2>4, CopyAlone, CopyVacuous DEF Control
  <2>5. CASE /\ pc' = [pc EXCEPT ![p] = "commit"]
             /\ ret' = [ret EXCEPT ![p] = r]
             /\ mem' = stored(n)
    <3>1. pc'[p] = "commit" /\ ret'[p] = r
      BY <2>5
    <3>2. n \in Nat /\ current_len + n <= SIZE
      <4>1. Len(call[p].data) \in Nat
        BY LenProperties DEF CallType
      <4> QED
        BY <4>1 DEF Lesser
    <3>3. ASSUME NEW i \in 1 .. n
          PROVE  mem'[current_len + i - 1] = call[p].data[i]
      <4>1. /\ current_len \in Nat
            /\ current_len + i - 1 \in Index
            /\ current_len + i - 1 \in current_len .. current_len + n - 1
            /\ current_len + i - 1 < current_len + n
            /\ (current_len + i - 1) - current_len + 1 = i
        BY <3>2 DEF Index
      <4> HIDE DEF n
      <4>2. stored(n)[current_len + i - 1] = call[p].data[i]
        BY <4>1
      <4> HIDE DEF stored
      <4> QED
        BY <2>5, <4>2
    <3>4. CopyOK(p)'
      BY <2>2, <2>3, <3>1, <3>3 DEF CopyOK
    <3> QED
      BY <2>1, <2>3, <3>4, CopyAlone DEF Control
  <2> QED
    BY <1>22, <2>4, <2>5 DEF WriteCopy
<1>23. ASSUME NEW p \in Procs, WriteCommit(p) PROVE CopyInv'
  BY <1>23, CopyAlone, CopyVacuous DEF WriteCommit, Control, Critical
<1>24. ASSUME NEW p \in Procs, Wake(p) PROVE CopyInv'
  BY <1>24, CopyKeep DEF Wake
<1>25. ASSUME NEW p \in Procs, Sigio(p) PROVE CopyInv'
  BY <1>25, CopyKeep DEF Sigio
<1>26. ASSUME NEW p \in Procs, Clear(p) PROVE CopyInv'
  BY <1>26, CopyAlone, CopyVacuous DEF Clear, Control, Critical
<1>27. ASSUME NEW p \in Procs, Scan(p) PROVE CopyInv'
  BY <1>27, CopyKeep DEF Scan
<1>28. ASSUME NEW p \in Procs, PollDecide(p) PROVE CopyInv'
  BY <1>28, CopyKeep DEF PollDecide
<1>29. ASSUME NEW p \in Procs, Unlock(p) PROVE CopyInv'
  BY <1>29, CopyKeep DEF Unlock
<1>30. ASSUME NEW p \in Procs, Dequeue(p) PROVE CopyInv'
  BY <1>30, CopyKeep DEF Dequeue
<1>31. ASSUME NEW p \in Procs, Return(p) PROVE CopyInv'
  BY <1>31, CopyKeep DEF Return
<1> QED
  BY StepCases, <1>1, <1>2, <1>3, <1>4, <1>5, <1>6, <1>7, <1>8, <1>9, <1>10,
     <1>11, <1>12, <1>13, <1>14, <1>15, <1>16, <1>17, <1>18, <1>19, <1>20,
     <1>21, <1>22, <1>23, <1>24, <1>25, <1>26, <1>27, <1>28, <1>29, <1>30,
     <1>31

\* A step of p that leaves the FIFO and the others alone, is not a wake_up,
\* and does not put p to sleep over data keeps NoLostReadWakeup.
LEMMA WakeupFrame ==
  ASSUME NoLostReadWakeup, NEW p \in Procs, pc[p] # "wake",
         current_len' = current_len,
         \A q \in Procs \ {p} : /\ pc'[q] = pc[q] /\ call'[q] = call[q]
                                /\ ret'[q] = ret[q] /\ state'[q] = state[q],
         (Waiting(p) /\ Wanting(p, "read", "in"))' =>
           current_len = 0 \/ (Waiting(p) /\ Wanting(p, "read", "in"))
  PROVE  NoLostReadWakeup'
<1> SUFFICES ASSUME NEW q \in Procs, (Waiting(q) /\ Wanting(q, "read", "in"))',
                    current_len # 0
             PROVE  AboutToWake("write")'
  BY DEF NoLostReadWakeup
<1>1. Waiting(q) /\ Wanting(q, "read", "in")
  BY DEF Waiting, Wanting
<1>2. PICK w \in Procs : pc[w] = "wake" /\ call[w].op = "write"
  BY <1>1 DEF NoLostReadWakeup, AboutToWake
<1> QED
  BY <1>2 DEF AboutToWake

\* Every step keeps a sleeping reader informed: only a writer makes the FIFO
\* non-empty, and its next step, mutex in hand, wakes all of r_wait.
LEMMA WakeupStep ==
  ASSUME TypeOK, Control, CopyInv, NoLostReadWakeup, [Next]_vars
  PROVE  NoLostReadWakeup'
<1> USE DEF TypeOK, NoLostReadWakeup, Waiting, Wanting, AboutToWake
<1>1. CASE UNCHANGED vars
  BY <1>1 DEF vars
<1>2. CASE Probe
  BY <1>2 DEF Probe
<1>3. CASE Remove
  BY <1>3 DEF Remove
<1>4. ASSUME NEW p \in Procs, OpenFile(p) PROVE NoLostReadWakeup'
  BY <1>4 DEF OpenFile
<1>5. ASSUME NEW p \in Procs, Fasync(p) PROVE NoLostReadWakeup'
  BY <1>5 DEF Fasync
<1>6. ASSUME NEW p \in Procs, Release(p) PROVE NoLostReadWakeup'
  BY <1>6 DEF Release
<1>7. ASSUME NEW p \in Procs, Invoke(p) PROVE NoLostReadWakeup'
  BY <1>7 DEF Invoke
<1>8. ASSUME NEW p \in Procs, Signal(p) PROVE NoLostReadWakeup'
  BY <1>8 DEF Signal
<1>9. ASSUME NEW p \in Procs, Lock(p) PROVE NoLostReadWakeup'
  BY <1>9 DEF Lock
<1>10. ASSUME NEW p \in Procs, Relock(p) PROVE NoLostReadWakeup'
  BY <1>10 DEF Relock
<1>11. ASSUME NEW p \in Procs, Einval(p) PROVE NoLostReadWakeup'
  BY <1>11 DEF Einval
<1>12. ASSUME NEW p \in Procs, Enqueue(p) PROVE NoLostReadWakeup'
  BY <1>12 DEF Enqueue
<1>13. ASSUME NEW p \in Procs, Proceed(p) PROVE NoLostReadWakeup'
  BY <1>13 DEF Proceed
<1>14. ASSUME NEW p \in Procs, WouldBlock(p) PROVE NoLostReadWakeup'
  <2>1. ~Waiting(p)'
    BY <1>14 DEF WouldBlock, Control, LabelInv
  <2> QED
    BY <1>14, <2>1, WakeupFrame DEF WouldBlock
<1>15. ASSUME NEW p \in Procs, PrepareSleep(p) PROVE NoLostReadWakeup'
  <2>1. Wanting(p, "read", "in")' => current_len = 0
    BY <1>15 DEF PrepareSleep, Control, LabelInv, Blocked
  <2> QED
    BY <1>15, <2>1, WakeupFrame DEF PrepareSleep
<1>16. ASSUME NEW p \in Procs, UnlockSleep(p) PROVE NoLostReadWakeup'
  BY <1>16 DEF UnlockSleep
<1>17. ASSUME NEW p \in Procs, Schedule(p) PROVE NoLostReadWakeup'
  BY <1>17 DEF Schedule
<1>18. ASSUME NEW p \in Procs, Interrupted(p) PROVE NoLostReadWakeup'
  BY <1>18 DEF Interrupted
<1>19. ASSUME NEW p \in Procs, Retry(p) PROVE NoLostReadWakeup'
  BY <1>19 DEF Retry
<1>20. ASSUME NEW p \in Procs, ReadCopy(p) PROVE NoLostReadWakeup'
  BY <1>20 DEF ReadCopy
<1>21. ASSUME NEW p \in Procs, ReadShift(p) PROVE NoLostReadWakeup'
  <2>1. current_len # 0
    BY <1>21 DEF ReadShift, CopyInv, CopyOK
  <2>2. \A w \in Procs : pc[w] # "wake"
    BY <1>21 DEF ReadShift, Control, MutexHeldInCritical, Critical
  <2>3. \A q \in Procs : ~(Waiting(q) /\ Wanting(q, "read", "in"))
    BY <2>1, <2>2
  <2>4. ~Waiting(p)'
    BY <1>21 DEF ReadShift
  <2>5. \A q \in Procs : ~(Waiting(q) /\ Wanting(q, "read", "in"))'
    BY <1>21, <2>3, <2>4 DEF ReadShift
  <2> QED
    BY <2>5
<1>22. ASSUME NEW p \in Procs, WriteCopy(p) PROVE NoLostReadWakeup'
  BY <1>22 DEF WriteCopy
<1>23. ASSUME NEW p \in Procs, WriteCommit(p) PROVE NoLostReadWakeup'
  <2>1. pc'[p] = "wake" /\ call'[p].op = "write"
    BY <1>23 DEF WriteCommit, Control, LabelInv
  <2> QED
    BY <2>1
<1>24. ASSUME NEW p \in Procs, Wake(p) PROVE NoLostReadWakeup'
  <2>1. CASE call[p].op = "read"
    <3>1. \A q \in Procs : (Waiting(q) /\ Wanting(q, "read", "in"))'
                             => Waiting(q) /\ Wanting(q, "read", "in")
      BY <1>24 DEF Wake
    <3>2. AboutToWake("write") => AboutToWake("write")'
      BY <1>24, <2>1 DEF Wake
    <3>3. UNCHANGED current_len
      BY <1>24 DEF Wake
    <3> QED
      BY <3>1, <3>2, <3>3
  <2>2. CASE call[p].op # "read"
    <3>1. \A q \in Procs : q \in wait["r"] => state'[q] = "RUNNING"
      BY <1>24, <2>2 DEF Wake
    <3>2. \A q \in Procs : (Waiting(q) /\ Wanting(q, "read", "in"))'
                             => q \in wait["r"]
      BY <1>24 DEF Wake, Control, QueueInv, Queued, QueuesOf
    <3> QED
      BY <3>1, <3>2
  <2> QED
    BY <2>1, <2>2
<1>25. ASSUME NEW p \in Procs, Sigio(p) PROVE NoLostReadWakeup'
  <2>1. ~Waiting(p)'
    BY <1>25 DEF Sigio, Control, LabelInv
  <2> QED
    BY <1>25, <2>1, WakeupFrame DEF Sigio
<1>26. ASSUME NEW p \in Procs, Clear(p) PROVE NoLostReadWakeup'
  BY <1>26 DEF Clear
<1>27. ASSUME NEW p \in Procs, Scan(p) PROVE NoLostReadWakeup'
  <2>1. (Waiting(p) /\ Wanting(p, "read", "in"))' => current_len = 0
    BY <1>27, ResultFacts DEF Scan, Control, LabelInv
  <2> QED
    BY <1>27, <2>1, WakeupFrame DEF Scan
<1>28. ASSUME NEW p \in Procs, PollDecide(p) PROVE NoLostReadWakeup'
  <2>1. (Waiting(p) /\ Wanting(p, "read", "in"))'
          => Waiting(p) /\ Wanting(p, "read", "in")
    BY <1>28 DEF PollDecide, Control, LabelInv
  <2> QED
    BY <1>28, <2>1, WakeupFrame DEF PollDecide
<1>29. ASSUME NEW p \in Procs, Unlock(p) PROVE NoLostReadWakeup'
  BY <1>29 DEF Unlock
<1>30. ASSUME NEW p \in Procs, Dequeue(p) PROVE NoLostReadWakeup'
  BY <1>30 DEF Dequeue
<1>31. ASSUME NEW p \in Procs, Return(p) PROVE NoLostReadWakeup'
  BY <1>31 DEF Return
<1> QED
  BY StepCases, <1>1, <1>2, <1>3, <1>4, <1>5, <1>6, <1>7, <1>8, <1>9, <1>10,
     <1>11, <1>12, <1>13, <1>14, <1>15, <1>16, <1>17, <1>18, <1>19, <1>20,
     <1>21, <1>22, <1>23, <1>24, <1>25, <1>26, <1>27, <1>28, <1>29, <1>30,
     <1>31

\* The invariant holds initially.
LEMMA InitInv == Init => IInv
<1> SUFFICES ASSUME Init PROVE IInv
  OBVIOUS
<1> USE DEF Init
<1>1. TypeOK
  <2>1. NoCall \in CallType
    BY EmptySeq DEF NoCall, CallType
  <2>2. mem \in [Index -> Byte] /\ wait \in [{"r", "w"} -> SUBSET Procs]
    OBVIOUS
  <2>3. call \in [Procs -> CallType] /\ ret \in [Procs -> RetType]
    BY <2>1, ErrorType
  <2>4. pc \in [Procs -> Labels]
    BY DEF Labels
  <2>5. /\ registered \in BOOLEAN /\ gone \in BOOLEAN
        /\ file \in [Procs -> {"closed", "block", "nonblock"}]
        /\ mutex \in Procs \cup {NoProc}
        /\ async_queue \in SUBSET Procs
    OBVIOUS
  <2>6. /\ current_len \in 0 .. SIZE
        /\ state \in [Procs -> {"RUNNING", "INTERRUPTIBLE"}]
        /\ sig \in [Procs -> BOOLEAN]
    OBVIOUS
  <2> HIDE DEF Init
  <2> QED
    BY <2>2, <2>3, <2>4, <2>5, <2>6 DEF TypeOK
<1>2. Control
  BY DEF Control, MutexHeldInCritical, LabelInv, QueueInv, StateInv, FileInv,
         RetInv, Critical, Queued, Undecided, NoCall, NoRet
<1>3. CopyInv /\ NoLostReadWakeup
  BY DEF CopyInv, CopyOK, NoLostReadWakeup, Waiting
<1> QED
  BY <1>1, <1>2, <1>3 DEF IInv, Control

\* IInv is an inductive invariant of the driver: types, control, the data in
\* flight and the wakeups together.
THEOREM Inductive == Spec => []IInv
<1>1. IInv /\ [Next]_vars => IInv'
  BY TypeStep, ControlStep, CopyStep, WakeupStep DEF IInv, Control
<1> QED
  BY <1>1, InitInv, PTL DEF Spec

\* The types hold for every number of processes and every SIZE; in particular
\* current_len never leaves 0 .. SIZE.
THEOREM TypeCorrect == Spec => []TypeOK
<1>1. IInv => TypeOK
  BY DEF IInv
<1> QED
  BY <1>1, Inductive, PTL

\* read, write, poll and FIFO_CLEAR exclude each other between lock and unlock,
\* and every path unlocks what it locked.
THEOREM MutualExclusion == Spec => []MutexHeldInCritical
<1>1. IInv => MutexHeldInCritical
  BY DEF IInv
<1> QED
  BY <1>1, Inductive, PTL

\* No process sleeps in read or in a poll for input while the FIFO holds data,
\* but for the instant before the writer's wake_up_interruptible; FIFO_CLEAR
\* and signals included.
THEOREM ReadersAreWoken == Spec => []NoLostReadWakeup
<1>1. IInv => NoLostReadWakeup
  BY DEF IInv
<1> QED
  BY <1>1, Inductive, PTL

\* Whoever sleeps is on the queue that its waker scans.
THEOREM SleepersAreQueued == Spec => []WaiterIsQueued
<1>1. IInv => WaiterIsQueued
  BY DEF IInv, WaiterIsQueued, Waiting, QueueInv, Queued, QueuesOf
<1> QED
  BY <1>1, Inductive, PTL

\* No call returns to user mode with its entry, which is on its stack, still on
\* a queue, or in a state other than TASK_RUNNING.
THEOREM ReturnsClean == Spec => []NoStaleWaiter
<1>1. IInv => NoStaleWaiter
  BY DEF IInv, TypeOK, NoStaleWaiter, QueueInv, Queued, StateInv, LabelInv
<1> QED
  BY <1>1, Inductive, PTL
-----------------------------------------------------------------------------
(* The wakeups of the writers.                                             *)

\* Nobody issues FIFO_CLEAR, which makes room and wakes nobody.
NobodyClears == \A p \in Procs : "clear" \notin May[p]

\* IInv, and the wakeups of the writers with the fact they need.
WriterInv == IInv /\ NoLostWriteWakeup /\ \A p \in Procs : call[p].op # "clear"

\* Only Invoke starts a call.
LEMMA NoClearStep ==
  ASSUME NobodyClears, TypeOK, \A p \in Procs : call[p].op # "clear",
         [Next]_vars
  PROVE  \A p \in Procs : call'[p].op # "clear"
<1>1. CASE UNCHANGED <<call>>
  BY <1>1
<1>2. ASSUME NEW p \in Procs, Invoke(p)
      PROVE  \A q \in Procs : call'[q].op # "clear"
  <2>1. PICK c \in {c \in Calls : c.op \in May[p]} :
          call' = [call EXCEPT ![p] =
                     [c EXCEPT !.nonblock = (file[p] = "nonblock")]]
    BY <1>2 DEF Invoke
  <2>2. c \in [op : Ops, nonblock : {FALSE}, count : Nat, data : Seq(Byte),
               want : SUBSET {"in", "out"}]
    BY CallAssumption
  <2>3. call'[p].op = c.op /\ c.op # "clear"
    BY <2>1, <2>2 DEF NobodyClears, TypeOK
  <2> QED
    BY <2>1, <2>3 DEF TypeOK
<1>3. ASSUME NEW p \in Procs, Return(p)
      PROVE  \A q \in Procs : call'[q].op # "clear"
  BY <1>3 DEF Return, NoCall, TypeOK
<1>4. \/ UNCHANGED call
      \/ \E p \in Procs : Invoke(p) \/ Return(p)
  BY StepCases
  DEF vars, Probe, Remove, OpenFile, Fasync, Release, Signal, Lock, Relock,
      Einval, Enqueue, Proceed, WouldBlock, PrepareSleep, UnlockSleep, Schedule,
      Interrupted, Retry, ReadCopy, ReadShift, WriteCopy, WriteCommit, Wake,
      Sigio, Clear, Scan, PollDecide, Unlock, Dequeue
<1> QED
  BY <1>1, <1>2, <1>3, <1>4

\* A step of p that leaves the FIFO and the others alone, is not a wake_up,
\* and does not put p to sleep over room keeps NoLostWriteWakeup.
LEMMA WriterFrame ==
  ASSUME NoLostWriteWakeup, NEW p \in Procs, pc[p] # "wake",
         current_len' = current_len,
         \A q \in Procs \ {p} : /\ pc'[q] = pc[q] /\ call'[q] = call[q]
                                /\ ret'[q] = ret[q] /\ state'[q] = state[q],
         (Waiting(p) /\ Wanting(p, "write", "out"))' =>
           current_len = SIZE \/ (Waiting(p) /\ Wanting(p, "write", "out"))
  PROVE  NoLostWriteWakeup'
<1> SUFFICES ASSUME NEW q \in Procs, (Waiting(q) /\ Wanting(q, "write", "out"))',
                    current_len # SIZE
             PROVE  AboutToWake("read")'
  BY DEF NoLostWriteWakeup
<1>1. Waiting(q) /\ Wanting(q, "write", "out")
  BY DEF Waiting, Wanting
<1>2. PICK r \in Procs : pc[r] = "wake" /\ call[r].op = "read"
  BY <1>1 DEF NoLostWriteWakeup, AboutToWake
<1> QED
  BY <1>2 DEF AboutToWake

\* Every step keeps a sleeping writer informed: only a reader makes room, and
\* its next step, mutex in hand, wakes all of w_wait.
LEMMA WriterStep ==
  ASSUME TypeOK, Control, CopyInv, NoLostWriteWakeup, [Next]_vars,
         \A p \in Procs : call[p].op # "clear"
  PROVE  NoLostWriteWakeup'
<1> USE DEF TypeOK, NoLostWriteWakeup, Waiting, Wanting, AboutToWake
<1>1. CASE UNCHANGED vars
  BY <1>1 DEF vars
<1>2. CASE Probe
  BY <1>2 DEF Probe, Control, FileInv
<1>3. CASE Remove
  BY <1>3 DEF Remove
<1>4. ASSUME NEW p \in Procs, OpenFile(p) PROVE NoLostWriteWakeup'
  BY <1>4 DEF OpenFile
<1>5. ASSUME NEW p \in Procs, Fasync(p) PROVE NoLostWriteWakeup'
  BY <1>5 DEF Fasync
<1>6. ASSUME NEW p \in Procs, Release(p) PROVE NoLostWriteWakeup'
  BY <1>6 DEF Release
<1>7. ASSUME NEW p \in Procs, Invoke(p) PROVE NoLostWriteWakeup'
  BY <1>7 DEF Invoke
<1>8. ASSUME NEW p \in Procs, Signal(p) PROVE NoLostWriteWakeup'
  BY <1>8 DEF Signal
<1>9. ASSUME NEW p \in Procs, Lock(p) PROVE NoLostWriteWakeup'
  BY <1>9 DEF Lock
<1>10. ASSUME NEW p \in Procs, Relock(p) PROVE NoLostWriteWakeup'
  BY <1>10 DEF Relock
<1>11. ASSUME NEW p \in Procs, Einval(p) PROVE NoLostWriteWakeup'
  BY <1>11 DEF Einval
<1>12. ASSUME NEW p \in Procs, Enqueue(p) PROVE NoLostWriteWakeup'
  BY <1>12 DEF Enqueue
<1>13. ASSUME NEW p \in Procs, Proceed(p) PROVE NoLostWriteWakeup'
  BY <1>13 DEF Proceed
<1>14. ASSUME NEW p \in Procs, WouldBlock(p) PROVE NoLostWriteWakeup'
  <2>1. ~Waiting(p)'
    BY <1>14 DEF WouldBlock, Control, LabelInv
  <2> QED
    BY <1>14, <2>1, WriterFrame DEF WouldBlock
<1>15. ASSUME NEW p \in Procs, PrepareSleep(p) PROVE NoLostWriteWakeup'
  <2>1. Wanting(p, "write", "out")' => current_len = SIZE
    BY <1>15 DEF PrepareSleep, Control, LabelInv, Blocked
  <2> QED
    BY <1>15, <2>1, WriterFrame DEF PrepareSleep
<1>16. ASSUME NEW p \in Procs, UnlockSleep(p) PROVE NoLostWriteWakeup'
  BY <1>16 DEF UnlockSleep
<1>17. ASSUME NEW p \in Procs, Schedule(p) PROVE NoLostWriteWakeup'
  BY <1>17 DEF Schedule
<1>18. ASSUME NEW p \in Procs, Interrupted(p) PROVE NoLostWriteWakeup'
  BY <1>18 DEF Interrupted
<1>19. ASSUME NEW p \in Procs, Retry(p) PROVE NoLostWriteWakeup'
  BY <1>19 DEF Retry
<1>20. ASSUME NEW p \in Procs, ReadCopy(p) PROVE NoLostWriteWakeup'
  BY <1>20 DEF ReadCopy
<1>21. ASSUME NEW p \in Procs, ReadShift(p) PROVE NoLostWriteWakeup'
  <2>1. pc'[p] = "wake" /\ call'[p].op = "read"
    BY <1>21 DEF ReadShift, Control, LabelInv
  <2> QED
    BY <2>1
<1>22. ASSUME NEW p \in Procs, WriteCopy(p) PROVE NoLostWriteWakeup'
  BY <1>22 DEF WriteCopy
<1>23. ASSUME NEW p \in Procs, WriteCommit(p) PROVE NoLostWriteWakeup'
  <2>1. current_len # SIZE
    BY <1>23 DEF WriteCommit, CopyInv, CopyOK
  <2>2. \A w \in Procs : pc[w] # "wake"
    BY <1>23 DEF WriteCommit, Control, MutexHeldInCritical, Critical
  <2>3. \A q \in Procs : ~(Waiting(q) /\ Wanting(q, "write", "out"))
    BY <2>1, <2>2
  <2>4. ~Waiting(p)'
    BY <1>23 DEF WriteCommit
  <2>5. \A q \in Procs : ~(Waiting(q) /\ Wanting(q, "write", "out"))'
    BY <1>23, <2>3, <2>4 DEF WriteCommit
  <2> QED
    BY <2>5
<1>24. ASSUME NEW p \in Procs, Wake(p) PROVE NoLostWriteWakeup'
  <2>1. CASE call[p].op = "write"
    <3>1. \A q \in Procs : (Waiting(q) /\ Wanting(q, "write", "out"))'
                             => Waiting(q) /\ Wanting(q, "write", "out")
      BY <1>24 DEF Wake
    <3>2. AboutToWake("read") => AboutToWake("read")'
      BY <1>24, <2>1 DEF Wake
    <3>3. UNCHANGED current_len
      BY <1>24 DEF Wake
    <3> QED
      BY <3>1, <3>2, <3>3
  <2>2. CASE call[p].op = "read"
    <3>1. \A q \in Procs : q \in wait["w"] => state'[q] = "RUNNING"
      BY <1>24, <2>2 DEF Wake
    <3>2. \A q \in Procs : (Waiting(q) /\ Wanting(q, "write", "out"))'
                             => q \in wait["w"]
      BY <1>24 DEF Wake, Control, QueueInv, Queued, QueuesOf
    <3> QED
      BY <3>1, <3>2
  <2> QED
    BY <1>24, <2>1, <2>2 DEF Wake, Control, LabelInv
<1>25. ASSUME NEW p \in Procs, Sigio(p) PROVE NoLostWriteWakeup'
  <2>1. ~Waiting(p)'
    BY <1>25 DEF Sigio, Control, LabelInv
  <2> QED
    BY <1>25, <2>1, WriterFrame DEF Sigio
<1>26. ASSUME NEW p \in Procs, Clear(p) PROVE NoLostWriteWakeup'
  BY <1>26 DEF Clear, Control, LabelInv
<1>27. ASSUME NEW p \in Procs, Scan(p) PROVE NoLostWriteWakeup'
  <2>1. (Waiting(p) /\ Wanting(p, "write", "out"))' => current_len = SIZE
    BY <1>27, ResultFacts DEF Scan, Control, LabelInv
  <2> QED
    BY <1>27, <2>1, WriterFrame DEF Scan
<1>28. ASSUME NEW p \in Procs, PollDecide(p) PROVE NoLostWriteWakeup'
  <2>1. (Waiting(p) /\ Wanting(p, "write", "out"))'
          => Waiting(p) /\ Wanting(p, "write", "out")
    BY <1>28 DEF PollDecide, Control, LabelInv
  <2> QED
    BY <1>28, <2>1, WriterFrame DEF PollDecide
<1>29. ASSUME NEW p \in Procs, Unlock(p) PROVE NoLostWriteWakeup'
  BY <1>29 DEF Unlock
<1>30. ASSUME NEW p \in Procs, Dequeue(p) PROVE NoLostWriteWakeup'
  BY <1>30 DEF Dequeue
<1>31. ASSUME NEW p \in Procs, Return(p) PROVE NoLostWriteWakeup'
  BY <1>31 DEF Return
<1> QED
  BY StepCases, <1>1, <1>2, <1>3, <1>4, <1>5, <1>6, <1>7, <1>8, <1>9, <1>10,
     <1>11, <1>12, <1>13, <1>14, <1>15, <1>16, <1>17, <1>18, <1>19, <1>20,
     <1>21, <1>22, <1>23, <1>24, <1>25, <1>26, <1>27, <1>28, <1>29, <1>30,
     <1>31

\* No process sleeps in write or in a poll for output while the FIFO has room,
\* but for the instant before the reader's wake_up_interruptible: as long as
\* nobody empties the FIFO by ioctl, whatever signals and faults there are.
THEOREM WritersAreWoken ==
  ASSUME NobodyClears
  PROVE  Spec => []NoLostWriteWakeup
<1>1. Init => WriterInv
  BY InitInv DEF WriterInv, Init, NoLostWriteWakeup, Waiting, NoCall
<1>2. WriterInv /\ [Next]_vars => WriterInv'
  BY TypeStep, ControlStep, CopyStep, WakeupStep, WriterStep, NoClearStep
  DEF IInv, Control, WriterInv
<1>3. WriterInv => NoLostWriteWakeup
  BY DEF WriterInv
<1> QED
  BY <1>1, <1>2, <1>3, PTL DEF Spec
-----------------------------------------------------------------------------
(* The driver implements ByteQueue.                                        *)

\* The steps at which the data is copied and current_len is not yet updated.
Halfway == {"shift", "commit"}

\* What the refinement needs of the calls besides IInv: none is in progress
\* outside a system call, and a nonblocking read or write does not sleep.
CallInv ==
  \A p \in Procs :
    /\ pc[p] = "idle" => call[p] = NoCall
    /\ pc[p] \in {"unlock_sleep", "schedule", "woken"} /\ call[p].op # "poll"
         => ~call[p].nonblock

\* Every step keeps CallInv.
LEMMA CallStep ==
  ASSUME TypeOK, Control, CallInv, [Next]_vars
  PROVE  CallInv'
<1> USE DEF TypeOK, CallInv
<1>1. CASE UNCHANGED <<pc, call>>
  BY <1>1
<1>2. ASSUME NEW p \in Procs, NEW l, pc' = [pc EXCEPT ![p] = l], UNCHANGED call,
             l \notin {"idle", "unlock_sleep", "schedule", "woken"}
      PROVE  CallInv'
  BY <1>2
<1>3. ASSUME NEW p \in Procs, Invoke(p) PROVE CallInv'
  BY <1>3 DEF Invoke
<1>4. ASSUME NEW p \in Procs, PrepareSleep(p) \/ UnlockSleep(p) PROVE CallInv'
  BY <1>4 DEF PrepareSleep, UnlockSleep
<1>5. ASSUME NEW p \in Procs, Schedule(p) PROVE CallInv'
  BY <1>5 DEF Schedule
<1>6. ASSUME NEW p \in Procs, PollDecide(p) PROVE CallInv'
  BY <1>6 DEF PollDecide, Control, LabelInv
<1>7. ASSUME NEW p \in Procs, Return(p) PROVE CallInv'
  BY <1>7 DEF Return
<1>8. ASSUME NEW p \in Procs,
             \/ Lock(p) \/ Relock(p) \/ Einval(p) \/ Enqueue(p) \/ Proceed(p)
             \/ WouldBlock(p) \/ Interrupted(p) \/ Retry(p) \/ ReadCopy(p)
             \/ ReadShift(p) \/ WriteCopy(p) \/ WriteCommit(p) \/ Wake(p)
             \/ Sigio(p) \/ Clear(p) \/ Scan(p) \/ Unlock(p) \/ Dequeue(p)
      PROVE  CallInv'
  <2>1. UNCHANGED call
    BY <1>8 DEF Lock, Relock, Einval, Enqueue, Proceed, WouldBlock, Interrupted,
                Retry, ReadCopy, ReadShift, WriteCopy, WriteCommit, Wake, Sigio,
                Clear, Scan, Unlock, Dequeue
  <2>2. \E l : /\ pc' = [pc EXCEPT ![p] = l]
               /\ l \notin {"idle", "unlock_sleep", "schedule", "woken"}
    BY <1>8 DEF Lock, Relock, Einval, Enqueue, Proceed, WouldBlock, Interrupted,
                Retry, ReadCopy, ReadShift, WriteCopy, WriteCommit, Wake, Sigio,
                Clear, Scan, Unlock, Dequeue
  <2> QED
    BY <1>2, <2>1, <2>2
<1>9. ASSUME Probe \/ Remove PROVE CallInv'
  BY <1>1, <1>9 DEF Probe, Remove
<1>10. ASSUME NEW p \in Procs,
              OpenFile(p) \/ Fasync(p) \/ Release(p) \/ Signal(p)
       PROVE  CallInv'
  BY <1>1, <1>10 DEF OpenFile, Fasync, Release, Signal
<1>11. CASE UNCHANGED vars
  BY <1>1, <1>11 DEF vars
<1> QED
  BY StepCases, <1>3, <1>4, <1>5, <1>6, <1>7, <1>8, <1>9, <1>10, <1>11

\* A step that leaves the FIFO, the calls and their results alone, and enters
\* or leaves no update of current_len, is a stutter.
LEMMA Stutters ==
  ASSUME UNCHANGED <<fifo, call, ret>>,
         \A q \in Procs : pc'[q] \in Halfway <=> pc[q] \in Halfway
  PROVE  UNCHANGED Abstract!qvars
<1>1. Contents' = Contents
  BY DEF Contents
<1>2. Effective' = Effective
  BY DEF Effective, Halfway
<1> QED
  BY <1>1, <1>2 DEF Abstract!qvars

\* A step that records a result finishes the call of the queue.
LEMMA Finishes ==
  ASSUME TypeOK, NEW p \in Procs, NEW r, UNCHANGED call,
         ret' = [ret EXCEPT ![p] = r],
         pc[p] \notin Halfway, pc'[p] \notin Halfway,
         \A q \in Procs \ {p} : pc'[q] = pc[q]
  PROVE  Abstract!Finish(p, r)
<1>1. ASSUME NEW q \in Procs
      PROVE  Effective'[q] = IF q = p THEN r ELSE Effective[q]
  BY DEF Effective, Halfway, TypeOK
<1>2. Effective' = [Effective EXCEPT ![p] = r]
  <2>1. /\ Effective = [q \in Procs |-> Effective[q]]
        /\ Effective' = [q \in Procs |-> Effective'[q]]
    BY DEF Effective
  <2> HIDE DEF Effective
  <2> QED
    BY <1>1, <2>1
<1> QED
  BY <1>2 DEF Abstract!Finish

\* The contents as a sequence, for any length and memory.
LEMMA SequenceIs ==
  ASSUME NEW len \in 0 .. SIZE, NEW m \in [Index -> Byte],
         NEW c, c = [i \in 1 .. len |-> m[i - 1]]
  PROVE  /\ c \in Seq(Byte) /\ Len(c) = len
         /\ \A i \in 1 .. len : c[i] = m[i - 1]
<1>1. len \in Nat /\ c \in [1 .. len -> Byte]
  BY DEF Index
<1>2. c \in Seq(Byte) /\ Len(c) = len
  BY <1>1, FunctionIsSeq
<1> QED
  BY <1>2

LEMMA ContentsFacts ==
  ASSUME TypeOK
  PROVE  /\ Contents \in Seq(Byte) /\ Len(Contents) = current_len
         /\ \A i \in 1 .. current_len : Contents[i] = mem[i - 1]
         /\ Contents = <<>> <=> current_len = 0
<1>1. /\ current_len \in 0 .. SIZE /\ mem \in [Index -> Byte]
      /\ Contents = [i \in 1 .. current_len |-> mem[i - 1]]
  BY DEF TypeOK, Contents
<1> HIDE DEF Contents
<1>2. /\ Contents \in Seq(Byte) /\ Len(Contents) = current_len
      /\ \A i \in 1 .. current_len : Contents[i] = mem[i - 1]
  BY <1>1, SequenceIs
<1>3. Contents = <<>> <=> current_len = 0
  BY <1>2, EmptySeq
<1> QED
  BY <1>2, <1>3

\* A call whose result is undecided is open for the queue.
LEMMA OpenCalls ==
  ASSUME NEW p \in Procs, ret[p] = NoRet \/ pc[p] \in Halfway
  PROVE  Abstract!Open(p, call[p].op)
BY DEF Abstract!Open, Effective, Halfway, NoRet, Abstract!NoRet

\* Blocked is what the queue calls unreadable and unwritable.
LEMMA BlockedIs ==
  ASSUME TypeOK
  PROVE  /\ Abstract!Readable <=> current_len # 0
         /\ Abstract!Writable <=> current_len # SIZE
BY ContentsFacts DEF Abstract!Readable, Abstract!Writable

\* The update of current_len is the instant of a read: it takes the oldest
\* bytes, those that were copied, and leaves the rest in their order.
LEMMA ReadTakes ==
  ASSUME TypeOK, TypeOK', Control, CopyInv, NEW p \in Procs, ReadShift(p)
  PROVE  Abstract!Read(p)
<1> DEFINE n == Lesser(call[p].count, current_len)
           d == [i \in 1 .. n |-> mem[i - 1]]
           r == [code |-> "OK", mask |-> {}, data |-> d]
<1>1. /\ pc[p] = "shift" /\ current_len # 0 /\ call[p].op = "read"
      /\ UNCHANGED <<call, ret>> /\ pc' = [pc EXCEPT ![p] = "wake"]
  BY DEF ReadShift, CopyInv, CopyOK, Control, LabelInv
<1>2. ret[p] = r
  BY <1>1, Zenon DEF CopyInv, CopyOK
<1>3. n \in 0 .. current_len /\ current_len \in Nat /\ call[p].count \in Nat
  BY DEF TypeOK, CallType, Lesser
<1>4. d \in Seq(Byte) /\ Len(d) = n
  <2>1. d \in [1 .. n -> Byte]
    BY <1>3 DEF Index, TypeOK
  <2> QED
    BY <1>3, <2>1, FunctionIsSeq
<1>5. Abstract!Lesser(call[p].count, Len(Contents)) = n
  BY ContentsFacts DEF Abstract!Lesser, Lesser
<1>6. Abstract!Taken(call[p].count) = d
  <2>1. /\ SubSeq(Contents, 1, n) \in Seq(Byte) /\ Len(SubSeq(Contents, 1, n)) = n
        /\ \A i \in 1 .. n : SubSeq(Contents, 1, n)[i] = mem[i - 1]
    BY <1>3, ContentsFacts, PrefixIsSeq
  <2>2. \A i \in 1 .. n : d[i] = mem[i - 1]
    OBVIOUS
  <2> HIDE DEF d, n
  <2>3. SubSeq(Contents, 1, n) = d
    BY <1>4, <2>1, <2>2, SeqEqual
  <2> QED
    BY <1>5, <2>3 DEF Abstract!Taken
<1>7. Contents' = Abstract!Left(call[p].count)
  <2> DEFINE m == current_len - n
             c == SubSeq(Contents, n + 1, current_len)
  <2>0. ret[p].data = d
    <3> HIDE DEF d
    <3> QED
      BY <1>2
  <2>1. /\ current_len' = m /\ m \in Nat
        /\ mem' = [i \in Index |-> IF i + n < current_len THEN mem[i + n]
                                                          ELSE mem[i]]
    <3> HIDE DEF d
    <3>1. Len(ret[p].data) = n
      BY <2>0, <1>4
    <3> HIDE DEF n
    <3> QED
      BY <1>3, <3>1 DEF ReadShift
  <2>2. /\ Contents' \in Seq(Byte) /\ Len(Contents') = m
        /\ \A i \in 1 .. m : Contents'[i] = mem'[i - 1]
    <3> HIDE DEF n
    <3>1. /\ current_len' \in 0 .. SIZE /\ mem' \in [Index -> Byte]
          /\ Contents' = [i \in 1 .. current_len' |-> mem'[i - 1]]
      BY DEF TypeOK, Contents
    <3> QED
      BY <2>1, <3>1, SequenceIs
  <2>3. /\ c \in Seq(Byte) /\ Len(c) = m
        /\ \A i \in 1 .. m : c[i] = Contents[n + i]
    <3> HIDE DEF n
    <3>1. \A i \in n + 1 .. current_len : Contents[i] \in Byte
      BY <1>3, ContentsFacts, ElementOfSeq
    <3> QED
      BY <1>3, <3>1, SubSeqProperties
  <2>4. ASSUME NEW i \in 1 .. m PROVE Contents'[i] = c[i]
    <3>1. /\ i - 1 \in Index /\ (i - 1) + n < current_len
          /\ n + i \in 1 .. current_len /\ (n + i) - 1 = (i - 1) + n
      BY <1>3 DEF TypeOK, Index
    <3>2. mem'[i - 1] = mem[(i - 1) + n]
      BY <2>1, <3>1
    <3>3. Contents[n + i] = mem[(n + i) - 1]
      BY <3>1, ContentsFacts
    <3> QED
      BY <2>2, <2>3, <3>1, <3>2, <3>3
  <2>5. Contents' = c
    <3> HIDE DEF c, m
    <3> QED
      BY <2>2, <2>3, <2>4, SeqEqual
  <2> QED
    BY <1>5, <2>5, ContentsFacts DEF Abstract!Left
<1>8. Abstract!Finish(p, r)
  <2>1. /\ Effective' = [q \in Procs |-> IF pc'[q] \in Halfway THEN NoRet
                                                              ELSE ret[q]]
        /\ \A q \in Procs \ {p} : pc'[q] = pc[q]
        /\ pc'[p] = "wake"
    BY <1>1 DEF Effective, Halfway, TypeOK
  <2> HIDE DEF r
  <2>2. Effective' = [Effective EXCEPT ![p] = r]
    BY <1>2, <2>1 DEF Effective, Halfway
  <2> QED
    BY <1>1, <2>2 DEF Abstract!Finish
<1>9. Abstract!Open(p, "read") /\ Abstract!Readable
  BY <1>1, OpenCalls, BlockedIs DEF Halfway
<1> HIDE DEF d
<1> QED
  BY <1>6, <1>7, <1>8, <1>9 DEF Abstract!Read, Abstract!Ret

\* The update of current_len is the instant of a write: it appends what was
\* copied behind the bytes that are there.
LEMMA WriteAdds ==
  ASSUME TypeOK, TypeOK', Control, CopyInv, NEW p \in Procs, WriteCommit(p)
  PROVE  Abstract!Write(p)
<1> DEFINE b == call[p].data
           n == Lesser(Len(b), SIZE - current_len)
           d == SubSeq(b, 1, n)
           r == [code |-> "OK", mask |-> {}, data |-> d]
<1>1. /\ pc[p] = "commit" /\ current_len # SIZE /\ call[p].op = "write"
      /\ UNCHANGED <<call, ret, mem>> /\ pc' = [pc EXCEPT ![p] = "wake"]
      /\ current_len' = current_len + Len(ret[p].data)
  BY DEF WriteCommit, CopyInv, CopyOK, Control, LabelInv
<1>2. ret[p] = r
  BY <1>1, Zenon DEF CopyInv, CopyOK
<1>3. /\ b \in Seq(Byte) /\ Len(b) \in Nat /\ current_len \in 0 .. SIZE
      /\ n \in 0 .. Len(b)
  BY LenProperties DEF TypeOK, CallType, Lesser
<1>4. d \in Seq(Byte) /\ Len(d) = n /\ \A i \in 1 .. n : d[i] = b[i]
  BY <1>3, PrefixIsSeq
<1>5. \A i \in 1 .. n : mem[current_len + i - 1] = b[i]
  BY <1>1 DEF CopyInv, CopyOK
<1>6. Abstract!Accepted(b) = d
  BY ContentsFacts DEF Abstract!Accepted, Abstract!Lesser, Lesser
<1>7. Contents' = Contents \o d
  <2> HIDE DEF d, n, b
  <2>1. current_len' = current_len + n
    BY <1>1, <1>2, <1>4
  <2>2. /\ Contents' \in Seq(Byte) /\ Len(Contents') = current_len + n
        /\ \A i \in 1 .. current_len + n : Contents'[i] = mem[i - 1]
    <3>1. /\ current_len' \in 0 .. SIZE /\ mem' \in [Index -> Byte]
          /\ Contents' = [i \in 1 .. current_len' |-> mem'[i - 1]]
      BY DEF TypeOK, Contents
    <3>2. mem' = mem
      BY <1>1
    <3> QED
      BY <2>1, <3>1, <3>2, SequenceIs
  <2>3. /\ Contents \in Seq(Byte) /\ Len(Contents) = current_len
        /\ \A i \in 1 .. current_len : Contents[i] = mem[i - 1]
    BY ContentsFacts
  <2>4. /\ Contents \o d \in Seq(Byte)
        /\ Len(Contents \o d) = Len(Contents) + Len(d)
        /\ \A i \in 1 .. Len(Contents) + Len(d) :
             (Contents \o d)[i] = IF i <= Len(Contents) THEN Contents[i]
                                  ELSE d[i - Len(Contents)]
    BY <1>4, <2>3, ConcatProperties
  <2>5. ASSUME NEW i \in 1 .. current_len + n
        PROVE  Contents'[i] = (Contents \o d)[i]
    <3>0. /\ Contents'[i] = mem[i - 1] /\ i \in Nat /\ i > 0 /\ n \in Nat
          /\ (Contents \o d)[i] = IF i <= current_len THEN Contents[i]
                                  ELSE d[i - current_len]
      BY <1>3, <1>4, <2>2, <2>3, <2>4
    <3>1. CASE i <= current_len
      <4>1. i \in 1 .. current_len
        BY <1>3, <3>0, <3>1
      <4> QED
        BY <2>3, <3>0, <3>1, <4>1
    <3>2. CASE ~(i <= current_len)
      <4>1. PICK j \in 1 .. n : i = current_len + j
        <5>1. /\ i - current_len \in 1 .. n
              /\ i = current_len + (i - current_len)
          BY <1>3, <3>0, <3>2
        <5> QED
          BY <5>1
      <4>2. d[j] = b[j] /\ mem[current_len + j - 1] = b[j]
        BY <1>4, <1>5
      <4>3. i - current_len = j /\ i - 1 = current_len + j - 1
        BY <1>3, <3>0, <4>1
      <4> QED
        BY <3>0, <3>2, <4>2, <4>3
    <3> QED
      BY <3>1, <3>2
  <2> QED
    BY <1>4, <2>2, <2>3, <2>4, <2>5, SeqEqual
<1>8. Abstract!Finish(p, r)
  <2>1. /\ Effective' = [q \in Procs |-> IF pc'[q] \in Halfway THEN NoRet
                                                              ELSE ret[q]]
        /\ \A q \in Procs \ {p} : pc'[q] = pc[q]
        /\ pc'[p] = "wake"
    BY <1>1 DEF Effective, Halfway, TypeOK
  <2> HIDE DEF r
  <2>2. Effective' = [Effective EXCEPT ![p] = r]
    BY <1>2, <2>1 DEF Effective, Halfway
  <2> QED
    BY <1>1, <2>2 DEF Abstract!Finish
<1>9. Abstract!Open(p, "write") /\ Abstract!Writable
  BY <1>1, OpenCalls, BlockedIs DEF Halfway
<1> HIDE DEF d
<1> QED
  BY <1>6, <1>7, <1>8, <1>9 DEF Abstract!Write, Abstract!Ret

\* A device is made when no call is in progress, and is empty.
LEMMA ProbeRenews ==
  ASSUME TypeOK, Control, CallInv, Probe
  PROVE  Abstract!Renew
<1>1. \A p \in Procs : pc[p] = "idle" /\ call[p] = NoCall /\ ret[p] = NoRet
  BY DEF Probe, Control, FileInv, CallInv, RetInv, Undecided
<1>2. \A p \in Procs : Effective[p] = NoRet
  BY <1>1 DEF Effective
<1>3. UNCHANGED <<call, Effective>>
  BY DEF Probe, Effective
<1>4. Contents' = <<>>
  <2>1. /\ current_len' = 0
        /\ Contents' = [i \in 1 .. current_len' |-> mem'[i - 1]]
    BY DEF Probe, Contents
  <2>2. mem' \in [Index -> Byte]
    BY DEF Probe
  <2>3. Contents' \in Seq(Byte) /\ Len(Contents') = 0
    BY <2>1, <2>2, SequenceIs
  <2> QED
    BY <2>3, EmptySeq
<1> QED
  BY <1>1, <1>2, <1>3, <1>4
  DEF Abstract!Renew, NoCall, NoRet, Abstract!NoCall, Abstract!NoRet

\* A call starts, with the mode of the file it is made on.
LEMMA InvokeInvokes ==
  ASSUME TypeOK, Control, CallInv, NEW p \in Procs, Invoke(p)
  PROVE  Abstract!Invoke(p)
<1>1. PICK c \in Calls :
        call' = [call EXCEPT ![p] = [c EXCEPT !.nonblock = (file[p] = "nonblock")]]
  BY DEF Invoke
<1>2. [c EXCEPT !.nonblock = (file[p] = "nonblock")] \in AllCalls
  <2> DEFINE b == file[p] = "nonblock"
  <2>1. b \in BOOLEAN
    OBVIOUS
  <2> HIDE DEF b
  <2>2. [c EXCEPT !.nonblock = b] \in AllCalls
    BY <2>1 DEF AllCalls
  <2> QED
    BY <2>2 DEF b
<1>3. call[p] = NoCall
  BY DEF Invoke, CallInv
<1>4. UNCHANGED fifo /\ ret' = ret
  BY DEF Invoke
<1>5. \A q \in Procs : pc'[q] \in Halfway <=> pc[q] \in Halfway
  BY DEF Invoke, Halfway, TypeOK
<1>6. Contents' = Contents /\ Effective' = Effective
  BY <1>4, <1>5 DEF Contents, Effective, Halfway
<1> QED
  BY <1>1, <1>2, <1>3, <1>6 DEF Abstract!Invoke, NoCall, Abstract!NoCall

\* Copying writes behind the contents only.
LEMMA WriteCopyKeeps ==
  ASSUME TypeOK, NEW p \in Procs, WriteCopy(p)
  PROVE  Contents' = Contents
<1>1. current_len' = current_len /\ current_len \in 0 .. SIZE
  BY DEF WriteCopy, TypeOK
<1>2. \A i \in 1 .. current_len : mem'[i - 1] = mem[i - 1]
  <2> SUFFICES ASSUME NEW i \in 1 .. current_len PROVE mem'[i - 1] = mem[i - 1]
    OBVIOUS
  <2>1. i - 1 \in Index /\ ~(i - 1 >= current_len)
    BY <1>1 DEF Index
  <2>2. i - 1 \notin current_len ..
          current_len + Lesser(Len(call[p].data), SIZE - current_len) - 1
    BY <1>1, <2>1 DEF Index
  <2> QED
    BY <2>1, <2>2 DEF WriteCopy
<1> QED
  BY <1>1, <1>2 DEF Contents

\* A read or write that fails by a fault had something to do, and does nothing.
LEMMA FaultFaults ==
  ASSUME TypeOK, Control, CopyInv, NEW p \in Procs, pc[p] = "copy",
         UNCHANGED <<current_len, call>>, Contents' = Contents,
         ret' = [ret EXCEPT ![p] = Error("EFAULT")],
         pc' = [pc EXCEPT ![p] = "unlock"]
  PROVE  Abstract!Fault(p)
<1>1. call[p].op \in {"read", "write"} /\ ret[p] = NoRet /\ ~Blocked(p)
  BY DEF Control, LabelInv, RetInv, Undecided, CopyInv, CopyOK
<1>2. Abstract!Open(p, call[p].op)
  BY <1>1, OpenCalls
<1>3. \/ call[p].op = "read" /\ Abstract!Readable
      \/ call[p].op = "write" /\ Abstract!Writable
  BY <1>1, BlockedIs DEF Blocked
<1>4. Abstract!Finish(p, Error("EFAULT"))
  BY Finishes DEF Halfway, TypeOK
<1> QED
  BY <1>2, <1>3, <1>4 DEF Abstract!Fault, Abstract!Ret, Error

\* The copies: a fault, or nothing yet.
LEMMA CopiesImplement ==
  ASSUME TypeOK, Control, CopyInv, NEW p \in Procs, ReadCopy(p) \/ WriteCopy(p)
  PROVE  Abstract!Fault(p) \/ UNCHANGED Abstract!qvars
<1>1. /\ pc[p] = "copy" /\ UNCHANGED <<current_len, call>>
      /\ ret[p] = NoRet
  BY DEF ReadCopy, WriteCopy, Control, RetInv, Undecided
<1>2. Contents' = Contents
  BY WriteCopyKeeps DEF ReadCopy, Contents
<1>3. \/ /\ ret' = [ret EXCEPT ![p] = Error("EFAULT")]
         /\ pc' = [pc EXCEPT ![p] = "unlock"]
      \/ /\ \E r : ret' = [ret EXCEPT ![p] = r]
         /\ \E l \in Halfway : pc' = [pc EXCEPT ![p] = l]
  <2>1. CASE ReadCopy(p)
    BY <2>1 DEF ReadCopy, Halfway
  <2>2. CASE WriteCopy(p)
    BY <2>2 DEF WriteCopy, Halfway
  <2> QED
    BY <2>1, <2>2
<1>4. ASSUME NEW r, ret' = [ret EXCEPT ![p] = r],
             NEW l \in Halfway, pc' = [pc EXCEPT ![p] = l]
      PROVE  UNCHANGED Abstract!qvars
  <2>1. /\ DOMAIN ret = Procs /\ DOMAIN pc = Procs /\ pc'[p] \in Halfway
        /\ \A q \in Procs \ {p} : ret'[q] = ret[q] /\ pc'[q] = pc[q]
    BY <1>4 DEF TypeOK
  <2>2. Effective' = Effective
    BY <1>1, <2>1 DEF Effective, Halfway
  <2> QED
    BY <1>1, <1>2, <2>2 DEF Abstract!qvars
<1> QED
  BY <1>1, <1>2, <1>3, <1>4, FaultFaults

\* A step of p that decides the result of its call.
LEMMA DecidesImplement ==
  ASSUME TypeOK, Control, CallInv, NEW p \in Procs,
         \/ Einval(p) \/ WouldBlock(p) \/ Interrupted(p) \/ Scan(p)
         \/ PollDecide(p)
  PROVE  \/ Abstract!BadIoctl(p) \/ Abstract!Refuse(p) \/ Abstract!GiveUp(p)
         \/ Abstract!Poll(p) \/ UNCHANGED Abstract!qvars
<1>1. /\ UNCHANGED <<current_len, mem, call>> /\ pc[p] \notin Halfway
      /\ Contents' = Contents
  BY DEF Einval, WouldBlock, Interrupted, Scan, PollDecide, Halfway, Contents
<1>2. pc'[p] \notin Halfway /\ \A q \in Procs \ {p} : pc'[q] = pc[q]
  BY DEF Einval, WouldBlock, Interrupted, Scan, PollDecide, Halfway, TypeOK
<1>3. ASSUME NEW r, ret' = [ret EXCEPT ![p] = r] PROVE Abstract!Finish(p, r)
  BY <1>1, <1>2, <1>3, Finishes
<1>4. ASSUME ret[p] = NoRet PROVE Abstract!Open(p, call[p].op)
  BY <1>4, OpenCalls
<1>5. ASSUME ret' = ret PROVE UNCHANGED Abstract!qvars
  <2>1. \A q \in Procs : pc'[q] \in Halfway <=> pc[q] \in Halfway
    BY <1>1, <1>2
  <2> QED
    BY <1>1, <1>5, <2>1, Stutters
<1>6. CASE Einval(p)
  <2>1. ret[p] = NoRet /\ call[p].op = "badcmd"
    BY <1>6 DEF Einval, Control, LabelInv, RetInv, Undecided
  <2>2. Abstract!Finish(p, Error("EINVAL"))
    BY <1>3, <1>6 DEF Einval
  <2> QED
    BY <1>1, <1>4, <2>1, <2>2 DEF Abstract!BadIoctl, Abstract!Ret, Error
<1>7. CASE WouldBlock(p)
  <2>1. /\ ret[p] = NoRet /\ call[p].op \in {"read", "write"} /\ Blocked(p)
        /\ call[p].nonblock
    BY <1>7 DEF WouldBlock, Control, LabelInv, RetInv, Undecided
  <2>2. Abstract!Finish(p, Error("EAGAIN"))
    BY <1>3, <1>7 DEF WouldBlock
  <2>3. \/ call[p].op = "read" /\ ~Abstract!Readable
        \/ call[p].op = "write" /\ ~Abstract!Writable
    BY <2>1, BlockedIs DEF Blocked
  <2> QED
    BY <1>1, <1>4, <2>1, <2>2, <2>3 DEF Abstract!Refuse, Abstract!Ret, Error
<1>8. CASE Interrupted(p)
  <2>1. /\ ret[p] = NoRet /\ call[p].op \in {"read", "write"}
        /\ ~call[p].nonblock
    BY <1>8 DEF Interrupted, Control, LabelInv, RetInv, Undecided, CallInv
  <2>2. Abstract!Finish(p, Error("ERESTARTSYS"))
    BY <1>3, <1>8 DEF Interrupted
  <2> QED
    BY <1>1, <1>4, <2>1, <2>2 DEF Abstract!GiveUp, Abstract!Ret, Error
<1>9. CASE Scan(p)
  <2> DEFINE mask == (IF current_len # 0 THEN {"in"} ELSE {}) \cup
                     (IF current_len # SIZE THEN {"out"} ELSE {})
             hit  == mask \cap call[p].want
  <2>1. ret[p] = NoRet /\ call[p].op = "poll"
    BY <1>9 DEF Scan, Control, LabelInv, RetInv, Undecided
  <2>2. Abstract!PollMask = mask
    BY BlockedIs DEF Abstract!PollMask
  <2>3. SetRet(p, IF hit = {} THEN NoRet
                  ELSE [code |-> "OK", data |-> <<>>, mask |-> hit])
    BY <1>9 DEF Scan
  <2> HIDE DEF mask
  <2>4. CASE hit = {}
    <3>1. ret' = [ret EXCEPT ![p] = NoRet]
      BY <2>3, <2>4
    <3>2. ret' = ret
      BY <2>1, <3>1 DEF TypeOK
    <3> QED
      BY <1>5, <3>2
  <2>5. CASE hit # {}
    <3>1. Abstract!Finish(p, [code |-> "OK", data |-> <<>>, mask |-> hit])
      BY <1>3, <2>3, <2>5
    <3>2. Abstract!Poll(p)
      BY <1>1, <1>4, <2>1, <2>2, <2>5, <3>1 DEF Abstract!Poll, Abstract!Ret
    <3> QED
      BY <3>2
  <2> QED
    BY <2>4, <2>5
<1>10. CASE PollDecide(p)
  <2>1. CASE ret[p] = NoRet /\ sig[p]
    <3>1. call[p].op = "poll"
      BY <1>10 DEF PollDecide, Control, LabelInv
    <3>2. ret' = [ret EXCEPT ![p] = Error("EINTR")]
      BY <1>10, <2>1 DEF PollDecide
    <3>3. Abstract!Finish(p, Error("EINTR"))
      BY <1>3, <3>2
    <3> QED
      BY <1>1, <1>4, <2>1, <3>1, <3>3 DEF Abstract!GiveUp, Abstract!Ret, Error
  <2>2. CASE ~(ret[p] = NoRet /\ sig[p])
    <3>1. ret' = ret
      BY <1>10, <2>2 DEF PollDecide, TypeOK
    <3> QED
      BY <1>5, <3>1
  <2> QED
    BY <2>1, <2>2
<1> QED
  BY <1>6, <1>7, <1>8, <1>9, <1>10

\* FIFO_CLEAR empties the queue.
LEMMA ClearClears ==
  ASSUME TypeOK, Control, NEW p \in Procs, Clear(p)
  PROVE  Abstract!Clear(p)
<1>1. ret[p] = NoRet /\ call[p].op = "clear"
  BY DEF Clear, Control, LabelInv, RetInv, Undecided
<1>2. Abstract!Finish(p, Error("OK"))
  BY Finishes DEF Clear, Halfway, TypeOK
<1>3. Contents' = <<>>
  <2>1. /\ current_len' = 0 /\ mem' \in [Index -> Byte]
        /\ Contents' = [i \in 1 .. current_len' |-> mem'[i - 1]]
    BY DEF Clear, Contents
  <2>2. Contents' \in Seq(Byte) /\ Len(Contents') = 0
    BY <2>1, SequenceIs
  <2> QED
    BY <2>2, EmptySeq
<1> QED
  BY <1>1, <1>2, <1>3, OpenCalls DEF Abstract!Clear, Abstract!Ret, Error

\* Only a call that has its result returns.
LEMMA ReturnReturns ==
  ASSUME TypeOK, Control, NEW p \in Procs, Return(p)
  PROVE  Abstract!Return(p)
<1>1. pc[p] = "return" /\ ret[p] # NoRet
  BY DEF Return, Control, RetInv, Undecided
<1>2. /\ UNCHANGED <<current_len, mem>> /\ Contents' = Contents
      /\ ret' = [ret EXCEPT ![p] = NoRet]
      /\ call' = [call EXCEPT ![p] = NoCall]
      /\ pc' = [pc EXCEPT ![p] = "idle"]
  BY DEF Return, Contents
<1>3. Effective[p] # NoRet
  BY <1>1 DEF Effective, Halfway
<1>4. Effective' = [Effective EXCEPT ![p] = NoRet]
  <2>1. ASSUME NEW q \in Procs
        PROVE  Effective'[q] = IF q = p THEN NoRet ELSE Effective[q]
    BY <1>1, <1>2 DEF Effective, Halfway, TypeOK
  <2>2. /\ Effective = [q \in Procs |-> Effective[q]]
        /\ Effective' = [q \in Procs |-> Effective'[q]]
    BY DEF Effective
  <2> HIDE DEF Effective
  <2> QED
    BY <2>1, <2>2
<1> QED
  BY <1>2, <1>3, <1>4
  DEF Abstract!Return, NoRet, NoCall, Abstract!NoRet, Abstract!NoCall

\* The rest of the driver is invisible to the queue.
LEMMA RestStutters ==
  ASSUME TypeOK, NEW p \in Procs,
         \/ OpenFile(p) \/ Fasync(p) \/ Release(p) \/ Signal(p) \/ Lock(p)
         \/ Relock(p) \/ Enqueue(p) \/ Proceed(p) \/ PrepareSleep(p)
         \/ UnlockSleep(p) \/ Schedule(p) \/ Retry(p) \/ Wake(p) \/ Sigio(p)
         \/ Unlock(p) \/ Dequeue(p)
  PROVE  UNCHANGED Abstract!qvars
<1>1. UNCHANGED <<fifo, call, ret>>
  BY DEF OpenFile, Fasync, Release, Signal, Lock, Relock, Enqueue, Proceed,
         PrepareSleep, UnlockSleep, Schedule, Retry, Wake, Sigio, Unlock, Dequeue
<1>2. \/ UNCHANGED pc
      \/ \E l : /\ pc' = [pc EXCEPT ![p] = l] /\ l \notin Halfway
                /\ pc[p] \notin Halfway
  BY DEF OpenFile, Fasync, Release, Signal, Lock, Relock, Enqueue, Proceed,
         PrepareSleep, UnlockSleep, Schedule, Retry, Wake, Sigio, Unlock, Dequeue,
         Halfway
<1>3. \A q \in Procs : pc'[q] \in Halfway <=> pc[q] \in Halfway
  BY <1>2 DEF TypeOK
<1> QED
  BY <1>1, <1>3, Stutters

\* Every step of the driver is a step of the queue or a stutter.
LEMMA StepImplements ==
  ASSUME TypeOK, TypeOK', Control, CopyInv, CallInv, [Next]_vars
  PROVE  [Abstract!QNext]_(Abstract!qvars)
<1>1. CASE UNCHANGED vars
  BY <1>1, Stutters DEF vars
<1>2. CASE Probe
  BY <1>2, ProbeRenews DEF Abstract!QNext
<1>3. CASE Remove
  BY <1>3, Stutters DEF Remove
<1>4. ASSUME NEW p \in Procs, Invoke(p) PROVE Abstract!QNext
  BY <1>4, InvokeInvokes DEF Abstract!QNext
<1>5. ASSUME NEW p \in Procs, ReadCopy(p) \/ WriteCopy(p)
      PROVE  [Abstract!QNext]_(Abstract!qvars)
  BY <1>5, CopiesImplement DEF Abstract!QNext
<1>6. ASSUME NEW p \in Procs, ReadShift(p) \/ WriteCommit(p)
      PROVE  Abstract!QNext
  BY <1>6, ReadTakes, WriteAdds DEF Abstract!QNext
<1>7. ASSUME NEW p \in Procs,
             \/ Einval(p) \/ WouldBlock(p) \/ Interrupted(p) \/ Scan(p)
             \/ PollDecide(p)
      PROVE  [Abstract!QNext]_(Abstract!qvars)
  BY <1>7, DecidesImplement DEF Abstract!QNext
<1>8. ASSUME NEW p \in Procs, Clear(p) \/ Return(p) PROVE Abstract!QNext
  BY <1>8, ClearClears, ReturnReturns DEF Abstract!QNext
<1> QED
  BY StepCases, <1>1, <1>2, <1>3, <1>4, <1>5, <1>6, <1>7, <1>8, RestStutters

\* Whatever the interleaving, the faults and the signals: every behaviour of
\* the driver is one of the bounded queue of bytes, on which each call takes
\* effect at one instant between its invocation and its return.
THEOREM DriverIsByteQueue == Spec => ImplementsByteQueue
<1>1. Init => Abstract!QInit
  <2> SUFFICES ASSUME Init PROVE Abstract!QInit
    OBVIOUS
  <2>1. TypeOK
    BY InitInv DEF IInv
  <2>2. Contents = <<>>
    BY <2>1, ContentsFacts DEF Init
  <2>3. Effective = [p \in Procs |-> NoRet]
    BY DEF Init, Effective
  <2> QED
    BY <2>2, <2>3
    DEF Init, Abstract!QInit, NoCall, NoRet, Abstract!NoCall, Abstract!NoRet
<1>2. Init => IInv /\ CallInv
  BY InitInv DEF Init, CallInv
<1>3. IInv /\ CallInv /\ [Next]_vars =>
        IInv' /\ CallInv' /\ [Abstract!QNext]_(Abstract!qvars)
  BY TypeStep, ControlStep, CopyStep, WakeupStep, CallStep, StepImplements
  DEF IInv, Control
<1> QED
  BY <1>1, <1>2, <1>3, PTL DEF Spec, ImplementsByteQueue, Abstract!QSpec
=============================================================================
