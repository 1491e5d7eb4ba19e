--------------------------- MODULE UdevSettle_proofs ---------------------------
(***************************************************************************)
(* udevsettle beside udevd, for any devices, events and limits: that the   *)
(* two sequence numbers and the directory, each read at another moment,    *)
(* together show the end of what was pending at its start, and what they   *)
(* show of the events on their way to the daemon.                          *)
(***************************************************************************)
EXTENDS UdevSettle, Udevd_proofs

USE DEF input, files, lists, signal, config, loop

\* udevsettle only looks: the daemon beside it behaves as without it.
LEMMA DaemonUndisturbed == SettleSpec => Spec
<1>1. Init /\ SettleInit => Init
  OBVIOUS
<1>2. [SettleNext]_allvars => [Next]_vars
  BY DEF SettleNext, DaemonStep, Settle, SettleBegin, StatQueue,
         ReadUdevSeqnum, ReadKernelSeqnum, SettleGivesUp, allvars
<1> QED
  BY <1>1, <1>2, PTL DEF SettleSpec, Spec

\* The inductive invariant, on top of the daemon's.  What udevsettle was told
\* of is older than all the daemon has yet to receive, and not what it is about
\* to insert; once the directory was seen empty nothing of it is pending, and
\* never comes back.  A number read from the daemon's file counts no event that
\* is still in the socket, but for those that the daemon found there.
SettleInv ==
  /\ step \in {"idle", "stat", "udev", "kernel", "settled", "failed"}
  /\ seq_udev \in Nat /\ from \in 0 .. kseq
  /\ \A e \in told : e.seq \in Nat /\ e.seq <= kseq
  /\ \A e \in told, f \in sock : e.seq < f.seq
  /\ pc = "insert" => told \cap msg = {}
  /\ pc = "start" => step \notin {"kernel", "settled"}
  /\ pc # "start" => \A e \in sock : e.seq <= useq => e.seq <= first
  /\ step \in {"udev", "kernel", "settled"} => told \cap Pending = {}
  /\ step = "kernel" => /\ seq_udev <= kseq
                        /\ \A e \in sock : e.seq <= seq_udev => e.seq <= first
  /\ step = "settled" => \A e \in sock : e.seq <= from => e.seq <= first

\* What a step of the daemon may do to the lists and the event under way.
LEMMA DaemonFacts ==
  ASSUME DInv, Next
  PROVE  /\ Pending' \subseteq Pending
              \/ (pc = "insert" /\ Pending' \subseteq Pending \cup msg)
         /\ pc' = "insert" => \/ pc = "insert" /\ msg' = msg
                              \/ msg' \subseteq sock
<1>0. TypeOK /\ SeqInv /\ LoopInv
  BY DEF DInv, QueueInv
<1>b. \A r \in SUBSET {"ctl", "netlink", "pipe"} : NextStage(r) # "insert"
  BY StageFacts
<1>1. CASE \/ \E k \in Kinds : Uevent(k)
           \/ \E c \in Ctls : Control(c)
           \/ \E e \in running_list : ChildExit(e)
  BY <1>1 DEF Uevent, Control, ChildExit, Pending
<1>2. CASE GetNetlinkMsg
  BY <1>2 DEF GetNetlinkMsg, Pending
<1>3. CASE MsgQueueInsert
  <2>1. pc = "insert" /\ pc' # "insert"
    BY <1>0, <1>b, <1>3 DEF MsgQueueInsert, InsertQueued, InsertAndRun,
                         InsertAndFail, InsertTraced, Goto, TypeOK
  <2>2. Pending' \subseteq Pending \cup msg
    BY <1>3 DEF MsgQueueInsert, InsertQueued, InsertAndRun, InsertAndFail,
                InsertTraced, Pending
  <2> QED
    BY <2>1, <2>2
<1>4. CASE Select \/ DrainPipe
  BY <1>0, <1>b, <1>4 DEF Select, DrainPipe, Goto, TypeOK, Pending
<1>5. CASE GetCtrlMsg
  BY <1>0, <1>b, <1>5 DEF GetCtrlMsg, Goto, TypeOK, Pending
<1>6. CASE WaitTraced
  BY <1>0, <1>b, <1>6 DEF WaitTraced, Goto, TypeOK, Pending
<1>7. CASE TestFlag \/ ReapDone \/ TestRunQueue \/ Reap \/ ExportInitialSeqnum
  BY <1>7 DEF TestFlag, ReapDone, TestRunQueue, Reap, ExportInitialSeqnum, Pending
<1>8. CASE Throttle \/ ManagerDone
  BY <1>0, <1>8 DEF Throttle, ManagerDone, ManagerReturn, LoopInv, Pending
<1>9. CASE Delay \/ Start \/ StartFails
  <2>1. /\ UNCHANGED <<pc, msg>> /\ pc = "manage"
        /\ \/ UNCHANGED <<exec_list, running_list>>
           \/ \E e \in exec_list : /\ exec_list' = exec_list \ {e}
                                   /\ running_list' \subseteq running_list \cup {e}
    BY <1>9 DEF Delay, Start, StartFails, Candidates
  <2> QED
    BY <2>1 DEF Pending
<1> QED
  BY <1>1, <1>2, <1>3, <1>4, <1>5, <1>6, <1>7, <1>8, <1>9 DEF Next, Daemon

\* The daemon's steps seen from the socket and the number file: a new event has
\* a number above all others; the daemon's start writes a number not above the
\* kernel's; receiving takes the first event; nothing else touches either.
LEMMA NumberSteps ==
  ASSUME DInv, Next
  PROVE  \/ /\ kseq' = kseq + 1 /\ UNCHANGED <<useq, pc>>
            /\ \A e \in sock' : e \in sock \/ e.seq = kseq + 1
         \/ /\ pc = "start" /\ UNCHANGED <<kseq, sock>> /\ useq' \in 0 .. kseq
         \/ /\ pc = "netlink" /\ pc' # "start" /\ kseq' = kseq
            /\ sock' \subseteq sock /\ \A e \in sock' : useq' < e.seq
         \/ /\ UNCHANGED <<kseq, sock, useq>> /\ (pc = "start" <=> pc' = "start")
<1>0. TypeOK /\ SeqInv /\ LoopInv
  BY DEF DInv, QueueInv
<1>a. \A e \in sock : e.seq \in Nat
  BY <1>0, NumberFacts
<1>b. \A r \in SUBSET {"ctl", "netlink", "pipe"} : NextStage(r) # "start"
  BY StageFacts
<1>c. kseq \in Nat
  BY <1>0 DEF TypeOK
<1>1. ASSUME NEW k \in Kinds, Uevent(k)
      PROVE  /\ kseq' = kseq + 1 /\ UNCHANGED <<useq, pc>>
             /\ \A e \in sock' : e \in sock \/ e.seq = kseq + 1
  <2>1. kseq' = kseq + 1 /\ sock' = sock \cup {Event(k, kseq')}
    BY <1>1 DEF Uevent
  <2>2. Event(k, kseq').seq = kseq'
    BY DEF Event
  <2> QED
    BY <1>1, <2>1, <2>2 DEF Uevent
<1>2. CASE ExportInitialSeqnum
  BY <1>c, <1>2 DEF ExportInitialSeqnum
<1>3. CASE GetNetlinkMsg
  <2>1. PICK e \in sock : IsFirst(e, sock) /\ sock' = sock \ {e} /\ useq' = e.seq
    BY <1>3 DEF GetNetlinkMsg
  <2>2. \A f \in sock' : useq' < f.seq
    BY <1>0, <1>a, <2>1 DEF SeqInv, IsFirst
  <2> QED
    BY <1>3, <2>1, <2>2 DEF GetNetlinkMsg
<1>4. CASE \/ \E c \in Ctls : Control(c)
           \/ \E e \in running_list : ChildExit(e)
  BY <1>4 DEF Control, ChildExit
<1>5. CASE Select \/ DrainPipe \/ GetCtrlMsg \/ WaitTraced
  BY <1>0, <1>b, <1>5 DEF Select, DrainPipe, GetCtrlMsg, WaitTraced, Goto, TypeOK
<1>6. CASE MsgQueueInsert
  BY <1>0, <1>b, <1>6 DEF MsgQueueInsert, InsertQueued, InsertAndRun,
                          InsertAndFail, InsertTraced, Goto, TypeOK
<1>7. CASE TestFlag \/ ReapDone \/ TestRunQueue \/ Reap
  BY <1>7 DEF TestFlag, ReapDone, TestRunQueue, Reap
<1>8. CASE Throttle \/ ManagerDone
  BY <1>0, <1>8 DEF Throttle, ManagerDone, ManagerReturn, LoopInv
<1>9. CASE Delay \/ Start \/ StartFails
  BY <1>9 DEF Delay, Start, StartFails
<1> QED
  BY <1>1, <1>2, <1>3, <1>4, <1>5, <1>6, <1>7, <1>8, <1>9 DEF Next, Daemon

\* What the numbers mean to udevsettle is kept by the daemon.
LEMMA NumbersKept ==
  ASSUME DInv, SettleInv, DaemonStep
  PROVE  /\ from' \in 0 .. kseq'
         /\ \A e \in told' : e.seq \in Nat /\ e.seq <= kseq'
         /\ \A e \in told', f \in sock' : e.seq < f.seq
         /\ pc' = "start" => step' \notin {"kernel", "settled"}
         /\ pc' # "start" => \A e \in sock' : e.seq <= useq' => e.seq <= first'
         /\ step' = "kernel" =>
              /\ seq_udev' <= kseq'
              /\ \A e \in sock' : e.seq <= seq_udev' => e.seq <= first'
         /\ step' = "settled" => \A e \in sock' : e.seq <= from' => e.seq <= first'
<1>0. /\ \A e \in sock : e.seq \in Nat /\ e.seq <= kseq
      /\ useq \in 0 .. kseq /\ kseq \in Nat
  BY NumberFacts DEF DInv, QueueInv, SeqInv, TypeOK
<1>1. Next /\ first' = IF pc = "start" THEN kseq' ELSE first
  BY DEF DaemonStep
<1>2. UNCHANGED <<step, seq_udev, told, from>>
  BY DEF DaemonStep, settle
<1>3. CASE /\ kseq' = kseq + 1 /\ UNCHANGED <<useq, pc>>
           /\ \A e \in sock' : e \in sock \/ e.seq = kseq + 1
  BY <1>0, <1>1, <1>2, <1>3 DEF SettleInv
<1>4. CASE /\ pc = "start" /\ UNCHANGED <<kseq, sock>> /\ useq' \in 0 .. kseq
  BY <1>0, <1>1, <1>2, <1>4 DEF SettleInv
<1>5. CASE /\ pc = "netlink" /\ pc' # "start" /\ kseq' = kseq
           /\ sock' \subseteq sock /\ \A e \in sock' : useq' < e.seq
  <2>1. \A e \in sock' : ~(e.seq <= useq')
    <3>1. \A e \in sock' : e.seq \in Nat
      BY <1>0, <1>5
    <3>2. useq' \in Nat
      BY <1>1, TypeStep DEF TypeOK
    <3> QED
      BY <1>5, <3>1, <3>2
  <2> QED
    BY <1>0, <1>1, <1>2, <1>5, <2>1 DEF SettleInv
<1>6. CASE /\ UNCHANGED <<kseq, sock, useq>> /\ (pc = "start" <=> pc' = "start")
  BY <1>0, <1>1, <1>2, <1>6 DEF SettleInv
<1> QED
  BY <1>1, <1>3, <1>4, <1>5, <1>6, NumberSteps

\* Every step of the daemon and of udevsettle keeps the invariant.
LEMMA SettleStep ==
  ASSUME DInv, SettleInv, SettleNext
  PROVE  SettleInv'
<1>0. /\ \A e \in Pending \cup msg \cup sock : e.seq \in Nat
      /\ useq \in 0 .. kseq /\ kseq \in Nat /\ SeqInv /\ QueueShown
  BY NumberFacts DEF DInv, QueueInv, TypeOK
<1>1. CASE DaemonStep
  <2>1. /\ Pending' \subseteq Pending
             \/ (pc = "insert" /\ Pending' \subseteq Pending \cup msg)
        /\ pc' = "insert" => \/ pc = "insert" /\ msg' = msg
                             \/ msg' \subseteq sock
    BY <1>1, DaemonFacts DEF DaemonStep
  <2>2. UNCHANGED <<step, seq_udev, told, from>>
    BY <1>1 DEF DaemonStep, settle
  <2>3. pc' = "insert" => told' \cap msg' = {}
    <3>1. \A e \in sock : e \notin told
      BY <1>0 DEF SettleInv
    <3> QED
      BY <2>1, <2>2, <3>1 DEF SettleInv
  <2>4. told \cap Pending = {} => told' \cap Pending' = {}
    BY <2>1, <2>2 DEF SettleInv
  <2> QED
    BY <1>1, <2>2, <2>3, <2>4, NumbersKept DEF SettleInv
<1>2. CASE SettleBegin
  <2>1. /\ \A e \in Pending : e.seq <= kseq
        /\ \A e \in Pending, f \in sock : e.seq < f.seq
    BY <1>0 DEF SeqInv
  <2>2. pc = "insert" => Pending \cap msg = {}
    BY <1>0 DEF SeqInv
  <2> QED
    BY <1>0, <1>2, <2>1, <2>2 DEF SettleBegin, SettleInv, vars
<1>3. CASE StatQueue
  <2>1. Pending = {} /\ Pending' = Pending
    BY <1>0, <1>3 DEF StatQueue, QueueShown, vars, Pending
  <2> QED
    BY <1>3, <2>1 DEF StatQueue, SettleInv, vars
<1>4. CASE ReadUdevSeqnum
  BY <1>0, <1>4 DEF ReadUdevSeqnum, SettleInv, vars, Pending
<1>5. CASE ReadKernelSeqnum
  BY <1>0, <1>5 DEF ReadKernelSeqnum, SettleInv, vars, Pending
<1>6. CASE SettleGivesUp
  BY <1>0, <1>6 DEF SettleGivesUp, SettleInv, vars, Pending
<1> QED
  BY <1>1, <1>2, <1>3, <1>4, <1>5, <1>6 DEF SettleNext, Settle

\* When udevsettle succeeds, every event that the queue directory showed at its
\* start has ended, and of what the kernel had sent by then the daemon has yet to
\* receive only events that were sent before it wrote its first number, however
\* udevsettle's three reads interleave with the daemon's start and loop.
THEOREM SettledIsTrue == SettleSpec => []SettledSawTheEnd
<1>1. SettleSpec => []DInv
  BY DaemonUndisturbed, Inductive, PTL
<1>2. Init /\ SettleInit => SettleInv
  BY DEF Init, SettleInit, SettleInv, Pending
<1>3. DInv /\ SettleInv /\ [SettleNext]_allvars => SettleInv'
  <2> SUFFICES ASSUME DInv, SettleInv, [SettleNext]_allvars PROVE SettleInv'
    OBVIOUS
  <2>1. CASE SettleNext
    BY <2>1, SettleStep
  <2>2. CASE UNCHANGED allvars
    BY <2>2 DEF allvars, settle, vars, SettleInv, Pending
  <2> QED
    BY <2>1, <2>2
<1>4. SettleInv => SettledSawTheEnd
  BY DEF SettleInv, SettledSawTheEnd
<1> QED
  BY <1>1, <1>2, <1>3, <1>4, PTL DEF SettleSpec
=============================================================================
