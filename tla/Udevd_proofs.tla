----------------------------- MODULE Udevd_proofs -----------------------------
(***************************************************************************)
(* udevd, for any devices, events, limits and control messages: its types, *)
(* that no event runs beside an older one that it waits for, that no       *)
(* exit of a child is overlooked, that every step of the daemon is a step  *)
(* of EventSchedule or none, and that no event is left to wait for nothing.*)
(***************************************************************************)
EXTENDS UdevdProps, TLAPS, FiniteSetTheorems

USE PathAssumption, KindAssumption, BoundAssumption, CtlAssumption, DebugAssumption
USE DEF input, files, lists, signal, config, loop

\* The inductive invariant.
DInv == TypeOK /\ QueueInv /\ NoOverlap /\ ChildNoticed

\* The events and their numbers.
LEMMA EventFacts ==
  /\ \A e \in AllEvents : /\ e.seq \in 1 .. MaxEvents /\ e.dev \in Paths
                          /\ e.timeout \in BOOLEAN
  /\ \A k \in Kinds, s \in 1 .. MaxEvents :
       Event(k, s) \in AllEvents /\ Event(k, s).seq = s
BY DEF AllEvents, Event

\* Nothing is pending at the start.
LEMMA InitOK == Init => DInv
<1> SUFFICES ASSUME Init PROVE DInv
  OBVIOUS
<1>1. TypeOK
  <2>1. /\ MaxEvents \in Nat /\ MaxCtl \in Nat /\ MaxChilds \in Nat
        /\ MaxRunning \in Nat /\ debug_trace \in BOOLEAN /\ ctl \in Seq(Ctls)
    BY DEF Init
  <2>2. sent \in 0 .. MaxCtl /\ useq \in 0 .. kseq /\ kseq \in 0 .. MaxEvents
        /\ cursor \in 0 .. MaxEvents
    BY <2>1 DEF Init
  <2>3. zombies \subseteq [event : running_list, status : {0, 1}]
    BY DEF Init
  <2> QED
    BY <2>1, <2>2, <2>3 DEF Init, TypeOK, Stages, Pending
<1>2. QueueInv
  BY DEF Init, QueueInv, SeqInv, NotOvertaken, LoopInv, QueueShown, Pending
<1>3. NoOverlap /\ ChildNoticed
  BY DEF Init, NoOverlap, ChildNoticed
<1> QED
  BY <1>1, <1>2, <1>3 DEF DInv

\* The next stage is one of the loop's, and that of a descriptor not yet served.
LEMMA StageFacts ==
  ASSUME NEW r \in SUBSET {"ctl", "netlink", "pipe"}
  PROVE  /\ NextStage(r) \in {"ctrl", "netlink", "drain", "flag"}
         /\ NextStage(r) = "ctrl" => "ctl" \in r
         /\ NextStage(r) = "drain" => r \cap {"ctl", "netlink"} = {}
         /\ r = {} => NextStage(r) = "flag"
         /\ r \subseteq {"pipe"} => NextStage(r) \in {"drain", "flag"}
BY DEF NextStage

-----------------------------------------------------------------------------
(* Types.                                                                  *)

\* Every step keeps the types.
LEMMA TypeStep ==
  ASSUME DInv, Next
  PROVE  TypeOK'
<1> USE DEF Stages, Pending
<1>0. TypeOK /\ SeqInv /\ LoopInv
  BY DEF DInv, QueueInv
<1>1. ASSUME NEW k \in Kinds, Uevent(k) PROVE TypeOK'
  <2>1. kseq' \in 1 .. MaxEvents /\ kseq' = kseq + 1
    BY <1>0, <1>1 DEF Uevent, TypeOK
  <2>2. sock' \subseteq AllEvents
    BY <1>0, <1>1, <2>1, EventFacts DEF Uevent, TypeOK
  <2> QED
    BY <1>0, <1>1, <2>1, <2>2 DEF Uevent, TypeOK
<1>2. ASSUME NEW c \in Ctls, Control(c) PROVE TypeOK'
  BY <1>0, <1>2 DEF Control, TypeOK
<1>3. ASSUME NEW e \in running_list, ChildExit(e) PROVE TypeOK'
  BY <1>0, <1>3 DEF ChildExit, TypeOK
<1>4. CASE Select
  BY <1>0, <1>4, StageFacts DEF Select, Goto, TypeOK
<1>5. CASE GetCtrlMsg
  <2>1. ctl' \in Seq(Ctls) /\ Head(ctl) \in Ctls
    BY <1>0, <1>5 DEF GetCtrlMsg, TypeOK, LoopInv
  <2>2. ready' \subseteq ready /\ pc' \in Stages /\ back' \in Stages
    BY <1>0, <1>5, StageFacts DEF GetCtrlMsg, Goto, TypeOK
  <2> QED
    BY <1>0, <1>5, <2>1, <2>2 DEF GetCtrlMsg, TypeOK
<1>6. CASE GetNetlinkMsg
  BY <1>0, <1>6, EventFacts DEF GetNetlinkMsg, TypeOK, SeqInv
<1>7. CASE MsgQueueInsert
  <2> PICK e \in msg : \/ InsertQueued(e) \/ InsertAndRun(e)
                       \/ InsertAndFail(e) \/ InsertTraced(e)
    BY <1>7 DEF MsgQueueInsert
  <2>1. e \in AllEvents /\ e.dev \in Paths
    BY <1>0, EventFacts DEF TypeOK
  <2>2. /\ pc' \in Stages /\ ready' \subseteq ready /\ run_exec_q' \in BOOLEAN
        /\ queuefile' \subseteq Paths /\ failedfile' \subseteq Paths
        /\ exec_list' \cup running_list' \subseteq AllEvents
        /\ running_list \subseteq running_list'
    BY <1>0, <2>1, StageFacts
    DEF TypeOK, InsertQueued, InsertAndRun, InsertAndFail, InsertTraced,
        ExportQueued, Goto
  <2> QED
    BY <1>0, <1>7, <2>2 DEF MsgQueueInsert, TypeOK
<1>8. CASE WaitTraced
  <2> PICK e \in msg, z \in zombies :
        /\ z.event = e /\ zombies' = zombies \ {z}
        /\ running_list' = running_list \ {e} /\ UNCHANGED exec_list
        /\ msg_queue_delete(e, 0)
    BY <1>8 DEF WaitTraced
  <2>1. zombies' \subseteq [event : running_list', status : {0, 1}]
    BY <1>0 DEF TypeOK, SeqInv
  <2>2. queuefile' \subseteq Paths /\ failedfile' \subseteq Paths
    BY <1>0 DEF TypeOK, msg_queue_delete, ExportEnded
  <2> QED
    BY <1>0, <1>8, <2>1, <2>2, StageFacts DEF WaitTraced, TypeOK, Goto
<1>9. CASE DrainPipe
  BY <1>0, <1>9, StageFacts DEF DrainPipe, Goto, TypeOK
<1>10. CASE TestFlag
  BY <1>0, <1>10 DEF TestFlag, TypeOK
<1>11. CASE Reap
  <2> PICK z \in zombies :
        /\ zombies' = zombies \ {z}
        /\ running_list' = running_list \ {z.event} /\ UNCHANGED exec_list
        /\ msg_queue_delete(z.event, z.status)
    BY <1>11 DEF Reap
  <2>1. zombies' \subseteq [event : running_list', status : {0, 1}]
    BY <1>0 DEF TypeOK, SeqInv
  <2>2. queuefile' \subseteq Paths /\ failedfile' \subseteq Paths
    BY <1>0 DEF TypeOK, msg_queue_delete, ExportEnded
  <2> QED
    BY <1>0, <1>11, <2>1, <2>2 DEF Reap, TypeOK
<1>12. CASE ReapDone \/ TestRunQueue
  BY <1>0, <1>12 DEF ReapDone, TestRunQueue, TypeOK
<1>13. CASE Throttle \/ ManagerDone
  <2>1. 0 \in 0 .. MaxEvents
    OBVIOUS
  <2> QED
    BY <1>0, <1>13, <2>1 DEF Throttle, ManagerDone, ManagerReturn, TypeOK
<1>14. CASE Delay
  BY <1>0, <1>14, EventFacts DEF Delay, Candidates, TypeOK
<1>15. CASE Start
  BY <1>0, <1>15, EventFacts DEF Start, Candidates, TypeOK
<1>16. CASE StartFails
  <2> PICK e \in Candidates :
        /\ exec_list' = exec_list \ {e} /\ UNCHANGED running_list
        /\ msg_queue_delete(e, 0) /\ cursor' = e.seq
    BY <1>16 DEF StartFails
  <2>1. queuefile' \subseteq Paths /\ failedfile' \subseteq Paths
    BY <1>0 DEF TypeOK, msg_queue_delete, ExportEnded
  <2>2. cursor' \in 0 .. MaxEvents
    BY <1>0, EventFacts DEF Candidates, TypeOK
  <2> QED
    BY <1>0, <1>16, <2>1, <2>2 DEF StartFails, TypeOK
<1>17. CASE ExportInitialSeqnum
  BY <1>0, <1>17 DEF ExportInitialSeqnum, TypeOK
<1> QED
  BY <1>1, <1>2, <1>3, <1>4, <1>5, <1>6, <1>7, <1>8, <1>9, <1>10, <1>11, <1>12,
     <1>13, <1>14, <1>15, <1>16, <1>17 DEF Next, Daemon

-----------------------------------------------------------------------------
(* Numbers and overlap.                                                    *)

\* The steps that leave alone what SeqInv speaks of, but for the labels.
ListsKept == UNCHANGED <<kseq, sock, useq, exec_list, running_list, zombies, msg,
                         debug_trace>>

\* Every pending event and every event under way has a number.
LEMMA NumberFacts ==
  ASSUME TypeOK
  PROVE  /\ \A e \in Pending \cup msg \cup sock : e.seq \in Nat
         /\ useq \in Nat /\ kseq \in Nat
         /\ \A z \in zombies : z.event \in running_list
BY EventFacts DEF TypeOK

\* Every step keeps the order of the numbers and where an event may be.
LEMMA SeqStep ==
  ASSUME DInv, Next
  PROVE  SeqInv'
<1>0. TypeOK /\ SeqInv /\ LoopInv
  BY DEF DInv, QueueInv
<1>a. /\ \A e \in Pending \cup msg \cup sock : e.seq \in Nat
      /\ useq \in Nat /\ kseq \in Nat
      /\ \A z \in zombies : z.event \in running_list
  BY <1>0, NumberFacts
<1>1. ASSUME NEW k \in Kinds, Uevent(k) PROVE SeqInv'
  <2>1. kseq' = kseq + 1 /\ kseq' \in 1 .. MaxEvents
    BY <1>0, <1>1 DEF Uevent, TypeOK
  <2>2. Event(k, kseq').seq = kseq' /\ sock' = sock \cup {Event(k, kseq')}
    BY <1>1, <2>1, EventFacts DEF Uevent
  <2>3. /\ \A e \in sock' : e.seq <= kseq'
        /\ \A e, f \in sock' : e.seq = f.seq => e = f
    <3>1. \A e \in sock : e.seq <= kseq /\ e.seq \in Nat
      BY <1>0, <1>a DEF SeqInv
    <3>2. \A e, f \in sock : e.seq = f.seq => e = f
      BY <1>0 DEF SeqInv
    <3> QED
      BY <1>a, <2>1, <2>2, <3>1, <3>2
  <2>4. \A e \in sock', f \in Pending \cup msg : f.seq < e.seq
    <3>1. \A f \in Pending \cup msg : f.seq <= kseq
      BY <1>0, <1>a DEF SeqInv, TypeOK
    <3>2. \A e \in sock, f \in Pending \cup msg : f.seq < e.seq
      BY <1>0 DEF SeqInv
    <3> QED
      BY <1>a, <2>1, <2>2, <3>1, <3>2
  <2> QED
    BY <1>0, <1>1, <2>3, <2>4 DEF Uevent, SeqInv, Pending
<1>2. ASSUME NEW c \in Ctls, Control(c) PROVE SeqInv'
  BY <1>0, <1>2 DEF Control, SeqInv, Pending
<1>3. ASSUME NEW e \in running_list, ChildExit(e) PROVE SeqInv'
  <2>1. PICK s \in {0, 1} : zombies' = zombies \cup {[event |-> e, status |-> s]}
    BY <1>3 DEF ChildExit
  <2>2. \A z \in zombies : z.event # e
    BY <1>3 DEF ChildExit, Alive
  <2>3. \A y, z \in zombies' : y.event = z.event => y = z
    BY <1>0, <2>1, <2>2 DEF SeqInv
  <2> QED
    BY <1>0, <1>3, <2>3 DEF ChildExit, SeqInv, Pending
<1>4. CASE Select
  <2>1. ListsKept /\ pc = "select" /\ pc' \in {"ctrl", "netlink", "drain", "flag"}
    BY <1>0, <1>4, StageFacts DEF Select, Goto, ListsKept
  <2> QED
    BY <1>0, <2>1 DEF SeqInv, Pending, ListsKept
<1>5. CASE GetCtrlMsg
  <2>1. /\ ListsKept /\ pc = "ctrl"
        /\ pc' \in {"ctrl", "netlink", "drain", "flag", "manage"}
    BY <1>0, <1>5, StageFacts DEF GetCtrlMsg, Goto, ListsKept, TypeOK
  <2> QED
    BY <1>0, <2>1 DEF SeqInv, Pending, ListsKept
<1>6. CASE GetNetlinkMsg
  <2>1. PICK e \in sock : /\ IsFirst(e, sock)
                          /\ sock' = sock \ {e} /\ useq' = e.seq /\ msg' = {e}
    BY <1>6 DEF GetNetlinkMsg
  <2>2. \A f \in sock', g \in Pending \cup msg' : g.seq < f.seq
    BY <1>0, <1>a, <2>1 DEF SeqInv, IsFirst
  <2>3. \A f \in Pending : f.seq < useq'
    BY <1>0, <1>a, <2>1 DEF SeqInv
  <2>4. /\ UNCHANGED <<kseq, exec_list, running_list, zombies, debug_trace>>
        /\ pc' = "insert" /\ msg = {}
    BY <1>0, <1>6 DEF GetNetlinkMsg, SeqInv
  <2>5. Pending' = Pending
    BY <2>4 DEF Pending
  <2>6. \A f \in Pending' : f.seq <= useq'
    BY <1>a, <2>1, <2>3, <2>5
  <2> QED
    BY <1>0, <2>1, <2>2, <2>3, <2>4, <2>5, <2>6 DEF SeqInv
<1>7. CASE MsgQueueInsert
  <2>0. PICK e \in msg : \/ InsertQueued(e) \/ InsertAndRun(e)
                         \/ InsertAndFail(e) \/ InsertTraced(e)
    BY <1>7 DEF MsgQueueInsert
  <2>1. /\ UNCHANGED <<kseq, sock, useq, zombies, debug_trace>>
        /\ pc = "insert" /\ msg' = IF debug_trace THEN msg ELSE {}
    BY <1>7 DEF MsgQueueInsert
  <2>2. /\ e.seq = useq /\ e \notin Pending
        /\ \A f \in Pending : f.seq < useq
        /\ msg = {e}
    BY <1>0, <1>a, <2>0, <2>1 DEF SeqInv
  <2>3. /\ pc' \in {"wait", "ctrl", "netlink", "drain", "flag"}
        /\ pc' = "wait" <=> debug_trace
    BY <1>0, <2>0, StageFacts
    DEF InsertQueued, InsertAndRun, InsertAndFail, InsertTraced, Goto, TypeOK
  <2>4. /\ \A f \in exec_list' : f \notin running_list'
        /\ Pending' \subseteq Pending \cup msg
        /\ debug_trace => exec_list' = {} /\ running_list' \subseteq msg
    BY <1>0, <2>0, <2>2
    DEF InsertQueued, InsertAndRun, InsertAndFail, InsertTraced, Pending, SeqInv
  <2>5. /\ \A f \in Pending' : f.seq <= useq'
        /\ \A g \in sock', f \in Pending' \cup msg' : f.seq < g.seq
    BY <1>0, <1>a, <2>1, <2>2, <2>4 DEF SeqInv
  <2> QED
    BY <1>0, <2>1, <2>2, <2>3, <2>4, <2>5 DEF SeqInv
<1>8. CASE WaitTraced
  <2>1. PICK e \in msg, z \in zombies :
          /\ z.event = e /\ zombies' = zombies \ {z}
          /\ running_list' = running_list \ {e} /\ UNCHANGED exec_list
    BY <1>8 DEF WaitTraced
  <2>2. /\ UNCHANGED <<kseq, sock, useq, debug_trace>>
        /\ pc = "wait" /\ msg' = {}
        /\ pc' \in {"ctrl", "netlink", "drain", "flag"}
    BY <1>0, <1>8, StageFacts DEF WaitTraced, Goto, TypeOK
  <2>3. running_list' = {} /\ exec_list' = {}
    BY <1>0, <2>1, <2>2 DEF SeqInv
  <2> QED
    BY <1>0, <2>1, <2>2, <2>3 DEF SeqInv, Pending
<1>9. CASE DrainPipe
  <2>1. ListsKept /\ pc = "drain" /\ pc' \in {"ctrl", "netlink", "drain", "flag"}
    BY <1>0, <1>9, StageFacts DEF DrainPipe, Goto, ListsKept, TypeOK
  <2> QED
    BY <1>0, <2>1 DEF SeqInv, Pending, ListsKept
<1>10. CASE TestFlag \/ ReapDone \/ TestRunQueue
  <2>1. /\ ListsKept /\ pc \notin {"insert", "wait"}
        /\ pc' \notin {"insert", "wait", "start"}
    BY <1>10 DEF TestFlag, ReapDone, TestRunQueue, ListsKept
  <2> QED
    BY <1>0, <2>1 DEF SeqInv, Pending, ListsKept
<1>11. CASE Reap
  <2>1. PICK z \in zombies :
          /\ zombies' = zombies \ {z}
          /\ running_list' = running_list \ {z.event} /\ UNCHANGED exec_list
    BY <1>11 DEF Reap
  <2>2. /\ UNCHANGED <<kseq, sock, useq, debug_trace, msg>>
        /\ pc = "reap" /\ pc' = pc
    BY <1>11 DEF Reap
  <2> QED
    BY <1>0, <2>1, <2>2 DEF SeqInv, Pending
<1>12. CASE Throttle \/ ManagerDone \/ Delay
  <2>1. /\ ListsKept /\ pc \notin {"insert", "wait"}
        /\ pc' \notin {"insert", "wait", "start"}
    BY <1>0, <1>12 DEF Throttle, ManagerDone, ManagerReturn, Delay, ListsKept, LoopInv
  <2> QED
    BY <1>0, <2>1 DEF SeqInv, Pending, ListsKept
<1>13. CASE Start
  <2>1. PICK e \in exec_list : /\ exec_list' = exec_list \ {e}
                               /\ running_list' = running_list \cup {e}
    BY <1>13 DEF Start, Candidates
  <2>2. /\ UNCHANGED <<kseq, sock, useq, debug_trace, msg, zombies>>
        /\ pc = "manage" /\ pc' = pc
    BY <1>13 DEF Start
  <2>3. ~debug_trace /\ Pending' = Pending
    BY <1>0, <2>1 DEF SeqInv, Pending
  <2> QED
    BY <1>0, <2>1, <2>2, <2>3 DEF SeqInv
<1>14. CASE StartFails
  <2>1. PICK e \in exec_list : exec_list' = exec_list \ {e} /\ UNCHANGED running_list
    BY <1>14 DEF StartFails, Candidates
  <2>2. /\ UNCHANGED <<kseq, sock, useq, debug_trace, msg, zombies>>
        /\ pc = "manage" /\ pc' = pc
    BY <1>14 DEF StartFails
  <2> QED
    BY <1>0, <2>1, <2>2 DEF SeqInv, Pending
<1>15. CASE ExportInitialSeqnum
  <2>1. /\ UNCHANGED <<kseq, sock, exec_list, running_list, zombies, msg,
                       debug_trace>>
        /\ Pending = {} /\ msg = {} /\ pc' = "select"
    BY <1>0, <1>15 DEF ExportInitialSeqnum, SeqInv
  <2>2. Pending' = {} /\ msg' = {}
    BY <2>1 DEF Pending
  <2> QED
    BY <1>0, <2>1, <2>2 DEF SeqInv
<1> QED
  BY <1>1, <1>2, <1>3, <1>4, <1>5, <1>6, <1>7, <1>8, <1>9, <1>10, <1>11, <1>12,
     <1>13, <1>14, <1>15 DEF Next, Daemon

\* The lists with no order broken between them or within running_list.
NoConflict(E, R) ==
  /\ \A e, f \in R : e.seq < f.seq /\ ~f.timeout => ~Waits(f, e)
  /\ \A e \in E, f \in R : e.seq < f.seq /\ ~f.timeout => ~Waits(f, e)

\* NoOverlap and NotOvertaken speak of the two lists only.
LEMMA ConflictFacts ==
  /\ NoOverlap /\ NotOvertaken <=> NoConflict(exec_list, running_list)
  /\ (NoOverlap /\ NotOvertaken)' <=> NoConflict(exec_list', running_list')
BY DEF NoOverlap, NotOvertaken, NoConflict

\* No step lets two events that depend on each other run, or one overtake another.
LEMMA OverlapStep ==
  ASSUME DInv, Next
  PROVE  NoOverlap' /\ NotOvertaken'
<1>0. TypeOK /\ SeqInv /\ NoConflict(exec_list, running_list)
  BY ConflictFacts DEF DInv, QueueInv
<1>a. /\ \A e \in Pending \cup msg \cup sock : e.seq \in Nat
      /\ useq \in Nat /\ kseq \in Nat
  BY <1>0, NumberFacts
<1> SUFFICES NoConflict(exec_list', running_list')
  BY ConflictFacts
<1>1. CASE exec_list' \subseteq exec_list /\ running_list' \subseteq running_list
  BY <1>0, <1>1 DEF NoConflict
<1>2. CASE MsgQueueInsert
  <2>0. PICK e \in msg : \/ InsertQueued(e) \/ InsertAndRun(e)
                         \/ InsertAndFail(e) \/ InsertTraced(e)
    BY <1>2 DEF MsgQueueInsert
  <2>1. /\ e.seq \in Nat
        /\ \A f \in exec_list \cup running_list : f.seq < e.seq /\ f.seq \in Nat
    BY <1>0, <1>2, <1>a, <2>0 DEF MsgQueueInsert, SeqInv, Pending
  <2>2. CASE InsertQueued(e)
    BY <1>0, <2>1, <2>2 DEF InsertQueued, NoConflict
  <2>3. CASE InsertAndRun(e)
    BY <1>0, <2>1, <2>3 DEF InsertAndRun, NoConflict
  <2>4. CASE InsertAndFail(e)
    BY <1>0, <2>4 DEF InsertAndFail, NoConflict
  <2>5. CASE InsertTraced(e)
    <3>1. exec_list' = {} /\ running_list' = {e}
      BY <1>0, <2>1, <2>5 DEF InsertTraced, SeqInv
    <3> QED
      BY <2>1, <3>1 DEF NoConflict
  <2> QED
    BY <2>0, <2>2, <2>3, <2>4, <2>5
<1>3. CASE Start
  <2>1. PICK e \in exec_list : /\ ~Busy(e)
                               /\ exec_list' = exec_list \ {e}
                               /\ running_list' = running_list \cup {e}
    BY <1>3 DEF Start, Candidates
  <2>2. /\ \A f \in exec_list : f.seq < e.seq => ~Waits(e, f)
        /\ \A f \in running_list : ~Waits(e, f)
    BY <2>1 DEF Busy
  <2>3. \A f \in exec_list \cup running_list : f.seq \in Nat
    BY <1>a DEF Pending
  <2> QED
    BY <1>0, <2>1, <2>2, <2>3 DEF NoConflict
<1>4. CASE StartFails
  <2>1. exec_list' \subseteq exec_list /\ running_list' = running_list
    BY <1>4 DEF StartFails
  <2> QED
    BY <1>1, <2>1
<1>5. CASE WaitTraced \/ Reap
  <2>1. exec_list' = exec_list /\ running_list' \subseteq running_list
    BY <1>5 DEF WaitTraced, Reap
  <2> QED
    BY <1>1, <2>1
<1>6. CASE ExportInitialSeqnum \/ Select \/ GetCtrlMsg \/ GetNetlinkMsg
           \/ DrainPipe \/ TestFlag \/ ReapDone \/ TestRunQueue
  BY <1>1, <1>6 DEF ExportInitialSeqnum, Select, GetCtrlMsg, GetNetlinkMsg,
                    DrainPipe, TestFlag, ReapDone, TestRunQueue
<1>7. CASE Throttle \/ ManagerDone \/ Delay
  BY <1>1, <1>7 DEF Throttle, ManagerDone, Delay
<1>8. CASE \/ \E k \in Kinds : Uevent(k)
           \/ \E c \in Ctls : Control(c)
           \/ \E e \in running_list : ChildExit(e)
  BY <1>1, <1>8 DEF Uevent, Control, ChildExit
<1> QED
  BY <1>2, <1>3, <1>4, <1>5, <1>6, <1>7, <1>8 DEF Next, Daemon

-----------------------------------------------------------------------------
(* The flags of the loop, and the directory.                               *)

\* The loop keeps the two flags of the children and the order of its stages.
LEMMA LoopStep ==
  ASSUME DInv, Next
  PROVE  LoopInv' /\ ChildNoticed'
<1>0. TypeOK /\ LoopInv /\ ChildNoticed
  BY DEF DInv, QueueInv
<1>a. \A r \in SUBSET {"ctl", "netlink", "pipe"} :
        /\ NextStage(r) \in {"ctrl", "netlink", "drain", "flag"}
        /\ NextStage(r) = "ctrl" => "ctl" \in r
        /\ NextStage(r) = "drain" => r \cap {"ctl", "netlink"} = {}
        /\ r \subseteq {"pipe"} => NextStage(r) \in {"drain", "flag"}
        /\ r = {} => NextStage(r) = "flag"
  BY StageFacts
<1> USE DEF LoopInv, ChildNoticed
<1>1. ASSUME NEW k \in Kinds, Uevent(k) PROVE LoopInv' /\ ChildNoticed'
  BY <1>0, <1>1 DEF Uevent
<1>2. ASSUME NEW c \in Ctls, Control(c) PROVE LoopInv' /\ ChildNoticed'
  <2>1. ctl' # <<>>
    BY <1>0, <1>2 DEF Control, TypeOK
  <2> QED
    BY <1>0, <1>2, <2>1 DEF Control
<1>3. ASSUME NEW e \in running_list, ChildExit(e) PROVE LoopInv' /\ ChildNoticed'
  BY <1>0, <1>3 DEF ChildExit
<1>4. CASE Select
  BY <1>0, <1>a, <1>4 DEF Select, Goto
<1>5. CASE GetCtrlMsg
  <2> DEFINE r == ready \ {"ctl"}
  <2>1. /\ r \in SUBSET {"ctl", "netlink", "pipe"} /\ ready' = r
        /\ \/ pc' = "manage" /\ back' = NextStage(r)
           \/ pc' = NextStage(r) /\ back' = back
    BY <1>0, <1>5 DEF GetCtrlMsg, Goto, TypeOK
  <2>2. NextStage(r) \in {"netlink", "drain", "flag"}
    BY <1>a, <2>1
  <2>3. NextStage(r) = "drain" => r \cap {"ctl", "netlink"} = {}
    BY <1>a, <2>1
  <2>4. /\ pc = "ctrl" /\ "ctl" \notin r
        /\ UNCHANGED <<sigchilds_waiting, pipe, zombies>>
    BY <1>5 DEF GetCtrlMsg
  <2> HIDE DEF r
  <2> QED
    BY <1>0, <2>1, <2>2, <2>3, <2>4
<1>6. CASE GetNetlinkMsg
  BY <1>0, <1>6 DEF GetNetlinkMsg
<1>7. CASE MsgQueueInsert
  <2>1. /\ pc' = "wait" \/ pc' = NextStage(ready)
        /\ ready' = ready /\ pc = "insert"
        /\ UNCHANGED <<ctl, sigchilds_waiting, pipe, zombies, back>>
    BY <1>7 DEF MsgQueueInsert, InsertQueued, InsertAndRun, InsertAndFail,
                InsertTraced, Goto
  <2> QED
    BY <1>0, <1>a, <2>1 DEF TypeOK
<1>8. CASE WaitTraced
  <2>1. /\ pc' = NextStage(ready) /\ ready' = ready /\ pc = "wait"
        /\ UNCHANGED <<ctl, sigchilds_waiting, pipe, back>>
        /\ zombies' \subseteq zombies
    BY <1>8 DEF WaitTraced, Goto
  <2> QED
    BY <1>0, <1>a, <2>1 DEF TypeOK
<1>9. CASE DrainPipe
  <2>1. ready \subseteq {"pipe"}
    BY <1>0, <1>9 DEF DrainPipe, TypeOK
  <2>2. ready' = {} /\ pc' = NextStage(ready') /\ pc = "drain"
    BY <1>9, <2>1 DEF DrainPipe, Goto
  <2>3. pc' = "flag"
    BY <1>a, <2>2
  <2> QED
    BY <1>0, <1>9, <2>2, <2>3 DEF DrainPipe
<1>10. CASE TestFlag
  BY <1>0, <1>10 DEF TestFlag
<1>11. CASE Reap
  BY <1>0, <1>11 DEF Reap
<1>12. CASE ReapDone \/ TestRunQueue
  BY <1>0, <1>12 DEF ReapDone, TestRunQueue
<1>13. CASE Throttle \/ ManagerDone
  BY <1>0, <1>13 DEF Throttle, ManagerDone, ManagerReturn
<1>14. CASE Delay \/ Start \/ StartFails
  BY <1>0, <1>14 DEF Delay, Start, StartFails
<1>15. CASE ExportInitialSeqnum
  BY <1>0, <1>15 DEF ExportInitialSeqnum
<1> QED
  BY <1>1, <1>2, <1>3, <1>4, <1>5, <1>6, <1>7, <1>8, <1>9, <1>10, <1>11, <1>12,
     <1>13, <1>14, <1>15 DEF Next, Daemon

\* The end of an event takes its file away exactly when no other event of its
\* device is pending.
LEMMA EndedFacts ==
  ASSUME QueueShown, NEW e \in Pending, NEW asFailed \in BOOLEAN,
         ExportEnded(e, asFailed), Pending' = Pending \ {e}
  PROVE  /\ QueueShown'
         /\ failedfile' = (failedfile \ {e.dev})
              \cup (IF asFailed /\ e.dev \notin queuefile' THEN {e.dev} ELSE {})
<1>1. e.dev \in queuefile
  BY DEF QueueShown
<1>2. OthersPending(e) <=> \E f \in Pending' : f.dev = e.dev
  BY DEF OthersPending, Pending
<1>3. QueueShown'
  BY <1>2 DEF ExportEnded, QueueShown
<1>4. OthersPending(e) <=> e.dev \in queuefile'
  BY <1>2, <1>3 DEF QueueShown
<1> QED
  BY <1>1, <1>3, <1>4 DEF ExportEnded

\* What becomes of the event under way.
LEMMA InsertFacts ==
  ASSUME DInv, MsgQueueInsert
  PROVE  \E e \in msg :
           /\ e \in AllEvents /\ \A f \in Pending : f.seq < e.seq
           /\ \/ exec_list' = exec_list \cup {e} /\ running_list' = running_list
              \/ /\ e.timeout
                 /\ running_list' = running_list \cup {e} /\ exec_list' = exec_list
              \/ Pending = {} /\ exec_list' = exec_list /\ running_list' = {e}
              \/ exec_list' = exec_list /\ running_list' = running_list
           /\ failedfile' = failedfile \ {e.dev}
           /\ QueueShown'
<1>0. TypeOK /\ SeqInv /\ QueueShown
  BY DEF DInv, QueueInv
<1>1. PICK e \in msg : \/ InsertQueued(e) \/ InsertAndRun(e)
                       \/ InsertAndFail(e) \/ InsertTraced(e)
  BY DEF MsgQueueInsert
<1>2. e \in AllEvents /\ \A f \in Pending : f.seq < e.seq
  BY <1>0, <1>1 DEF MsgQueueInsert, SeqInv, TypeOK
<1>3. CASE InsertQueued(e)
  <2>1. QueueShown'
    BY <1>0, <1>3 DEF InsertQueued, ExportQueued, QueueShown, Pending
  <2> QED
    BY <1>1, <1>2, <1>3, <2>1 DEF InsertQueued, ExportQueued
<1>4. CASE InsertAndRun(e)
  <2>1. QueueShown'
    BY <1>0, <1>4 DEF InsertAndRun, ExportQueued, QueueShown, Pending
  <2> QED
    BY <1>1, <1>2, <1>4, <2>1 DEF InsertAndRun, ExportQueued
<1>5. CASE InsertAndFail(e)
  <2>1. OthersPending(e) <=> e.dev \in queuefile
    BY <1>0, <1>5 DEF InsertAndFail, OthersPending, QueueShown, Pending
  <2>2. QueueShown'
    BY <1>0, <1>5, <2>1 DEF InsertAndFail, QueueShown, Pending
  <2> QED
    BY <1>1, <1>2, <1>5, <2>2 DEF InsertAndFail
<1>6. CASE InsertTraced(e)
  <2>1. Pending = {}
    <3>1. running_list \subseteq {e} /\ exec_list = {}
      BY <1>0, <1>1, <1>6 DEF InsertTraced, SeqInv
    <3>2. e \notin Pending
      BY <1>0, <1>2, EventFacts DEF TypeOK
    <3> QED
      BY <3>1, <3>2 DEF Pending
  <2>2. QueueShown'
    BY <1>0, <1>6 DEF InsertTraced, ExportQueued, QueueShown, Pending
  <2> QED
    BY <1>1, <1>2, <1>6, <2>1, <2>2 DEF InsertTraced, ExportQueued, Pending
<1> QED
  BY <1>1, <1>3, <1>4, <1>5, <1>6

-----------------------------------------------------------------------------
(* Steps of EventSchedule.                                                 *)

\* What a step of the daemon is in EventSchedule's terms, said of the lists:
\* nothing, or an event that arrives, begins, is dropped or ends.
ListStep ==
  \/ UNCHANGED <<exec_list, running_list, queuefile, failedfile>>
  \/ \E e \in AllEvents : Schedule!Arrive(e)
  \/ \E e \in AllEvents : Schedule!Begin(e)
  \/ \E e \in AllEvents : Schedule!Drop(e)
  \/ \E e \in AllEvents, nonzero \in BOOLEAN : Schedule!End(e, nonzero)

\* The marks of EventSchedule are the queue directory.
LEMMA ShownFacts ==
  ASSUME QueueShown', NEW e, NEW asFailed \in BOOLEAN,
         failedfile' = (failedfile \ {e.dev})
           \cup (IF asFailed /\ e.dev \notin queuefile' THEN {e.dev} ELSE {})
  PROVE  Schedule!Shown(e, asFailed)
BY DEF QueueShown, Pending, Schedule!Shown, Schedule!DevsOf

\* An event that is not busy is first among those it depends on.
LEMMA UnblockedFacts ==
  ASSUME NEW e, ~Busy(e)
  PROVE  Schedule!Unblocked(e)
BY DEF Busy, Schedule!Unblocked

\* The end of an event that runs, seen in the lists and the directories.
LEMMA EndStep ==
  ASSUME DInv, NEW e \in running_list, NEW status \in {0, 1},
         running_list' = running_list \ {e}, UNCHANGED exec_list,
         msg_queue_delete(e, status)
  PROVE  QueueShown' /\ \E nonzero \in BOOLEAN : Schedule!End(e, nonzero)
<1>0. TypeOK /\ SeqInv /\ QueueShown
  BY DEF DInv, QueueInv
<1>1. Pending' = Pending \ {e} /\ e \in Pending
  BY <1>0 DEF SeqInv, Pending
<1> DEFINE asFailed == status # 0 /\ e.action = "add"
<1>2. ExportEnded(e, asFailed)
  BY DEF msg_queue_delete
<1>3. asFailed \in BOOLEAN
  OBVIOUS
<1> HIDE DEF asFailed
<1>4. /\ QueueShown'
      /\ failedfile' = (failedfile \ {e.dev})
           \cup (IF asFailed /\ e.dev \notin queuefile' THEN {e.dev} ELSE {})
  BY <1>0, <1>1, <1>2, <1>3, EndedFacts
<1>5. Schedule!Shown(e, asFailed)
  BY <1>3, <1>4, ShownFacts
<1>6. Schedule!End(e, status # 0)
  BY <1>5 DEF Schedule!End, asFailed
<1> QED
  BY <1>4, <1>6

\* A step of the daemon is a step of EventSchedule, or leaves its state alone.
LEMMA ScheduleStep ==
  ASSUME DInv, Next
  PROVE  ListStep /\ QueueShown'
<1>0. TypeOK /\ SeqInv /\ QueueShown /\ Pending \subseteq AllEvents
  BY DEF DInv, QueueInv, TypeOK
<1>a. UNCHANGED <<exec_list, running_list, queuefile, failedfile>>
        => ListStep /\ QueueShown'
  BY <1>0 DEF ListStep, QueueShown, Pending
<1>1. CASE \/ \E k \in Kinds : Uevent(k)
           \/ \E c \in Ctls : Control(c)
           \/ \E e \in running_list : ChildExit(e)
  BY <1>1, <1>a DEF Uevent, Control, ChildExit
<1>2. CASE ExportInitialSeqnum \/ Select \/ GetCtrlMsg \/ GetNetlinkMsg
           \/ DrainPipe \/ TestFlag \/ ReapDone \/ TestRunQueue
  BY <1>2, <1>a DEF ExportInitialSeqnum, Select, GetCtrlMsg, GetNetlinkMsg,
                    DrainPipe, TestFlag, ReapDone, TestRunQueue
<1>3. CASE Throttle \/ ManagerDone \/ Delay
  BY <1>3, <1>a DEF Throttle, ManagerDone, Delay
<1>4. CASE MsgQueueInsert
  <2>1. PICK e \in msg :
          /\ e \in AllEvents /\ \A f \in Pending : f.seq < e.seq
          /\ \/ exec_list' = exec_list \cup {e} /\ running_list' = running_list
             \/ /\ e.timeout
                /\ running_list' = running_list \cup {e} /\ exec_list' = exec_list
             \/ Pending = {} /\ exec_list' = exec_list /\ running_list' = {e}
             \/ exec_list' = exec_list /\ running_list' = running_list
          /\ failedfile' = failedfile \ {e.dev}
          /\ QueueShown'
    BY <1>4, InsertFacts
  <2>2. Schedule!Newest(e)
    BY <2>1 DEF Schedule!Newest, Pending
  <2>3. Schedule!Shown(e, FALSE)
    BY <2>1, ShownFacts
  <2>4. Schedule!Arrive(e)
    BY <2>1, <2>2, <2>3 DEF Schedule!Arrive, Pending
  <2> QED
    BY <2>1, <2>4 DEF ListStep
<1>5. CASE WaitTraced
  <2>1. PICK e \in msg, z \in zombies :
          /\ z.event = e /\ zombies' = zombies \ {z}
          /\ running_list' = running_list \ {e} /\ UNCHANGED exec_list
          /\ msg_queue_delete(e, 0)
    BY <1>5 DEF WaitTraced
  <2>2. e \in running_list
    BY <1>0, <2>1, NumberFacts
  <2> QED
    BY <1>0, <2>1, <2>2, EndStep DEF ListStep, Pending
<1>6. CASE Reap
  <2>1. PICK z \in zombies :
          /\ running_list' = running_list \ {z.event} /\ UNCHANGED exec_list
          /\ msg_queue_delete(z.event, z.status)
    BY <1>6 DEF Reap
  <2>2. z.event \in running_list /\ z.status \in {0, 1}
    BY <1>0, <2>1 DEF TypeOK
  <2> QED
    BY <1>0, <2>1, <2>2, EndStep DEF ListStep, Pending
<1>7. CASE Start
  <2>1. PICK e \in exec_list : /\ ~Busy(e)
                               /\ exec_list' = exec_list \ {e}
                               /\ running_list' = running_list \cup {e}
    BY <1>7 DEF Start, Candidates
  <2>2. UNCHANGED <<queuefile, failedfile>> /\ Pending' = Pending
    BY <1>7, <2>1 DEF Start, Pending
  <2>3. Schedule!Begin(e)
    BY <2>1, <2>2, UnblockedFacts DEF Schedule!Begin
  <2> QED
    BY <1>0, <2>1, <2>2, <2>3 DEF ListStep, QueueShown, Pending
<1>8. CASE StartFails
  <2>1. PICK e \in exec_list : /\ ~Busy(e)
                               /\ exec_list' = exec_list \ {e}
                               /\ UNCHANGED running_list
                               /\ msg_queue_delete(e, 0)
    BY <1>8 DEF StartFails, Candidates
  <2>2. Pending' = Pending \ {e} /\ e \in Pending
    BY <1>0, <2>1 DEF SeqInv, Pending
  <2>3. ExportEnded(e, FALSE)
    BY <2>1 DEF msg_queue_delete
  <2>4. /\ QueueShown'
        /\ failedfile' = (failedfile \ {e.dev})
             \cup (IF FALSE /\ e.dev \notin queuefile' THEN {e.dev} ELSE {})
    BY <1>0, <2>2, <2>3, EndedFacts
  <2>5. Schedule!Shown(e, FALSE)
    BY <2>4, ShownFacts
  <2>6. Schedule!Drop(e)
    BY <2>1, <2>5, UnblockedFacts DEF Schedule!Drop
  <2> QED
    BY <1>0, <2>1, <2>4, <2>6 DEF ListStep, Pending
<1> QED
  BY <1>1, <1>2, <1>3, <1>4, <1>5, <1>6, <1>7, <1>8 DEF Next, Daemon
-----------------------------------------------------------------------------
(* No sleep over a queue that could be run.  Another busy process in the   *)
(* session, or a limit of one, may keep the daemon from ever starting a    *)
(* child: QuietHost says that the host does not.                           *)

QuietHost == /\ Load = 0 /\ MaxRunning >= 2
             /\ \A c \in Ctls : c.type = "max_running" => c.val >= 2

\* The queue manager has left nothing behind that it could have started, as
\* long as nothing runs; whoever waits then is flagged, or about to be looked
\* at; and the flag is served before the daemon sleeps.
DrainInv ==
  /\ max_childs_running >= 2
  /\ \A e, f \in exec_list : e.seq = f.seq => e = f
  /\ pc # "manage" => cursor = 0
  /\ pc = "manage" /\ running_list = {} => \A e \in exec_list : cursor < e.seq
  /\ pc \in {"start", "select"} \/ (pc = "manage" /\ back = "select") =>
       ~run_exec_q
  /\ exec_list # {} /\ running_list = {} /\ ~stop_exec_q =>
       run_exec_q \/ pc = "manage"

\* With nothing running no limit is reached, and the oldest event waits for none.
LEMMA IdleFacts ==
  ASSUME DInv, QuietHost, DrainInv, pc = "manage", running_list = {}
  PROVE  /\ ~MayThrottle /\ Candidates = exec_list
         /\ \A e \in Candidates : IsFirst(e, Candidates) => ~Busy(e)
<1>0. TypeOK /\ \A e \in exec_list : e.seq \in Nat
  BY NumberFacts DEF DInv, Pending
<1>1. Cardinality(running_list) = 0 /\ Cardinality(Alive) = 0
  <2>1. running_list = {} /\ Alive = {}
    BY DEF Alive
  <2> QED
    BY <2>1, FS_EmptySet
<1>2. ~MayThrottle
  BY <1>0, <1>1 DEF MayThrottle, QuietHost, DrainInv, TypeOK
<1>3. ~TooMany
  BY <1>0, <1>1 DEF TooMany, TypeOK
<1>4. Candidates = exec_list
  BY DEF DrainInv, Candidates
<1>5. ASSUME NEW e \in Candidates, IsFirst(e, Candidates) PROVE ~Busy(e)
  BY <1>0, <1>3, <1>4, <1>5 DEF Busy, IsFirst
<1> QED
  BY <1>2, <1>4, <1>5

\* The events that are pending at a step of the manager have numbers of their own.
LEMMA DrainStep ==
  ASSUME DInv, QuietHost, DrainInv, Next
  PROVE  DrainInv'
<1>0. TypeOK /\ SeqInv /\ LoopInv
  BY DEF DInv, QueueInv
<1>a. /\ \A e \in exec_list : e.seq \in Nat /\ 0 < e.seq
      /\ useq \in Nat /\ cursor \in Nat
  BY <1>0, EventFacts DEF TypeOK, Pending
<1>b. \A r \in SUBSET {"ctl", "netlink", "pipe"} :
        NextStage(r) \in {"ctrl", "netlink", "drain", "flag"}
  BY StageFacts
<1>1. CASE \/ \E k \in Kinds : Uevent(k)
           \/ \E c \in Ctls : Control(c)
           \/ \E e \in running_list : ChildExit(e)
  BY <1>1 DEF DrainInv, Uevent, Control, ChildExit
<1>2. CASE Select
  BY <1>0, <1>b, <1>2 DEF DrainInv, Select, Goto, TypeOK
<1>3. CASE GetCtrlMsg
  <2> DEFINE r == ready \ {"ctl"}
             c == Head(ctl)
  <2>1. c \in Ctls /\ r \in SUBSET {"ctl", "netlink", "pipe"}
    BY <1>0, <1>3 DEF GetCtrlMsg, TypeOK, LoopInv
  <2>2. /\ max_childs_running' =
             IF c.type = "max_running" THEN c.val ELSE max_childs_running
        /\ stop_exec_q' = CASE c.type = "stop"  -> TRUE
                            [] c.type = "start" -> FALSE
                            [] OTHER -> stop_exec_q
        /\ pc = "ctrl"
        /\ \/ c.type = "start" /\ pc' = "manage" /\ back' = NextStage(r)
           \/ c.type # "start" /\ pc' = NextStage(r) /\ back' = back
        /\ UNCHANGED <<exec_list, running_list, run_exec_q, cursor>>
    BY <1>3 DEF GetCtrlMsg, Goto
  <2>3. NextStage(r) \in {"ctrl", "netlink", "drain", "flag"}
    BY <1>b, <2>1
  <2>4. max_childs_running' >= 2
    BY <2>1, <2>2 DEF QuietHost, DrainInv
  <2>5. stop_exec_q' \/ c.type = "start" \/ stop_exec_q' = stop_exec_q
    BY <2>2
  <2> HIDE DEF r, c
  <2> QED
    BY <1>a, <2>2, <2>3, <2>4, <2>5 DEF DrainInv
<1>4. CASE GetNetlinkMsg
  BY <1>4 DEF DrainInv, GetNetlinkMsg
<1>5. CASE MsgQueueInsert
  <2>1. PICK e \in msg : \/ InsertQueued(e) \/ InsertAndRun(e)
                         \/ InsertAndFail(e) \/ InsertTraced(e)
    BY <1>5 DEF MsgQueueInsert
  <2>2. /\ e.seq = useq /\ \A f \in exec_list : f.seq < useq
        /\ pc = "insert"
    BY <1>0, <1>5, <2>1 DEF MsgQueueInsert, SeqInv, Pending
  <2>3. \A f, g \in exec_list \cup {e} : f.seq = g.seq => f = g
    BY <1>a, <2>2 DEF DrainInv
  <2>4. pc' \in {"wait", "ctrl", "netlink", "drain", "flag"}
    BY <1>0, <1>b, <2>1 DEF TypeOK, InsertQueued, InsertAndRun, InsertAndFail,
                            InsertTraced, Goto
  <2>5. \/ exec_list' = exec_list \cup {e} /\ run_exec_q'
        \/ UNCHANGED <<exec_list, run_exec_q>> /\ running_list \subseteq running_list'
    BY <2>1 DEF InsertQueued, InsertAndRun, InsertAndFail, InsertTraced
  <2>6. UNCHANGED <<max_childs_running, stop_exec_q, cursor>>
    BY <1>5 DEF MsgQueueInsert
  <2> QED
    BY <2>2, <2>3, <2>4, <2>5, <2>6 DEF DrainInv
<1>6. CASE WaitTraced
  <2>1. pc = "wait" /\ exec_list = {} /\ exec_list' = {}
    BY <1>0, <1>6 DEF WaitTraced, SeqInv
  <2>2. pc' \in {"ctrl", "netlink", "drain", "flag"}
    BY <1>0, <1>b, <1>6 DEF WaitTraced, Goto, TypeOK
  <2> QED
    BY <1>6, <2>1, <2>2 DEF DrainInv, WaitTraced
<1>7. CASE DrainPipe
  BY <1>0, <1>b, <1>7 DEF DrainInv, DrainPipe, Goto, TypeOK
<1>8. CASE TestFlag \/ ReapDone
  BY <1>8 DEF DrainInv, TestFlag, ReapDone
<1>9. CASE Reap
  BY <1>9 DEF DrainInv, Reap
<1>10. CASE TestRunQueue
  BY <1>a, <1>10 DEF DrainInv, TestRunQueue
<1>11. CASE Throttle
  <2>1. running_list # {}
    BY <1>11, IdleFacts DEF Throttle
  <2> QED
    BY <1>0, <1>11, <2>1 DEF DrainInv, Throttle, ManagerReturn, LoopInv
<1>12. CASE ManagerDone
  <2>1. running_list = {} => exec_list = {}
    BY <1>12, IdleFacts DEF ManagerDone
  <2> QED
    BY <1>0, <1>12, <2>1 DEF DrainInv, ManagerDone, ManagerReturn, LoopInv
<1>13. CASE Delay
  <2>1. running_list # {}
    BY <1>13, IdleFacts DEF Delay
  <2> QED
    BY <1>13, <2>1 DEF DrainInv, Delay
<1>14. CASE Start
  <2>1. PICK e \in Candidates : /\ running_list' = running_list \cup {e}
                                /\ exec_list' = exec_list \ {e}
    BY <1>14 DEF Start
  <2> QED
    BY <1>14, <2>1 DEF DrainInv, Start
<1>15. CASE StartFails
  <2>1. PICK e \in Candidates : /\ IsFirst(e, Candidates) /\ cursor' = e.seq
                                /\ exec_list' = exec_list \ {e}
    BY <1>15 DEF StartFails
  <2>2. UNCHANGED <<running_list, max_childs_running, stop_exec_q, run_exec_q,
                    pc, back>> /\ pc = "manage"
    BY <1>15 DEF StartFails
  <2>3. running_list = {} => \A f \in exec_list' : cursor' < f.seq
    <3> SUFFICES ASSUME running_list = {}, NEW f \in exec_list \ {e}
                 PROVE  e.seq < f.seq
      BY <2>1
    <3>1. e.seq <= f.seq /\ e \in exec_list
      BY <2>1, <2>2, IdleFacts DEF IsFirst
    <3> QED
      BY <1>a, <3>1 DEF DrainInv
  <2> QED
    BY <2>1, <2>2, <2>3 DEF DrainInv
<1>16. CASE ExportInitialSeqnum
  <2>1. exec_list' = {}
    BY <1>0, <1>16 DEF ExportInitialSeqnum, SeqInv, Pending
  <2> QED
    BY <1>16, <2>1 DEF DrainInv, ExportInitialSeqnum
<1> QED
  BY <1>1, <1>2, <1>3, <1>4, <1>5, <1>6, <1>7, <1>8, <1>9, <1>10, <1>11, <1>12,
     <1>13, <1>14, <1>15, <1>16 DEF Next, Daemon
-----------------------------------------------------------------------------
(* The results.                                                            *)

\* DInv holds in every state: the invariant the others rest on.
THEOREM Inductive == Spec => []DInv
<1>1. DInv /\ [Next]_vars => DInv'
  <2> SUFFICES ASSUME DInv, [Next]_vars PROVE DInv'
    OBVIOUS
  <2>1. CASE Next
    BY <2>1, TypeStep, SeqStep, OverlapStep, LoopStep, ScheduleStep
    DEF DInv, QueueInv
  <2>2. CASE UNCHANGED vars
    BY <2>2 DEF vars, DInv, TypeOK, QueueInv, SeqInv, NotOvertaken, LoopInv,
                QueueShown, NoOverlap, ChildNoticed, Pending
  <2> QED
    BY <2>1, <2>2
<1> QED
  BY <1>1, InitOK, PTL DEF Spec

\* Every variable keeps its type.
THEOREM TypeCorrect == Spec => []TypeOK
<1>1. DInv => TypeOK
  BY DEF DInv
<1> QED
  BY <1>1, Inductive, PTL

\* No event runs beside an older one that it has to wait for, however the queue
\* manager, the children and the kernel interleave.
THEOREM Exclusion == Spec => []NoOverlap
<1>1. DInv => NoOverlap
  BY DEF DInv
<1> QED
  BY <1>1, Inductive, PTL

\* The exit of a child at any moment of the loop is noticed.
THEOREM ChildrenAreNoticed == Spec => []ChildNoticed
<1>1. DInv => ChildNoticed
  BY DEF DInv
<1> QED
  BY <1>1, Inductive, PTL

\* No event overtakes an older one that it waits for, events are received in
\* their order from the daemon's start on, whatever had gathered in the socket,
\* and the queue directory shows exactly the devices of the pending events.
THEOREM QueueIsKept == Spec => []QueueInv
<1>1. DInv => QueueInv
  BY DEF DInv
<1> QED
  BY <1>1, Inductive, PTL

\* On a host that does not throttle it, the daemon never sleeps over an event
\* while nothing runs: whatever control messages, failing forks and exits of
\* children come between.
THEOREM QueueIsDrained ==
  ASSUME QuietHost
  PROVE  Spec => []QueueDrains
<1>1. Init => DrainInv
  BY DEF Init, DrainInv, QuietHost
<1>2. DInv /\ DrainInv /\ [Next]_vars => DrainInv'
  <2> SUFFICES ASSUME DInv, DrainInv, [Next]_vars PROVE DrainInv'
    OBVIOUS
  <2>1. CASE Next
    BY <2>1, DrainStep
  <2>2. CASE UNCHANGED vars
    BY <2>2 DEF vars, DrainInv
  <2> QED
    BY <2>1, <2>2
<1>3. DrainInv => QueueDrains
  BY DEF DrainInv, QueueDrains
<1> QED
  BY <1>1, <1>2, <1>3, Inductive, PTL DEF Spec

\* The daemon implements EventSchedule.
THEOREM Refinement == Spec => ImplementsSchedule
<1>1. Init => Schedule!Init
  BY DEF Init, Schedule!Init
<1>2. DInv /\ [Next]_vars => [Schedule!Next]_(Schedule!vars)
  <2> SUFFICES ASSUME DInv, [Next]_vars PROVE [Schedule!Next]_(Schedule!vars)
    OBVIOUS
  <2>1. CASE Next
    <3>1. ListStep
      BY <2>1, ScheduleStep
    <3> QED
      BY <3>1 DEF ListStep, Schedule!Next, Schedule!vars
  <2>2. CASE UNCHANGED vars
    BY <2>2 DEF vars, Schedule!vars
  <2> QED
    BY <2>1, <2>2
<1> QED
  BY <1>1, <1>2, Inductive, PTL DEF Spec, ImplementsSchedule, Schedule!Spec
=============================================================================
