-------------------------------- MODULE Udevd --------------------------------
(***************************************************************************)
(* udevd, the device event daemon of udev-113: it receives the kernel's    *)
(* uevents, keeps those that must wait in exec_list, runs one child process*)
(* per event and tells other programs through files what is unfinished.    *)
(*                                                                         *)
(* One thread, a loop around select(); pc is its next step.  It interleaves*)
(* with the kernel (uevents), udevcontrol (control messages) and its       *)
(* children, whose exit runs the SIGCHLD handler between any two steps.    *)
(* exec_list and running_list are sets of events: the netlink socket       *)
(* delivers in the order of seqnum, so the order of the lists is that of   *)
(* seq.  A path is the sequence of its components.                         *)
(*                                                                         *)
(* The kernel's numbers are counted from the moment udevd binds its netlink*)
(* socket, with no file left of an earlier udevd.                          *)
(***************************************************************************)
EXTENDS Naturals, Sequences, FiniteSets

CONSTANTS Paths,      \* the devpaths, non-empty sequences
          NoPath,     \* physdevpath is not set
          Kinds,      \* what the kernel reports: [dev, action, phys, timeout]
          MaxEvents,  \* bound on the uevents sent
          Ctls,       \* control messages: [type, val]
          MaxCtl,     \* bound on the control messages sent
          MaxChilds,  \* max_childs at the start: 0 is no limit
          MaxRunning, \* max_childs_running at the start
          Load,       \* other busy processes in the daemon's session, at most
          Debug       \* the values debug_trace may have

ASSUME PathAssumption == NoPath \notin Paths /\ Paths \subseteq Seq(STRING)
ASSUME KindAssumption ==
         Kinds \subseteq [dev : Paths, action : {"add", "remove", "change"},
                          phys : Paths \cup {NoPath}, timeout : BOOLEAN]
ASSUME BoundAssumption ==
         /\ MaxEvents \in Nat /\ MaxCtl \in Nat /\ Load \in Nat
         /\ MaxChilds \in Nat /\ MaxRunning \in Nat
ASSUME CtlAssumption ==
         Ctls \subseteq [type : {"stop", "start", "max_childs", "max_running"},
                         val : Nat]
ASSUME DebugAssumption == Debug \subseteq BOOLEAN

VARIABLES kseq,       \* the kernel's uevent_seqnum
          sock,       \* events in the netlink socket
          sent, ctl,  \* control messages sent so far; those in udevd_sock
          useq,       \* the number in the file EVENT_SEQNUM
          queuefile,  \* the devices with a file in EVENT_QUEUE_DIR
          failedfile, \* the devices with a file in EVENT_FAILED_DIR
          exec_list, running_list,
          zombies,    \* children that exited and were not waited for: [event, status]
          sigchilds_waiting,
          pipe,       \* a byte is in signal_pipe
          run_exec_q, stop_exec_q, max_childs, max_childs_running, debug_trace,
          pc,
          ready,      \* the descriptors select() reported, not yet served
          msg,        \* the event being inserted, in a set; or {}
          cursor,     \* seq of the event msg_queue_manager looked at last
          back        \* where msg_queue_manager returns to

input  == <<kseq, sock, sent, ctl>>
files  == <<useq, queuefile, failedfile>>
lists  == <<exec_list, running_list, zombies>>
signal == <<sigchilds_waiting, pipe>>
config == <<stop_exec_q, max_childs, max_childs_running, debug_trace>>
loop   == <<pc, ready, msg, cursor, back>>
vars == <<kseq, sock, sent, ctl, useq, queuefile, failedfile, exec_list,
          running_list, zombies, sigchilds_waiting, pipe, run_exec_q,
          stop_exec_q, max_childs, max_childs_running, debug_trace, pc, ready,
          msg, cursor, back>>

Pending == exec_list \cup running_list
Alive   == running_list \ {z.event : z \in zombies}

\* compare_devpath() # 0: the same device, a parent or a child.
Related(a, b) == LET n == IF Len(a) < Len(b) THEN Len(a) ELSE Len(b)
                 IN  \A i \in 1 .. n : a[i] = b[i]

\* e has to wait for f, an earlier event.
Waits(e, f) == \/ Related(f.dev, e.dev)
               \/ /\ e.phys # NoPath /\ e.action = "add"
                  /\ Related(f.dev, e.phys)

IsFirst(e, E) == \A f \in E : e.seq <= f.seq

Init == /\ kseq = 0 /\ sock = {} /\ sent = 0 /\ ctl = <<>>
        /\ useq = 0 /\ queuefile = {} /\ failedfile = {}
        /\ exec_list = {} /\ running_list = {} /\ zombies = {}
        /\ sigchilds_waiting = FALSE /\ pipe = FALSE
        /\ run_exec_q = FALSE /\ stop_exec_q = FALSE
        /\ max_childs = MaxChilds /\ max_childs_running = MaxRunning
        /\ debug_trace \in Debug
        /\ pc = "start" /\ ready = {} /\ msg = {} /\ cursor = 0
        /\ back = "select"
-----------------------------------------------------------------------------
(* The kernel, udevcontrol and the event processes.                        *)

Event(k, s) == [seq |-> s, dev |-> k.dev, action |-> k.action,
                phys |-> k.phys, timeout |-> k.timeout]

Uevent(k) ==
  /\ kseq < MaxEvents
  /\ kseq' = kseq + 1
  /\ sock' = sock \cup {Event(k, kseq')}
  /\ UNCHANGED <<sent, ctl, files, lists, signal, run_exec_q, config, loop>>

Control(c) ==
  /\ sent < MaxCtl
  /\ sent' = sent + 1 /\ ctl' = Append(ctl, c)
  /\ UNCHANGED <<kseq, sock, files, lists, signal, run_exec_q, config, loop>>

\* A child exits, of itself or by the SIGALRM it set; SIGCHLD's handler runs.
ChildExit(e) ==
  /\ e \in Alive
  /\ \E status \in {0, 1} :
       zombies' = zombies \cup {[event |-> e, status |-> status]}
  /\ sigchilds_waiting' = TRUE /\ pipe' = TRUE
  /\ UNCHANGED <<input, files, exec_list, running_list, run_exec_q, config,
                 loop>>
-----------------------------------------------------------------------------
(* The queue directories and the lists.                                    *)

\* export_event_state, EVENT_QUEUED
ExportQueued(e) == /\ failedfile' = failedfile \ {e.dev}
                   /\ queuefile' = queuefile \cup {e.dev}

\* e is a member of the lists no more.
OthersPending(e) == \E f \in exec_list' \cup running_list' : f.dev = e.dev

\* Mutant: the queue file goes although another event of the device is pending.
ExportEnded_Always(e, asFailed) ==
  /\ queuefile' = queuefile \ {e.dev}
  /\ failedfile' = (failedfile \ {e.dev})
                     \cup (IF asFailed THEN {e.dev} \cap queuefile ELSE {})

\* export_event_state, EVENT_FINISHED and EVENT_FAILED: the rename moves the
\* queue file to the failed directory.
ExportEnded(e, asFailed) ==
  /\ queuefile' = IF OthersPending(e) THEN queuefile ELSE queuefile \ {e.dev}
  /\ failedfile' = (failedfile \ {e.dev})
       \cup (IF asFailed /\ ~OthersPending(e) THEN {e.dev} \cap queuefile ELSE {})

\* After list_del: an add event with a non-zero exit status is a failure.
msg_queue_delete(e, status) == ExportEnded(e, status # 0 /\ e.action = "add")
-----------------------------------------------------------------------------
(* The start, and the main loop up to the insertion of an event.           *)

\* The socket is bound already: the kernel's number, or 0 if it cannot be read,
\* goes to the file while the events it counts may still be in the socket.
ExportInitialSeqnum ==
  /\ pc = "start"
  /\ useq' \in {kseq, 0}
  /\ pc' = "select"
  /\ UNCHANGED <<input, queuefile, failedfile, lists, signal, run_exec_q,
                 config, ready, msg, cursor, back>>

\* The descriptors that are ready are served in this order; then the flag.
NextStage(r) == IF "ctl" \in r THEN "ctrl"
                ELSE IF "netlink" \in r THEN "netlink"
                ELSE IF "pipe" \in r THEN "drain" ELSE "flag"

Goto(r) == ready' = r /\ pc' = NextStage(r)

Select ==
  /\ pc = "select"
  /\ LET r == (IF ctl # <<>> THEN {"ctl"} ELSE {})
                \cup (IF sock # {} THEN {"netlink"} ELSE {})
                \cup (IF pipe THEN {"pipe"} ELSE {})
     IN  r # {} /\ Goto(r)
  /\ UNCHANGED <<input, files, lists, signal, run_exec_q, config, msg, cursor,
                 back>>

\* Mutant: the start message only clears the flag.
GetCtrlMsg_FlagOnly ==
  /\ pc = "ctrl"
  /\ ctl' = Tail(ctl)
  /\ LET c == Head(ctl)
     IN  stop_exec_q' = CASE c.type = "stop"  -> TRUE
                          [] c.type = "start" -> FALSE
                          [] OTHER -> stop_exec_q
  /\ Goto(ready \ {"ctl"})
  /\ UNCHANGED <<kseq, sock, sent, files, lists, signal, run_exec_q,
                 max_childs, max_childs_running, debug_trace, msg, cursor, back>>

\* The message sets a limit or stops or starts the queue.  Starting calls
\* the queue manager; neither limit does.
GetCtrlMsg ==
  /\ pc = "ctrl"
  /\ ctl' = Tail(ctl)
  /\ LET c == Head(ctl)
         r == ready \ {"ctl"}
     IN  /\ stop_exec_q' = CASE c.type = "stop"  -> TRUE
                             [] c.type = "start" -> FALSE
                             [] OTHER -> stop_exec_q
         /\ max_childs' = IF c.type = "max_childs" THEN c.val ELSE max_childs
         /\ max_childs_running' =
              IF c.type = "max_running" THEN c.val ELSE max_childs_running
         /\ IF c.type = "start"
            THEN pc' = "manage" /\ back' = NextStage(r) /\ ready' = r
            ELSE Goto(r) /\ UNCHANGED back
  /\ UNCHANGED <<kseq, sock, sent, files, lists, signal, run_exec_q,
                 debug_trace, msg, cursor>>

\* get_netlink_msg, and msg_queue_insert up to the number file.
GetNetlinkMsg ==
  /\ pc = "netlink"
  /\ \E e \in sock :
       /\ IsFirst(e, sock)
       /\ sock' = sock \ {e} /\ useq' = e.seq /\ msg' = {e}
  /\ pc' = "insert" /\ ready' = ready \ {"netlink"}
  /\ UNCHANGED <<kseq, sent, ctl, queuefile, failedfile, lists, signal,
                 run_exec_q, config, cursor, back>>

\* The rest of msg_queue_insert when the event waits its turn.
InsertQueued(e) ==
  /\ ~debug_trace /\ ~e.timeout
  /\ exec_list' = exec_list \cup {e} /\ run_exec_q' = TRUE
  /\ ExportQueued(e)
  /\ Goto(ready)
  /\ UNCHANGED running_list

\* An event with a timeout is run at once.
InsertAndRun(e) ==
  /\ ~debug_trace /\ e.timeout
  /\ running_list' = running_list \cup {e}
  /\ ExportQueued(e)
  /\ Goto(ready)
  /\ UNCHANGED <<exec_list, run_exec_q>>

\* ... and forgotten when fork fails.
InsertAndFail(e) ==
  /\ ~debug_trace /\ e.timeout
  /\ UNCHANGED <<exec_list, running_list, run_exec_q>>
  /\ queuefile' = IF OthersPending(e) THEN queuefile \cup {e.dev}
                  ELSE queuefile \ {e.dev}
  /\ failedfile' = failedfile \ {e.dev}
  /\ Goto(ready)

\* In debug mode udevd waits for the child before it goes on.
InsertTraced(e) ==
  /\ debug_trace
  /\ running_list' = running_list \cup {e}
  /\ ExportQueued(e)
  /\ pc' = "wait"
  /\ UNCHANGED <<exec_list, run_exec_q, ready>>

MsgQueueInsert ==
  /\ pc = "insert"
  /\ \E e \in msg : \/ InsertQueued(e) \/ InsertAndRun(e)
                    \/ InsertAndFail(e) \/ InsertTraced(e)
  /\ msg' = IF debug_trace THEN msg ELSE {}
  /\ UNCHANGED <<input, useq, zombies, signal, config, cursor, back>>

\* waitpid(msg->pid) takes the child, but its status is not looked at.
WaitTraced ==
  /\ pc = "wait"
  /\ \E e \in msg, z \in zombies :
       /\ z.event = e
       /\ zombies' = zombies \ {z}
       /\ running_list' = running_list \ {e} /\ UNCHANGED exec_list
       /\ msg_queue_delete(e, 0)
  /\ msg' = {} /\ Goto(ready)
  /\ UNCHANGED <<input, useq, signal, run_exec_q, config, cursor, back>>
-----------------------------------------------------------------------------
(* The main loop from the signal pipe on.                                  *)

DrainPipe ==
  /\ pc = "drain"
  /\ pipe' = FALSE
  /\ Goto(ready \ {"pipe"})
  /\ UNCHANGED <<input, files, lists, sigchilds_waiting, run_exec_q, config,
                 msg, cursor, back>>

\* The flag is cleared before the children are waited for.
TestFlag ==
  /\ pc = "flag"
  /\ pc' = IF sigchilds_waiting THEN "reap" ELSE "exec"
  /\ sigchilds_waiting' = FALSE
  /\ UNCHANGED <<input, files, lists, pipe, run_exec_q, config, ready, msg,
                 cursor, back>>

\* Mutant: the queue is not looked at again when a child has ended.
Reap_NoRerun ==
  /\ pc = "reap"
  /\ \E z \in zombies :
       /\ zombies' = zombies \ {z}
       /\ running_list' = running_list \ {z.event} /\ UNCHANGED exec_list
       /\ msg_queue_delete(z.event, z.status)
  /\ UNCHANGED <<input, useq, signal, run_exec_q, config, loop>>

\* Mutant: the child's status is read, but the child is left to be waited for.
Reap_NoWait ==
  /\ pc = "reap"
  /\ \E z \in zombies :
       /\ running_list' = running_list \ {z.event} /\ UNCHANGED exec_list
       /\ msg_queue_delete(z.event, z.status)
  /\ run_exec_q' = TRUE
  /\ UNCHANGED <<input, useq, zombies, signal, config, loop>>

\* One round of reap_sigchilds with udev_done.
Reap ==
  /\ pc = "reap"
  /\ \E z \in zombies :
       /\ zombies' = zombies \ {z}
       /\ running_list' = running_list \ {z.event} /\ UNCHANGED exec_list
       /\ msg_queue_delete(z.event, z.status)
  /\ run_exec_q' = TRUE
  /\ UNCHANGED <<input, useq, signal, config, loop>>

ReapDone ==
  /\ pc = "reap" /\ zombies = {}
  /\ pc' = "exec"
  /\ UNCHANGED <<input, files, lists, signal, run_exec_q, config, ready, msg,
                 cursor, back>>

\* Mutant: the pipe is emptied at the end of the loop, after the flag was tested.
TestRunQueue_Drains ==
  /\ pc = "exec"
  /\ run_exec_q' = FALSE /\ pipe' = FALSE
  /\ back' = "select"
  /\ pc' = IF run_exec_q /\ ~stop_exec_q THEN "manage" ELSE "select"
  /\ UNCHANGED <<input, files, lists, sigchilds_waiting, config, ready, msg,
                 cursor>>

TestRunQueue ==
  /\ pc = "exec"
  /\ run_exec_q' = FALSE
  /\ back' = "select"
  /\ pc' = IF run_exec_q /\ ~stop_exec_q THEN "manage" ELSE "select"
  /\ UNCHANGED <<input, files, lists, signal, config, ready, msg, cursor>>
-----------------------------------------------------------------------------
(* msg_queue_manager: one round of its loop per step.                      *)

Candidates == {e \in exec_list : e.seq > cursor}

\* More entries than the limit allows before the last one: i > limit.
TooMany == max_childs # 0 /\ Cardinality(running_list) >= max_childs + 2

\* Mutant: only the events that run are looked at.
Busy_RunningOnly(e) == TooMany \/ \E f \in running_list : Waits(e, f)

\* Mutant: only the events that wait are looked at.
Busy_QueueOnly(e) == \/ \E f \in exec_list : f.seq < e.seq /\ Waits(e, f)
                     \/ TooMany

Busy(e) == \/ \E f \in exec_list : f.seq < e.seq /\ Waits(e, f)
           \/ TooMany
           \/ \E f \in running_list : Waits(e, f)

\* The busy processes counted: udevd itself, any children, and others.
MayThrottle  == 1 + Cardinality(Alive) + Load >= max_childs_running
MustThrottle == 1 >= max_childs_running

ManagerReturn == cursor' = 0 /\ pc' = back /\ UNCHANGED <<ready, msg, back>>

Throttle ==
  /\ pc = "manage" /\ Candidates # {} /\ MayThrottle
  /\ ManagerReturn
  /\ UNCHANGED <<input, files, lists, signal, run_exec_q, config>>

ManagerDone ==
  /\ pc = "manage" /\ Candidates = {}
  /\ ManagerReturn
  /\ UNCHANGED <<input, files, lists, signal, run_exec_q, config>>

Delay ==
  /\ pc = "manage" /\ ~MustThrottle
  /\ \E e \in Candidates :
       IsFirst(e, Candidates) /\ Busy(e) /\ cursor' = e.seq
  /\ UNCHANGED <<input, files, lists, signal, run_exec_q, config, pc, ready,
                 msg, back>>

Start ==
  /\ pc = "manage" /\ ~MustThrottle
  /\ \E e \in Candidates :
       /\ IsFirst(e, Candidates) /\ ~Busy(e)
       /\ exec_list' = exec_list \ {e}
       /\ running_list' = running_list \cup {e}
       /\ cursor' = e.seq
  /\ UNCHANGED <<input, files, zombies, signal, run_exec_q, config, pc, ready,
                 msg, back>>

\* fork fails: the event is forgotten, and the queue is not looked at again.
StartFails ==
  /\ pc = "manage" /\ ~MustThrottle
  /\ \E e \in Candidates :
       /\ IsFirst(e, Candidates) /\ ~Busy(e)
       /\ exec_list' = exec_list \ {e} /\ UNCHANGED running_list
       /\ msg_queue_delete(e, 0)
       /\ cursor' = e.seq
  /\ UNCHANGED <<input, useq, zombies, signal, run_exec_q, config, pc, ready,
                 msg, back>>
-----------------------------------------------------------------------------
Daemon == \/ ExportInitialSeqnum
          \/ Select \/ GetCtrlMsg \/ GetNetlinkMsg \/ MsgQueueInsert
          \/ WaitTraced \/ DrainPipe \/ TestFlag \/ Reap \/ ReapDone
          \/ TestRunQueue \/ Throttle \/ ManagerDone \/ Delay \/ Start
          \/ StartFails

Next == \/ \E k \in Kinds : Uevent(k)
        \/ \E c \in Ctls : Control(c)
        \/ \E e \in running_list : ChildExit(e)
        \/ Daemon

Spec == Init /\ [][Next]_vars

\* The daemon is scheduled, and an event process ends: it sets an alarm.
AllEvents == {Event(k, s) : k \in Kinds, s \in 1 .. MaxEvents}
FairSpec == Spec /\ WF_vars(Daemon)
                 /\ \A e \in AllEvents : WF_vars(ChildExit(e))
=============================================================================
