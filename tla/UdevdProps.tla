------------------------------ MODULE UdevdProps ------------------------------
(* What makes udevd correct.                                               *)
EXTENDS Udevd

Stages == {"start", "select", "ctrl", "netlink", "insert", "wait", "drain",
           "flag", "reap", "exec", "manage"}

\* Every variable keeps its type.
TypeOK == /\ kseq \in 0 .. MaxEvents /\ useq \in 0 .. kseq
          /\ sent \in 0 .. MaxCtl /\ ctl \in Seq(Ctls)
          /\ sock \subseteq AllEvents /\ msg \subseteq AllEvents
          /\ Pending \subseteq AllEvents
          /\ zombies \subseteq [event : running_list, status : {0, 1}]
          /\ queuefile \subseteq Paths /\ failedfile \subseteq Paths
          /\ sigchilds_waiting \in BOOLEAN /\ pipe \in BOOLEAN
          /\ run_exec_q \in BOOLEAN /\ stop_exec_q \in BOOLEAN
          /\ debug_trace \in BOOLEAN
          /\ max_childs \in Nat /\ max_childs_running \in Nat
          /\ pc \in Stages /\ back \in Stages
          /\ ready \subseteq {"ctl", "netlink", "pipe"}
          /\ cursor \in 0 .. MaxEvents
-----------------------------------------------------------------------------
(* Safety.                                                                 *)

\* No event process runs beside an older one that it has to wait for: one for
\* the same device, a parent or a child of it, or for the physical device that
\* an added device needs.  An event with a timeout waits for nobody; and an
\* older "add" does not keep a younger event of its physical device from running.
NoOverlap == \A e, f \in running_list :
               e.seq < f.seq /\ ~f.timeout => ~Waits(f, e)

\* A child that has exited is noticed: its flag stands until reap_sigchilds
\* is under way, and select() does not sleep while the flag stands.
ChildNoticed ==
  /\ zombies # {} => \/ sigchilds_waiting
                     \/ pc = "reap"
  /\ sigchilds_waiting /\ pc = "select" => pipe

\* The daemon does not go to sleep over an event it could run: with nothing
\* running and the queue not stopped, exec_list is empty.  (The limits are such
\* that other processes do not throttle it.)
QueueDrains == pc = "select" /\ running_list = {} /\ ~stop_exec_q =>
                 exec_list = {}

\* Events are received in their order: what is in the socket is younger than
\* what is pending, the number shown to other programs is that of the event
\* under way and not below any that is pending.  (It may be ahead of the socket
\* from the start until the first event.)  In debug mode nothing else is pending.
SeqInv ==
  /\ \A e \in sock : e.seq <= kseq
  /\ \A e \in sock, f \in Pending \cup msg : f.seq < e.seq
  /\ \A e, f \in sock : e.seq = f.seq => e = f
  /\ \A e \in Pending : e.seq <= useq
  /\ \A e \in exec_list : e \notin running_list
  /\ \A e, f \in msg : e = f
  /\ \A e \in msg : e.seq = useq
  /\ pc = "insert" => \A e \in Pending : e.seq < useq
  /\ pc = "start" => Pending = {}
  /\ pc = "wait" => debug_trace
  /\ pc \notin {"insert", "wait"} => msg = {}
  /\ debug_trace => exec_list = {} /\ running_list \subseteq msg
  /\ \A y, z \in zombies : y.event = z.event => y = z

\* An event that waits did not let pass a younger one that waits for it: with
\* it NoOverlap is inductive.
NotOvertaken == \A e \in exec_list, f \in running_list :
                  e.seq < f.seq /\ ~f.timeout => ~Waits(f, e)

\* Descriptors are served in their order, and each of the two flags of a child
\* that exited stands until the loop has come to the other.
LoopInv ==
  /\ "ctl" \in ready \/ pc = "ctrl" => ctl # <<>>
  /\ pc = "drain" => ready \cap {"ctl", "netlink"} = {}
  /\ pc = "manage" => /\ back \in {"select", "netlink", "drain", "flag"}
                      /\ back = "drain" => ready \cap {"ctl", "netlink"} = {}
  /\ sigchilds_waiting => pipe \/ pc = "flag"

\* The queue directory shows the devices of the pending events.
QueueShown == queuefile = {e.dev : e \in Pending}

QueueInv == SeqInv /\ NotOvertaken /\ LoopInv /\ QueueShown
-----------------------------------------------------------------------------
(* Refinement.                                                             *)

Schedule == INSTANCE EventSchedule
              WITH Events <- AllEvents, DependsOn <- Waits,
                   waiting <- exec_list, active <- running_list,
                   marked <- queuefile, failed <- failedfile

\* udevd schedules events as EventSchedule says and shows in its directories
\* what EventSchedule says, at every moment.
ImplementsSchedule == Schedule!Spec
-----------------------------------------------------------------------------
(* Liveness.                                                               *)

\* Unless the queue is stopped for good, an event the daemon has received
\* ends, whatever it waits for and however often a fork fails.
EventEnds == \A e \in AllEvents :
  (<>[]~stop_exec_q) => [](e \in Pending => <>(e \notin Pending))
=============================================================================
