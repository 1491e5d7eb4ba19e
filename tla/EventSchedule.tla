---------------------------- MODULE EventSchedule ----------------------------
(***************************************************************************)
(* What udevd promises about the kernel's device events, without its lists,*)
(* flags, signals and main loop: an event waits until no earlier event that*)
(* it depends on is unfinished, runs, and ends; an event with a timeout    *)
(* runs at once.  marked and failed are what the daemon shows other        *)
(* programs: the devices with unfinished events, and those whose last event*)
(* was an addition that failed.                                            *)
(***************************************************************************)
EXTENDS Naturals

CONSTANTS Events,              \* the events: records with seq, dev, action, timeout
          DependsOn(_, _)      \* DependsOn(e, f): e may not run before f ended

VARIABLES waiting, active, marked, failed

vars == <<waiting, active, marked, failed>>

DevsOf(E) == {e.dev : e \in E}

Init == waiting = {} /\ active = {} /\ marked = {} /\ failed = {}

\* Nothing arrives before an event with a smaller number.
Newest(e) == \A f \in waiting \cup active : f.seq < e.seq

Shown(e, asFailed) ==
  /\ marked' = DevsOf(waiting' \cup active')
  /\ failed' = (failed \ {e.dev})
                 \cup (IF asFailed /\ e.dev \notin marked' THEN {e.dev} ELSE {})

Arrive(e) ==
  /\ Newest(e)
  /\ \/ waiting' = waiting \cup {e} /\ UNCHANGED active
     \/ e.timeout /\ active' = active \cup {e} /\ UNCHANGED waiting
     \* one event after the other
     \/ waiting \cup active = {} /\ active' = {e} /\ UNCHANGED waiting
     \* no process for it
     \/ UNCHANGED <<waiting, active>>
  /\ Shown(e, FALSE)

Unblocked(e) == \A f \in waiting \cup active :
                  f.seq < e.seq => ~DependsOn(e, f)

Begin(e) ==
  /\ e \in waiting /\ Unblocked(e)
  /\ waiting' = waiting \ {e} /\ active' = active \cup {e}
  /\ UNCHANGED <<marked, failed>>

\* An event whose turn has come is given up when there is no process for it.
Drop(e) ==
  /\ e \in waiting /\ Unblocked(e)
  /\ waiting' = waiting \ {e} /\ UNCHANGED active
  /\ Shown(e, FALSE)

End(e, nonzero) ==
  /\ e \in active
  /\ active' = active \ {e} /\ UNCHANGED waiting
  /\ Shown(e, nonzero /\ e.action = "add")

Next == \E e \in Events : \/ Arrive(e) \/ Begin(e) \/ Drop(e)
                          \/ \E nonzero \in BOOLEAN : End(e, nonzero)

Spec == Init /\ [][Next]_vars
=============================================================================
