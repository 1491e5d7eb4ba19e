------------------------------ MODULE UdevSettle ------------------------------
(***************************************************************************)
(* udevsettle beside udevd: a program that polls the queue directory and   *)
(* compares two sequence numbers, each read at a moment of its own, and    *)
(* takes their agreement for the end of all device events.                 *)
(***************************************************************************)
EXTENDS Udevd

VARIABLES step,    \* its next step, or how it ended
          seq_udev,
          told,    \* history: the events shown in the queue directory at its start
          from,    \* history: the kernel's number at its start
          first    \* history: the kernel's number at the end of udevd's start

settle == <<step, seq_udev, told, from>>
allvars == <<vars, settle, first>>

SettleInit == /\ step = "idle" /\ seq_udev = 0 /\ told = {} /\ from = 0
              /\ first = 0

SettleBegin ==
  /\ step = "idle"
  /\ step' = "stat" /\ told' = Pending /\ from' = kseq
  /\ UNCHANGED <<vars, seq_udev, first>>

\* The queue directory is there only while it has a file in it.
StatQueue ==
  /\ step = "stat" /\ queuefile = {}
  /\ step' = "udev"
  /\ UNCHANGED <<vars, seq_udev, told, from, first>>

\* Before udevd has started there is no such file.
ReadUdevSeqnum ==
  /\ step = "udev" /\ pc # "start"
  /\ seq_udev' = useq /\ step' = "kernel"
  /\ UNCHANGED <<vars, told, from, first>>

\* It succeeds, or polls again and forgets the number.
ReadKernelSeqnum ==
  /\ step = "kernel"
  /\ seq_udev' = 0
  /\ step' = IF seq_udev >= kseq THEN "settled" ELSE "stat"
  /\ UNCHANGED <<vars, told, from, first>>

\* It has polled for as long as it was told to; or it cannot read a number:
\* the file is not there yet, or udevd has emptied it and is about to write.
SettleGivesUp ==
  /\ step \in {"stat", "udev", "kernel"}
  /\ step' = "failed" /\ seq_udev' = 0 /\ told' = {} /\ from' = 0
  /\ UNCHANGED <<vars, first>>

Settle == \/ SettleBegin \/ StatQueue \/ ReadUdevSeqnum \/ ReadKernelSeqnum
          \/ SettleGivesUp

DaemonStep == /\ Next
              /\ first' = IF pc = "start" THEN kseq' ELSE first
              /\ UNCHANGED settle

SettleNext == DaemonStep \/ Settle

SettleSpec == Init /\ SettleInit /\ [][SettleNext]_allvars
-----------------------------------------------------------------------------
\* udevsettle returned 0: what was shown as unfinished when it started has
\* ended, and what the kernel had sent by then udevd has received, except for
\* events older than the first number that udevd wrote: that one counts the
\* events that were waiting in the socket.
SettledSawTheEnd ==
  step = "settled" => /\ told \cap Pending = {}
                      /\ \A e \in sock : e.seq <= from => e.seq <= first

\* What udevsettle's manual promises: "exits if all current events are
\* handled", the events that the kernel had sent when it started.  Stated for
\* those sent after udevd's start: SettledSawTheEnd excepts the others.
SettledIsHandled ==
  step = "settled" => \A e \in Pending : e.seq > from \/ e.seq <= first
=============================================================================
