----------------------------- MODULE MCUdevSettle -----------------------------
(* Small instances of udevd and udevsettle for TLC.                        *)
EXTENDS UdevSettle, MCUdevd

\* Bound of the instances: the events sent before udevd has written its first
\* number, of any number, are all of the bus.
EarlyEvents == pc = "start" => \A e \in sock : e.dev = Bus
=============================================================================
