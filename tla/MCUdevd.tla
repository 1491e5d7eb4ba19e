------------------------------- MODULE MCUdevd -------------------------------
(* Small instances of udevd for TLC.                                       *)
EXTENDS UdevdProps, TLC

Bus  == <<"bus">>
Port == <<"bus", "port">>
Disk == <<"disk">>

Kind(d, a, p, t) == [dev |-> d, action |-> a, phys |-> p, timeout |-> t]
Ctl(t, v) == [type |-> t, val |-> v]

MCPaths == {Bus, Port, Disk}
\* A bus and the port on it, a disk whose physical device is the port: removing
\* the disk waits for its addition, which waits for the port, but not for the port.
MCKinds == {Kind(Bus, "add", NoPath, FALSE), Kind(Disk, "remove", Port, FALSE),
            Kind(Port, "change", NoPath, TRUE), Kind(Disk, "add", Port, FALSE)}
LiveKinds == {Kind(Bus, "add", NoPath, FALSE), Kind(Port, "change", NoPath, TRUE),
              Kind(Disk, "add", Port, FALSE)}
StopStart == {Ctl("stop", 0), Ctl("start", 0)}
Limits    == {Ctl("max_childs", 1), Ctl("max_running", 3)}
AllCtls   == StopStart \cup Limits
BoolSet   == BOOLEAN
NoDebug   == {FALSE}
NoCtls    == {}
=============================================================================
