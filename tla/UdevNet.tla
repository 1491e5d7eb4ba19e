-------------------------------- MODULE UdevNet --------------------------------
(***************************************************************************)
(* rename_netif of udev_device.c: the event processes of network interfaces*)
(* give them the names the rules choose.  Interfaces may have to exchange  *)
(* their names, so a process whose target is taken first gives up the name *)
(* it has, and then waits for the target to become free.                   *)
(*                                                                         *)
(* The names are the kernel's; there is one process for each interface.    *)
(***************************************************************************)
EXTENDS Naturals

CONSTANTS Ifs,       \* the interfaces
          IfName,    \* IfName[i]: the name the kernel gives to i
          Targets,   \* Targets[i]: the names the rules may choose for i
          Temp,      \* Temp[n]: n with "_rename" appended
          NoTarget,
          MaxTries   \* 30 * 20 in the code

ASSUME TriesAssumption == MaxTries \in Nat \ {0}
ASSUME NameAssumption  == DOMAIN IfName = Ifs
\* The rules choose no name that ends in "_rename".
ASSUME TempAssumption  == \A i, j \in Ifs : Temp[IfName[i]] \notin Targets[j]

VARIABLES ifname,   \* ifname[i]: the name of i at the moment
          wants,    \* wants[i]: udev->name of the event of i
          netpc,    \* the next step of its process, or how it ended
          tries     \* loop

netvars == <<ifname, wants, netpc, tries>>

NetInit == /\ ifname = IfName /\ wants = [i \in Ifs |-> NoTarget]
           /\ netpc = [i \in Ifs |-> "idle"]
           /\ tries = [i \in Ifs |-> 0]

Taken(n)     == \E j \in Ifs : ifname[j] = n
NetGo(i, pc) == netpc' = [netpc EXCEPT ![i] = pc]

\* ioctl(SIOCSIFNAME): it fails with EEXIST, or for a reason of the kernel's,
\* such as an interface that is up.
SetIfName(i, n) == ~Taken(n) /\ ifname' = [ifname EXCEPT ![i] = n]
Refused(i)    == NetGo(i, "failed") /\ UNCHANGED <<ifname, wants, tries>>

NetBegin(i) ==
  /\ netpc[i] = "idle"
  /\ \E n \in Targets[i] :
       /\ wants' = [wants EXCEPT ![i] = n]
       /\ NetGo(i, IF n = ifname[i] THEN "renamed" ELSE "direct")
  /\ UNCHANGED <<ifname, tries>>

\* Mutant: the process waits for the target with its own name kept.
RenameDirect_KeepsName(i) ==
  /\ netpc[i] = "direct"
  /\ \/ SetIfName(i, wants[i]) /\ NetGo(i, "renamed") /\ UNCHANGED tries
     \/ /\ Taken(wants[i]) /\ NetGo(i, "wait")
        /\ tries' = [tries EXCEPT ![i] = MaxTries] /\ UNCHANGED ifname
  /\ UNCHANGED wants

RenameDirect(i) ==
  /\ netpc[i] = "direct"
  /\ \/ SetIfName(i, wants[i]) /\ NetGo(i, "renamed")
     \/ Taken(wants[i]) /\ NetGo(i, "free") /\ UNCHANGED ifname
  /\ UNCHANGED <<wants, tries>>

\* "free our own name, another process may wait for us"
FreeName(i) ==
  /\ netpc[i] = "free"
  /\ LET own == Temp[ifname[i]]
     IN  IF Taken(own) THEN NetGo(i, "failed") /\ UNCHANGED <<ifname, tries>>
         ELSE /\ ifname' = [ifname EXCEPT ![i] = own]
              /\ NetGo(i, "wait") /\ tries' = [tries EXCEPT ![i] = MaxTries]
  /\ UNCHANGED wants

\* while (loop--): the last try that fails ends the wait.
RenameAgain(i) ==
  /\ netpc[i] = "wait" /\ tries[i] > 0
  /\ tries' = [tries EXCEPT ![i] = @ - 1]
  /\ \/ SetIfName(i, wants[i]) /\ NetGo(i, "renamed")
     \/ /\ Taken(wants[i])
        /\ NetGo(i, IF tries[i] = 1 THEN "failed" ELSE "wait")
        /\ UNCHANGED ifname
  /\ UNCHANGED wants

IoctlFails(i) == netpc[i] \in {"direct", "free", "wait"} /\ Refused(i)

NetNext == \E i \in Ifs : \/ NetBegin(i) \/ RenameDirect(i) \/ FreeName(i)
                          \/ RenameAgain(i) \/ IoctlFails(i)

NetSpec == NetInit /\ [][NetNext]_netvars
-----------------------------------------------------------------------------
\* Processes never wait for each other in a circle: a name that somebody waits
\* for is not held by a process that waits itself.
NoRenameCycle == \A i, j \in Ifs :
  netpc[i] = "wait" /\ i # j /\ ifname[j] = wants[i] => netpc[j] # "wait"
=============================================================================
