------------------------------- MODULE UdevNode -------------------------------
(***************************************************************************)
(* What the event processes of udev do to /dev: the device nodes, the      *)
(* database, the index from names to the devices that claim them, and the  *)
(* symlinks, each of which belongs to the device with the highest priority *)
(* among those that claim it.                                              *)
(*                                                                         *)
(* udevd never runs two events of one device at a time, so there is at most*)
(* one process per device; processes of different devices interleave at    *)
(* every system call that touches a file they share.  What the rules say of*)
(* a device is an outcome: a name, a set of links, a priority and whether  *)
(* its removal is ignored.  Events that the rules ignore, or for which they*)
(* leave the name empty, touch nothing and are left out.                   *)
(***************************************************************************)
EXTENDS Integers, FiniteSets

CONSTANTS Devs,      \* the devices, by devpath
          Links,     \* names of symlinks
          Outcomes,  \* Outcomes[d]: [name, links, prio, ignore_remove]
          Kernel,    \* Kernel[d]: the name the kernel has for d
          NoName,
          MaxRuns    \* bound on the events handled

NodeNames == {o.name : o \in UNION {Outcomes[d] : d \in Devs}}
               \cup {Kernel[d] : d \in Devs}
Names     == Links \cup NodeNames

ASSUME NodeAssumption ==
         /\ \A d \in Devs :
              Outcomes[d] \subseteq [name : NodeNames, links : SUBSET Links,
                                     prio : Int, ignore_remove : BOOLEAN]
         /\ Links \cap NodeNames = {} /\ NoName \notin Devs \cup Names

VARIABLES file,    \* file[n]: what is in /dev under the name n
          tmp,     \* the same under n with TMP_FILE_EXT
          db,      \* db[d]: what is stored of d
          index,   \* index[n]: the devices in the name index under n
          proc,    \* the event process of each device
          runs,    \* events begun
          alone    \* history: no other process ran since this one began

nodevars == <<file, tmp, db, index, proc, runs, alone>>
disk     == <<file, tmp, db, index>>

NoFile    == [type |-> "none", is |-> NoName]
NodeOf(d) == [type |-> "node", is |-> d]
LinkTo(n) == [type |-> "link", is |-> n]

NoEntry == [name |-> NoName, links |-> {}, prio |-> 0, ignore_remove |-> FALSE]
\* A file that is being written: what is printed to it is in stdio's buffer.
Opened  == [NoEntry EXCEPT !.prio = 1]

\* udev: what this event makes of the device; old: what the database had of
\* it; keep: a remove event that ends early; names: what is still to be
\* indexed or updated; name, want: the file being made; found: the devices
\* update_link has still to look at; target, prio: the best of them so far.
Idle == [pc |-> "idle", action |-> "none", udev |-> NoEntry, old |-> NoEntry,
         keep |-> FALSE, names |-> {}, name |-> NoName, want |-> NoFile,
         found |-> {}, target |-> NoName, prio |-> 0]

NodeInit == /\ file = [n \in Names |-> NoFile] /\ tmp = [n \in Names |-> NoFile]
            /\ db = [d \in Devs |-> NoEntry] /\ index = [n \in Names |-> {}]
            /\ proc = [d \in Devs |-> Idle]
            /\ runs = 0 /\ alone = [d \in Devs |-> TRUE]

At(d, label) == proc[d].pc = label
Running      == {d \in Devs : ~At(d, "idle")}
Become(d, r) == proc' = [proc EXCEPT ![d] = r]
Go(d, label) == Become(d, [proc[d] EXCEPT !.pc = label])

\* The device that stat() finds at n, through the symlinks.
Rdev(n) == LET hop[k \in Nat] ==
                 IF k = 0 THEN n
                 ELSE IF file[hop[k - 1]].type = "link" THEN file[hop[k - 1]].is
                 ELSE hop[k - 1]
               last == file[hop[Cardinality(Names)]]
           IN  IF last.type = "node" THEN last.is ELSE NoName
-----------------------------------------------------------------------------
(* udev_device_event.                                                      *)

\* An event of d starts; keep: the rules say to ignore it.
BeginEvent(d, action, o, keep) ==
  /\ At(d, "idle") /\ runs < MaxRuns
  /\ runs' = runs + 1
  /\ Become(d, [Idle EXCEPT !.pc = "get", !.action = action, !.udev = o,
                            !.keep = keep])
  /\ alone' = [e \in Devs |-> IF e = d THEN Running = {}
                              ELSE alone[e] /\ At(e, "idle")]
  /\ UNCHANGED disk

\* udev_db_get_device of the own entry, and the unlink of its file.  A remove
\* event takes the device from it; ignore_remove is obeyed only after that.
DbForget(d) ==
  /\ At(d, "get")
  /\ db' = [db EXCEPT ![d] = NoEntry]
  /\ LET p == proc[d]
         e == db[d]
         u == IF p.action = "add" THEN p.udev
              ELSE IF e # NoEntry THEN e
              ELSE [NoEntry EXCEPT !.name = Kernel[d]]
     IN  Become(d, [p EXCEPT !.udev = u, !.old = e, !.pc = "unindex",
                      !.keep = p.keep \/ (p.action = "remove" /\ e.ignore_remove),
                      !.names = IF e = NoEntry THEN {}
                                ELSE {e.name} \cup e.links])
  /\ UNCHANGED <<file, tmp, index, runs, alone>>

\* Mutant: only the name is taken out of the index.
Unindex_NameOnly(d) ==
  /\ At(d, "unindex")
  /\ \E n \in proc[d].names :
       /\ index' = [index EXCEPT ![n] = IF n \in Links THEN @ ELSE @ \ {d}]
       /\ Become(d, [proc[d] EXCEPT !.names = @ \ {n}])
  /\ UNCHANGED <<file, tmp, db, runs, alone>>

\* The rest of udev_db_delete_device: one name_index(..., 0).
Unindex(d) ==
  /\ At(d, "unindex")
  /\ \E n \in proc[d].names :
       /\ index' = [index EXCEPT ![n] = @ \ {d}]
       /\ Become(d, [proc[d] EXCEPT !.names = @ \ {n}])
  /\ UNCHANGED <<file, tmp, db, runs, alone>>

\* The links claimed now and those claimed before, and the old name if the
\* device had another.
Touched(d) ==
  LET u == proc[d].udev
      o == proc[d].old
  IN  u.links \cup (IF proc[d].action = "add" /\ o # NoEntry
                    THEN o.links \cup ({o.name} \ {u.name}) ELSE {})

Forgotten(d) ==
  /\ At(d, "unindex") /\ proc[d].names = {}
  /\ LET p == proc[d]
     IN  Become(d, IF p.keep THEN Idle
                   ELSE IF p.action = "remove" THEN [p EXCEPT !.pc = "stat"]
                   ELSE [p EXCEPT !.pc = "look", !.name = p.udev.name,
                                  !.want = NodeOf(d)])
  /\ UNCHANGED <<disk, runs, alone>>

\* udev_node_remove: a node of another device is left alone.
StatNode(d) ==
  /\ At(d, "stat")
  /\ LET u == proc[d].udev
     IN  Become(d, IF Rdev(u.name) = d THEN [proc[d] EXCEPT !.pc = "rmnode"]
                   ELSE [proc[d] EXCEPT !.pc = "links", !.names = Touched(d)])
  /\ UNCHANGED <<disk, runs, alone>>

UnlinkNode(d) ==
  /\ At(d, "rmnode")
  /\ file' = [file EXCEPT ![proc[d].udev.name] = NoFile]
  /\ Become(d, [proc[d] EXCEPT !.pc = "links", !.names = Touched(d)])
  /\ UNCHANGED <<tmp, db, index, runs, alone>>

\* udev_db_add_device.  An entry without anything to store but the name is a
\* symlink, and does not keep the priority.
DbOpen(d) ==
  /\ At(d, "store")
  /\ LET u == proc[d].udev
     IN  IF u.links = {} /\ ~u.ignore_remove
         THEN /\ db' = [db EXCEPT ![d] = [u EXCEPT !.prio = 0]]
              /\ Become(d, [proc[d] EXCEPT !.pc = "index", !.names = {u.name}])
         ELSE /\ db' = [db EXCEPT ![d] = Opened]
              /\ Become(d, [proc[d] EXCEPT !.pc = "index", !.names = u.links])
  /\ UNCHANGED <<file, tmp, index, runs, alone>>

\* name_index(..., 1): of the links while the file is open, of the name then.
Index(d) ==
  /\ At(d, "index")
  /\ \E n \in proc[d].names :
       /\ index' = [index EXCEPT ![n] = @ \cup {d}]
       /\ Become(d, [proc[d] EXCEPT !.names = @ \ {n}])
  /\ UNCHANGED <<file, tmp, db, runs, alone>>

DbClose(d) ==
  /\ At(d, "index") /\ proc[d].names = {} /\ db[d] = Opened
  /\ db' = [db EXCEPT ![d] = proc[d].udev]
  /\ Become(d, [proc[d] EXCEPT !.names = {proc[d].udev.name}])
  /\ UNCHANGED <<file, tmp, index, runs, alone>>

DbAdded(d) ==
  /\ At(d, "index") /\ proc[d].names = {} /\ db[d] # Opened
  /\ Become(d, [proc[d] EXCEPT !.pc = "links", !.names = Touched(d)])
  /\ UNCHANGED <<disk, runs, alone>>

EndEvent(d) ==
  /\ At(d, "links") /\ proc[d].names = {}
  /\ Become(d, Idle)
  /\ UNCHANGED <<disk, runs, alone>>
-----------------------------------------------------------------------------
(* update_link.                                                            *)

\* udev_db_get_devices_by_name.
Scan(d) ==
  /\ At(d, "links")
  /\ \E n \in proc[d].names :
       Become(d, [proc[d] EXCEPT !.names = @ \ {n}, !.name = n,
                    !.found = index[n], !.target = NoName, !.prio = 0,
                    !.pc = IF index[n] = {} THEN "unlink" ELSE "weigh"])
  /\ UNCHANGED <<disk, runs, alone>>

\* No reference is left: the file goes, whatever it is.
Unlink(d) ==
  /\ At(d, "unlink")
  /\ file' = [file EXCEPT ![proc[d].name] = NoFile]
  /\ Go(d, "links")
  /\ UNCHANGED <<tmp, db, index, runs, alone>>

\* Mutant: a device found keeps the link against a higher priority.
Wins_First(d, e) == proc[d].target = NoName /\ (e = d \/ db[e].name # NoName)

\* One device found: the own one wins over an equal priority, another has to
\* have a higher one, as the database says at this moment.
Wins(d, e) ==
  LET p == proc[d]
  IN  IF e = d THEN p.target = NoName \/ p.udev.prio >= p.prio
      ELSE db[e].name # NoName /\ (p.target = NoName \/ db[e].prio > p.prio)

Weigh(d) ==
  /\ At(d, "weigh")
  /\ \E e \in proc[d].found :
       LET entry == IF e = d THEN proc[d].udev ELSE db[e]
           rest  == [proc[d] EXCEPT !.found = @ \ {e}]
       IN  Become(d, IF Wins(d, e)
                     THEN [rest EXCEPT !.target = entry.name, !.prio = entry.prio]
                     ELSE rest)
  /\ UNCHANGED <<disk, runs, alone>>

\* All are weighed; without a target there is nothing to do.
Weighed(d) ==
  /\ At(d, "weigh") /\ proc[d].found = {}
  /\ LET p == proc[d]
     IN  Become(d, IF p.target = NoName THEN [p EXCEPT !.pc = "links"]
                   ELSE [p EXCEPT !.pc = "look", !.want = LinkTo(p.target)])
  /\ UNCHANGED <<disk, runs, alone>>
-----------------------------------------------------------------------------
(* udev_node_mknod and node_symlink: make proc[d].want at proc[d].name.    *)

MakesNode(d) == proc[d].want.type = "node"
Made(d)      == IF MakesNode(d) THEN "store" ELSE "links"
\* A node that cannot be made ends the event; a link is passed over.
NotMade(d)   == Become(d, IF MakesNode(d) THEN Idle
                          ELSE [proc[d] EXCEPT !.pc = "links"])

\* A link does not replace the node of another device than its target's.
Forbidden(d) ==
  LET f == file[proc[d].name]
      t == proc[d].target
  IN  /\ ~MakesNode(d) /\ f.type = "node"
      /\ file[t] \notin {NoFile, f}

Look(d) ==
  /\ At(d, "look")
  /\ LET f == file[proc[d].name]
     IN  IF Forbidden(d) THEN NotMade(d)
         ELSE Go(d, IF f = proc[d].want THEN Made(d)
                    ELSE IF f = NoFile THEN "create" ELSE "replace")
  /\ UNCHANGED <<disk, runs, alone>>

\* mknod() and symlink() fail when the file has appeared meanwhile.
Create(d) ==
  /\ At(d, "create")
  /\ LET n == proc[d].name
     IN  IF file[n] = NoFile
         THEN file' = [file EXCEPT ![n] = proc[d].want] /\ Go(d, Made(d))
         ELSE UNCHANGED file /\ Go(d, "replace")
  /\ UNCHANGED <<tmp, db, index, runs, alone>>

\* Mutant: what is there under the temporary name is taken over.
Replace_Over(d) ==
  /\ At(d, "replace")
  /\ tmp' = [tmp EXCEPT ![proc[d].name] = proc[d].want] /\ Go(d, "rename")
  /\ UNCHANGED <<file, db, index, runs, alone>>

\* The temporary name is the same for every process: the second one fails.
Replace(d) ==
  /\ At(d, "replace")
  /\ LET n == proc[d].name
     IN  IF tmp[n] = NoFile
         THEN tmp' = [tmp EXCEPT ![n] = proc[d].want] /\ Go(d, "rename")
         ELSE UNCHANGED tmp /\ NotMade(d)
  /\ UNCHANGED <<file, db, index, runs, alone>>

Rename(d) ==
  /\ At(d, "rename")
  /\ LET n == proc[d].name
     IN  /\ file' = [file EXCEPT ![n] = tmp[n]]
         /\ tmp' = [tmp EXCEPT ![n] = NoFile]
  /\ Go(d, Made(d))
  /\ UNCHANGED <<db, index, runs, alone>>
-----------------------------------------------------------------------------
EventProcess(d) ==
  \/ DbForget(d) \/ Unindex(d) \/ Forgotten(d) \/ StatNode(d) \/ UnlinkNode(d)
  \/ DbOpen(d) \/ Index(d) \/ DbClose(d) \/ DbAdded(d) \/ EndEvent(d)
  \/ Scan(d) \/ Unlink(d) \/ Weigh(d) \/ Weighed(d)
  \/ Look(d) \/ Create(d) \/ Replace(d) \/ Rename(d)

NodeNext == \E d \in Devs :
  \/ \E o \in Outcomes[d] : BeginEvent(d, "add", o, FALSE)
  \/ \E keep \in BOOLEAN : BeginEvent(d, "remove", NoEntry, keep)
  \/ EventProcess(d)

NodeSpec == NodeInit /\ [][NodeNext]_nodevars
-----------------------------------------------------------------------------
Quiet     == Running = {}
Claims(n) == {d \in Devs : /\ db[d] \notin {NoEntry, Opened}
                           /\ n \in db[d].links \cup {db[d].name}}

\* The index and the database say the same when no event is under way,
\* whatever the processes did to each other.
IndexMatches == Quiet => \A n \in Names : index[n] = Claims(n)

\* A temporary file is of one process, which is about to rename it: none takes
\* over, or leaves behind, what another has made.
TmpIsOwned == \A n \in Names : tmp[n] # NoFile =>
  \E d \in Devs : /\ At(d, "rename") /\ proc[d].name = n /\ tmp[n] = proc[d].want
                  /\ \A e \in Devs \ {d} : At(e, "rename") => proc[e].name # n

\* The name n is with a device that claims it with the highest priority: it is
\* its node or a link to it.  A name that nobody claims is not there.
Right(n) ==
  IF Claims(n) = {} THEN file[n] = NoFile
  ELSE \E d \in Claims(n) :
         /\ \A e \in Claims(n) : db[e].prio <= db[d].prio
         /\ file[n] = (IF db[d].name = n THEN NodeOf(d) ELSE LinkTo(db[d].name))

\* What an event has to leave behind: its node, and every name it touched.
Settled(d) == At(d, "links") /\ proc[d].names = {}
LeavesRight(d, N) ==
  /\ proc[d].action = "add" => file[proc[d].udev.name] = NodeOf(d)
  /\ \A n \in N : Right(n)

\* Whatever races other processes have lost before, an event that runs alone
\* leaves every name of its device right: the priorities decide, a link that
\* nobody claims any more is gone, and so is the node of the old name.
AloneIsRight ==
  \A d \in Devs : Settled(d) /\ alone[d] =>
    LeavesRight(d, {n \in Touched(d) : \A e \in Devs \ {d} : db[e].name # n})

\* The comment in udev_node_update_symlinks says of an old name: "delete the
\* node, or possibly restore a symlink of another device".
OldNameIsRight ==
  \A d \in Devs : Settled(d) /\ alone[d] => LeavesRight(d, Touched(d))
=============================================================================
