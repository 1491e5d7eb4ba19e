------------------------- MODULE SimpleFsNames_proofs -------------------------
(***************************************************************************)
(* What the names of SimpleFs_proofs are for, for any processes, names,    *)
(* sizes and room.                                                         *)
(*                                                                         *)
(* Without signals, and where nobody unlinks, the first crash finds on     *)
(* disk every name, of every directory, with its inode, and all that       *)
(* creates have returned for: DiskInv.                                     *)
(*                                                                         *)
(* Without signals and crashes simplefs implements NameSpace, for a tree   *)
(* of any depth, when whoever unlinks is the only one who creates.         *)
(* TreeInv ties the names in the directories to the walk from the root     *)
(* that the callers make.  Every step then is one of NameSpace or changes  *)
(* nothing that callers see.                                               *)
(***************************************************************************)
EXTENDS SimpleFs_proofs

USE ProcAssumption, PathAssumption, SizeAssumption
USE DEF disk, At, Go

-----------------------------------------------------------------------------
(* The disk.  Where nothing is signalled or unlinked, a new inode is the   *)
(* one thing that a crash may find in the buffer cache alone, and no name  *)
(* on disk is its yet.                                                     *)

NobodyUnlinks == \A i \in Procs : "unlink" \notin May[i]

\* A create c has put its inode into slot m, and inode_save is to come.
Unsaved(c, m) ==
  /\ c.op = "create" /\ c.pc \in Added
  /\ m # 0 /\ m < sb.count /\ store[m] = c.new /\ c.new.ino = SlotNo(m)
OnDisk ==
  /\ ddir = dir
  /\ \/ dstore = store
     \/ \E i \in Procs, m \in Slots :
          Unsaved(proc[i], m) /\ dstore = [store EXCEPT ![m] = NoInode]

\* No inode is dead, and none is taken again.
AllAlive ==
  /\ \A k \in Slots : k < sb.count => store[k].ino # 0
  /\ \A i \in Procs : proc[i].found = "none"

\* An inode in core has the block of its slot, also while its file is written.
CoreBlocks ==
  \A p \in Paths : core[p] # NoInode => store[SlotOf(p)].block = core[p].block

DiskInv == OnDisk /\ AllAlive /\ CoreBlocks

\* Without unlinks no call is one.
LEMMA NoUnlink ==
  ASSUME NobodyUnlinks
  PROVE  /\ NobodyCreatesBeside
         /\ Ground => \A i \in Procs : proc[i].op # "unlink"
<1>1. NobodyCreatesBeside
  BY DEF NobodyUnlinks, NobodyCreatesBeside
<1>2. ASSUME Ground, NEW i \in Procs PROVE proc[i].op # "unlink"
  <2>1. PICK owner \in [Blocks -> Nat] : AllocInv(owner)
    BY <1>2 DEF Ground, Allocated
  <2> QED
    BY <2>1 DEF AllocInv, CallGiven, NobodyUnlinks
<1> QED
  BY <1>1, <1>2

LEMMA NoUnlinkNext ==
  ASSUME NobodyUnlinks
  PROVE  Ground' => \A i \in Procs : (proc[i].op # "unlink")'
<1>1. Ground => \A i \in Procs : proc[i].op # "unlink"
  BY NoUnlink
<1>2. (Ground => \A i \in Procs : proc[i].op # "unlink")'
  BY <1>1, PTL
<1> QED
  BY <1>2

\* mkfs: the disk is what is in the buffers.
LEMMA DiskInit ==
  ASSUME Init PROVE DiskInv
<1>1. OnDisk
  BY DEF Init, OnDisk
<1>2. AllAlive
  BY DEF Init, AllAlive, Idle, Slots, ROOTDIR_INODE
<1>3. CoreBlocks
  BY DEF Init, CoreBlocks, SlotOf, SlotAt, Number, NoInode, Slots, ROOTDIR_INODE
<1> QED
  BY <1>1, <1>2, <1>3 DEF DiskInv

\* What an inode_save that is no unlink's does.
LEMMA SaveCopies ==
  ASSUME Ground, NamesInv, NobodyCreatesBeside, NEW i \in Procs, Save(i),
         proc[i].op # "unlink"
  PROVE  \E o \in Paths :
           /\ o = IF proc[i].op = "create" THEN Parent[proc[i].path] ELSE proc[i].path
           /\ core[o] # NoInode /\ SlotOf(o) \in Slots
           /\ store' = [store EXCEPT ![SlotOf(o)] = core[o]] /\ dstore' = store'
           /\ core[o].ino # 0 /\ proc[i].op \in {"create", "write"}
           /\ Return(i, "ok")
           /\ core' = IF proc[i].op = "create"
                      THEN [core EXCEPT ![proc[i].path] = proc[i].new] ELSE core
           /\ UNCHANGED <<sb, dir, ddir>>
<1>0. PICK p : p = proc[i].path
  OBVIOUS
<1>1. PICK o : o = IF proc[i].op = "create" THEN Parent[p] ELSE p
  OBVIOUS
<1>2. PICK k : k = SlotOf(o)
  OBVIOUS
<1> DEFINE n == IF core[o].ino = 0 THEN core[o].dead ELSE core[o].ino
           slots == {l \in Slots : l <= sb.count /\ store[l].ino = n}
<1>3. /\ proc[i].pc = "save" /\ proc[i].op \in {"create", "write"}
      /\ UNCHANGED <<sb, dir, ddir>> /\ p \in Paths
  <2>1. proc[i].pc \in {"save", "save_rest"} /\ UNCHANGED <<sb, dir, ddir>>
    BY DEF Save
  <2>2. proc[i].pc # "save_rest" /\ CallOK(i, proc[i]) /\ proc[i] \in Call
    BY CallGround
  <2> QED
    BY <1>0, <2>1, <2>2, CallFacts DEF CallOK
<1>4. o \in Paths /\ core[o] # NoInode /\ CoreOK(o)
  <2>1. CASE proc[i].op = "create"
    <3>1. o \in Paths /\ core[o].mode = "dir"
      BY <1>0, <1>1, <2>1, ParentIsDir
    <3> QED
      BY <3>1 DEF NoInode, NamesInv, CoresOK
  <2>2. CASE proc[i].op # "create"
    <3>1. o = p /\ core[o].mode = "file"
      BY <1>0, <1>1, <1>3, <2>2, CallGround DEF CallOK
    <3> QED
      BY <1>3, <3>1 DEF NoInode, NamesInv, CoresOK
  <2> QED
    BY <2>1, <2>2
<1>5. n = Number(core[o]) /\ k \in Slots
  BY <1>2, <1>4 DEF Number, CoreOK
<1>6. core[o].ino # 0 /\ store[k].ino # 0
  <2>1. ASSUME NEW j \in Procs, Goes(proc[j], o) PROVE FALSE
    <3>1. proc[j].op = "unlink" /\ proc[j].path = o /\ core[o].mode = "file" /\ j # i
      BY <2>1, CallGround DEF Goes, CallOK
    <3>2. proc[i].op # "create"
      BY <3>1, OneChanger DEF Ground
    <3>3. o = proc[i].path /\ proc[i].op # "none"
      BY <1>0, <1>1, <1>3, <3>2
    <3> QED
      BY <3>1, <3>3 DEF Ground, FsInv, CallsInv, CallsApart
  <2>2. ~Going(o)
    BY <2>1 DEF Going
  <2> QED
    BY <1>2, <1>4, <2>2 DEF CoreOK
<1>7. slots # {} /\ Min(slots) = k
  BY <1>2, <1>4, <1>5, <1>6, SlotFound
<1>8. store' = [store EXCEPT ![Min(slots)] = core[o]] /\ dstore' = store'
      /\ Saved(i, {"sb"}, "ok")
  BY <1>0, <1>1, <1>3, <1>6, <1>7 DEF Save
<1> HIDE DEF slots, n
<1>9. /\ Return(i, "ok")
      /\ core' = IF proc[i].op = "create" THEN [core EXCEPT ![p] = proc[i].new] ELSE core
  BY <1>0, <1>8 DEF Saved
<1> QED
  BY <1>0, <1>1, <1>2, <1>3, <1>4, <1>5, <1>6, <1>7, <1>8, <1>9

\* A process that moves keeps the inode it has put into the store, and takes
\* no dead one.
Steady(j) ==
  /\ proc'[j].found = "none"
  /\ proc[j].op = "create" /\ proc[j].pc \in Added =>
       /\ proc'[j].op = "create" /\ proc'[j].pc \in Added
       /\ proc'[j].new = proc[j].new

\* A step that leaves store and directories alone.
LEMMA SteadyDisk ==
  ASSUME OnDisk, AllAlive, UNCHANGED <<store, dstore>>, dir' = dir, ddir' = ddir,
         sb'.count = sb.count, \A j \in Procs : Steady(j)
  PROVE  OnDisk' /\ AllAlive'
<1>1. AllAlive'
  BY DEF AllAlive, Steady
<1>2. CASE dstore = store
  <2>1. (ddir = dir)' /\ (dstore = store)'
    BY <1>2 DEF OnDisk
  <2> QED
    BY <1>1, <2>1 DEF OnDisk
<1>3. ASSUME NEW j \in Procs, NEW m \in Slots, Unsaved(proc[j], m),
             dstore = [store EXCEPT ![m] = NoInode]
      PROVE  OnDisk'
  <2>1. Unsaved(proc[j], m)'
    BY <1>3 DEF Unsaved, Steady
  <2>2. (dstore = [store EXCEPT ![m] = NoInode])'
    BY <1>3
  <2> QED
    BY <2>1, <2>2 DEF OnDisk
<1> QED
  BY <1>1, <1>2, <1>3 DEF OnDisk

\* One process moves.
LEMMA MovedSteady ==
  ASSUME Ground, AllAlive, NEW i \in Procs, NEW c, proc' = [proc EXCEPT ![i] = c],
         c.found = "none",
         proc[i].op = "create" /\ proc[i].pc \in Added =>
           c.op = "create" /\ c.pc \in Added /\ c.new = proc[i].new
  PROVE  \A j \in Procs : Steady(j)
<1> SUFFICES ASSUME NEW j \in Procs PROVE Steady(j)
  OBVIOUS
<1>1. /\ proc'[i] = c /\ (j # i => proc'[j] = proc[j]) /\ proc[j].found = "none"
  BY CallGround DEF AllAlive
<1>2. CASE j = i
  BY <1>1, <1>2 DEF Steady
<1>3. CASE j # i
  BY <1>1, <1>3 DEF Steady
<1> QED
  BY <1>2, <1>3

\* The steps that leave store and directories alone: of calls, and of others.
LEMMA CallsOnDisk ==
  ASSUME NobodyUnlinks, Ground, OnDisk, AllAlive, NEW i \in Procs,
         \/ Acquire(i) \/ Count(i) \/ Search(i) \/ TakeBlock(i)
         \/ Children(i) \/ Resize(i)
         \/ \E p \in Paths : Create(i, p) \/ Write(i, p)
  PROVE  OnDisk' /\ AllAlive'
<1>1. PICK c : c = proc[i]
  OBVIOUS
<1>2. /\ c \in Call /\ CallOK(i, c) /\ c.found = "none" /\ proc \in [Procs -> Call]
  BY <1>1, CallGround DEF AllAlive
<1>3. Idle.found = "none"
  BY DEF Idle
<1>4. CASE Acquire(i)
  <2>1. PICK d : d = [c EXCEPT !.pc = Then[c.pc]]
    OBVIOUS
  <2>2. /\ proc' = [proc EXCEPT ![i] = d] /\ c.pc \in DOMAIN LockOf
        /\ UNCHANGED <<sb, store, dstore, dir, ddir>>
    BY <1>1, <1>4, <2>1 DEF Acquire
  <2>3. /\ d.found = "none" /\ d.op = c.op /\ d.new = c.new /\ d.pc = Then[c.pc]
    BY <1>2, <2>1 DEF Call
  <2>4. c.pc \in Added => d.pc \in Added
    BY <2>2, <2>3 DEF Added, LockOf, Then
  <2> QED
    BY <1>1, <2>2, <2>3, <2>4, MovedSteady, SteadyDisk
<1>5. CASE Count(i)
  <2>1. c.pc = "count" /\ UNCHANGED <<sb, store, dstore, dir, ddir>>
    BY <1>1, <1>5 DEF Count
  <2>2. \E d : proc' = [proc EXCEPT ![i] = d] /\ d.found = "none"
    <3>1. CASE Return(i, "ENOSPC")
      <4>1. PICK d : d = [Idle EXCEPT !.ret = "ENOSPC"]
        OBVIOUS
      <4>2. d.found = "none"
        BY <4>1 DEF Idle
      <4>3. proc' = [proc EXCEPT ![i] = d]
        BY <3>1, <4>1 DEF Return
      <4> QED
        BY <4>2, <4>3
    <3>2. ASSUME NEW x, proc' = [proc EXCEPT ![i].pc = "search", ![i].new = x]
          PROVE  \E d : proc' = [proc EXCEPT ![i] = d] /\ d.found = "none"
      <4>1. PICK d : d = [proc[i] EXCEPT !.pc = "search", !.new = x]
        OBVIOUS
      <4>2. d.found = "none"
        BY <1>1, <1>2, <4>1 DEF Call
      <4> QED
        BY <1>2, <3>2, <4>1, <4>2
    <3>3. Return(i, "ENOSPC") \/ \E x : proc' = [proc EXCEPT ![i].pc = "search", ![i].new = x]
      BY <1>5 DEF Count
    <3> QED
      BY <3>1, <3>2, <3>3
  <2> QED
    BY <1>1, <2>1, <2>2, MovedSteady, SteadyDisk DEF Added
<1>6. CASE Search(i)
  <2>1. SlotsOf(store, 0) = {}
    BY DEF SlotsOf, AllAlive
  <2>2. /\ UNCHANGED <<sb, store, dstore, dir, ddir>> /\ c.pc = "search" /\ Go(i, "lock_free")
    BY <1>1, <1>6, <2>1 DEF Search
  <2>3. PICK d : d = [proc[i] EXCEPT !.pc = "lock_free"]
    OBVIOUS
  <2>4. d.found = "none"
    BY <1>1, <1>2, <2>3 DEF Call
  <2> QED
    BY <1>1, <2>2, <2>3, <2>4, MovedSteady, SteadyDisk DEF Added
<1>7. CASE TakeBlock(i)
  <2>1. /\ c.pc = "take_block" /\ sb'.count = sb.count
        /\ UNCHANGED <<store, dstore, dir, ddir>>
    <3>1. sb' = sb \/ \E x : sb' = [sb EXCEPT !.free = x]
      BY <1>7 DEF TakeBlock
    <3>2. sb \in [count : 0 .. MaxObjects, free : SUBSET Blocks]
      BY DEF Ground, FsInv, TypeOK
    <3> QED
      BY <1>1, <1>7, <3>1, <3>2 DEF TakeBlock
  <2>2. \E d : proc' = [proc EXCEPT ![i] = d] /\ d.found = "none"
    <3>1. CASE Return(i, "ENOSPC")
      <4>1. PICK d : d = [Idle EXCEPT !.ret = "ENOSPC"]
        OBVIOUS
      <4>2. d.found = "none"
        BY <4>1 DEF Idle
      <4>3. proc' = [proc EXCEPT ![i] = d]
        BY <3>1, <4>1 DEF Return
      <4> QED
        BY <4>2, <4>3
    <3>2. ASSUME NEW b, proc' = [proc EXCEPT ![i].pc = "lock_add",
                                             ![i].new = [@ EXCEPT !.block = b]]
          PROVE  \E d : proc' = [proc EXCEPT ![i] = d] /\ d.found = "none"
      <4>1. PICK d : d = [proc[i] EXCEPT !.pc = "lock_add", !.new = [@ EXCEPT !.block = b]]
        OBVIOUS
      <4>2. d.found = "none"
        BY <1>1, <1>2, <4>1 DEF Call
      <4> QED
        BY <1>2, <3>2, <4>1, <4>2
    <3>3. Return(i, "ENOSPC")
          \/ \E b : proc' = [proc EXCEPT ![i].pc = "lock_add",
                                         ![i].new = [@ EXCEPT !.block = b]]
      BY <1>7 DEF TakeBlock
    <3> QED
      BY <3>1, <3>2, <3>3
  <2> QED
    BY <1>1, <2>1, <2>2, MovedSteady, SteadyDisk DEF Added
<1>8. CASE Children(i)
  <2>1. /\ UNCHANGED <<sb, store, dstore, dir, ddir>> /\ c.pc = "children" /\ Go(i, "lock_save")
    BY <1>1, <1>2, <1>8 DEF Children
  <2>2. PICK d : d = [proc[i] EXCEPT !.pc = "lock_save"]
    OBVIOUS
  <2>3. d.found = "none" /\ d.op = c.op /\ d.new = c.new /\ d.pc \in Added
    BY <1>1, <1>2, <2>2 DEF Call, Added
  <2> QED
    BY <1>1, <2>1, <2>2, <2>3, MovedSteady, SteadyDisk
<1>9. CASE Resize(i)
  <2>1. /\ UNCHANGED <<sb, store, dstore, dir, ddir>> /\ c.pc = "resize" /\ Go(i, "lock_save")
    BY <1>1, <1>9 DEF Resize
  <2>2. PICK d : d = [proc[i] EXCEPT !.pc = "lock_save"]
    OBVIOUS
  <2>3. d.found = "none"
    BY <1>1, <1>2, <2>2 DEF Call
  <2> QED
    BY <1>1, <2>1, <2>2, <2>3, MovedSteady, SteadyDisk DEF Added
<1>10. ASSUME NEW op, NEW p, NEW label, Enter(i, op, p, label)
       PROVE  OnDisk' /\ AllAlive'
  <2>1. PICK d : d = [proc[i] EXCEPT !.pc = label, !.op = op, !.path = p, !.ret = "none"]
    OBVIOUS
  <2>2. /\ UNCHANGED <<sb, store, dstore, dir, ddir>> /\ c.pc = "idle"
        /\ proc' = [proc EXCEPT ![i] = d]
    BY <1>1, <1>2, <1>10, <2>1 DEF Enter
  <2>3. d.found = "none"
    BY <1>1, <1>2, <2>1 DEF Call
  <2> QED
    BY <1>1, <2>2, <2>3, MovedSteady, SteadyDisk DEF Added
<1> QED
  BY <1>4, <1>5, <1>6, <1>7, <1>8, <1>9, <1>10 DEF Create, Write

\* What the VFS does and write-back.
LEMMA MachineOnDisk ==
  ASSUME OnDisk, AllAlive,
         \/ \E p \in Paths : Lookup(p) \/ Evict(p)
         \/ Writeback \/ UNCHANGED vars
  PROVE  OnDisk' /\ AllAlive'
<1>1. CASE (\E p \in Paths : Lookup(p) \/ Evict(p)) \/ UNCHANGED vars
  <2>1. UNCHANGED <<sb, store, dstore, dir, ddir, proc>>
    BY <1>1 DEF Lookup, Evict, vars
  <2>2. \A j \in Procs : Steady(j)
    BY <2>1 DEF Steady, AllAlive
  <2> QED
    BY <2>1, <2>2, SteadyDisk
<1>2. CASE Writeback
  <2>1. UNCHANGED <<sb, store, dir, ddir, proc>> /\ dstore' = store
    BY <1>2 DEF Writeback
  <2> QED
    BY <2>1 DEF OnDisk, AllAlive
<1> QED
  BY <1>1, <1>2

\* inode_add, the record, and inode_save.
LEMMA AddOnDisk ==
  ASSUME NobodyUnlinks, Ground, OnDisk, AllAlive, NEW i \in Procs, Add(i)
  PROVE  OnDisk' /\ AllAlive'
<1>1. PICK c : c = [proc[i] EXCEPT !.pc = "record"]
  OBVIOUS
<1>0. PICK m : m = sb.count
  OBVIOUS
<1>2. /\ proc[i].found = "none" /\ proc[i].pc = "add" /\ proc[i].op = "create"
      /\ proc[i].new.ino = SlotNo(m) /\ m \in Slots /\ m > 1
      /\ proc[i] \in Call
  <2>1. proc[i].pc = "add" /\ proc[i].found = "none"
    BY DEF Add, AllAlive
  <2>2. /\ proc[i].op = "create" /\ proc[i].new.ino = SlotNo(m)
        /\ m < MaxObjects /\ proc[i] \in Call
    BY <1>0, <2>1, CallGround DEF CallOK, Creating, Counted
  <2> QED
    BY <1>0, <2>1, <2>2 DEF Ground, StoreOK, Slots
<1>3. /\ proc' = [proc EXCEPT ![i] = c] /\ sb' = [sb EXCEPT !.count = @ + 1]
      /\ store' = [store EXCEPT ![m] = proc[i].new]
      /\ UNCHANGED <<dstore, dir, ddir>>
  BY <1>0, <1>1, <1>2 DEF Add
<1>4. c.op = "create" /\ c.pc = "record" /\ c.new = proc[i].new /\ c.found = "none"
  BY <1>1, <1>2 DEF Call
<1>5. /\ sb'.count = m + 1 /\ m \in Nat /\ store[m] = NoInode
      /\ store \in [Slots -> Inode]
  BY <1>0, <1>2, <1>3 DEF Ground, StoreOK, FsInv, TypeOK
<1>6. dstore = store
  <2>1. \A j \in Procs, k \in Slots : ~Unsaved(proc[j], k)
    <3> SUFFICES ASSUME NEW j \in Procs, NEW k \in Slots, Unsaved(proc[j], k) PROVE FALSE
      OBVIOUS
    <3>1. proc[j].op = "create" /\ proc[j].pc \in Added
      BY DEF Unsaved
    <3>2. i # j /\ proc[j].pc # "lock_dir" /\ proc[i].pc # "lock_dir"
      BY <1>2, <3>1 DEF Added
    <3> QED
      BY <1>2, <3>1, <3>2, NoUnlink, OneChanger DEF Ground
  <2> QED
    BY <2>1 DEF OnDisk
<1>7. proc'[i] = c
  BY <1>3, CallGround
<1>8. OnDisk'
  <2>1. Unsaved(proc[i], m)'
    <3>1. m # 0 /\ m < sb'.count /\ store'[m] = c.new
      BY <1>2, <1>3, <1>4, <1>5
    <3> QED
      BY <1>2, <1>4, <1>7, <3>1 DEF Unsaved, Added
  <2>2. dstore = [[store EXCEPT ![m] = proc[i].new] EXCEPT ![m] = NoInode]
    BY <1>2, <1>5, <1>6
  <2>3. (dstore = [store EXCEPT ![m] = NoInode])' /\ (ddir = dir)'
    BY <1>3, <2>2 DEF OnDisk
  <2> QED
    BY <1>2, <2>1, <2>3 DEF OnDisk
<1>9. AllAlive'
  <2>1. \A j \in Procs : proc'[j].found = "none"
    BY <1>3, <1>4, CallGround DEF AllAlive
  <2>2. proc[i].new.ino # 0
    BY <1>2, SlotNoFacts
  <2>3. \A k \in Slots : k < sb'.count => store'[k].ino # 0
    BY <1>0, <1>2, <1>3, <1>5, <2>2 DEF AllAlive, Slots
  <2> QED
    BY <2>1, <2>3 DEF AllAlive
<1> QED
  BY <1>8, <1>9

LEMMA RecordOnDisk ==
  ASSUME Ground, OnDisk, AllAlive, NEW i \in Procs, Record(i)
  PROVE  OnDisk' /\ AllAlive'
<1>1. PICK c : c = [proc[i] EXCEPT !.pc = "lock_children"]
  OBVIOUS
<1>2. /\ UNCHANGED <<sb, store, dstore>> /\ proc[i].pc = "record"
      /\ proc' = [proc EXCEPT ![i] = c]
  BY <1>1 DEF Record
<1>3. c.found = "none" /\ c.op = proc[i].op /\ c.pc \in Added /\ c.new = proc[i].new
  BY <1>1, CallGround DEF AllAlive, Call, Added
<1>4. \A j \in Procs : Steady(j)
  BY <1>2, <1>3, MovedSteady
<1>5. ddir' = dir'
  <2>1. PICK b : b = core[Parent[proc[i].path]].block
    OBVIOUS
  <2>2. ddir' = [dir EXCEPT ![b] = dir'[b]]
    BY <2>1 DEF Record, OnDisk
  <2>3. dir' = dir \/ \E x : dir' = [dir EXCEPT ![b] = x]
    BY <2>1 DEF Record
  <2>4. dir \in [Blocks -> DirBlock]
    BY DEF Ground, FsInv, TypeOK
  <2> QED
    BY <2>2, <2>3, <2>4
<1>6. AllAlive'
  BY <1>2, <1>4 DEF AllAlive, Steady
<1>7. CASE dstore = store
  <2>1. (ddir = dir)' /\ (dstore = store)'
    BY <1>2, <1>5, <1>7
  <2> QED
    BY <1>6, <2>1 DEF OnDisk
<1>8. ASSUME NEW j \in Procs, NEW m \in Slots, Unsaved(proc[j], m),
             dstore = [store EXCEPT ![m] = NoInode]
      PROVE  OnDisk'
  <2>1. Unsaved(proc[j], m)'
    BY <1>2, <1>4, <1>8 DEF Unsaved, Steady
  <2>2. (dstore = [store EXCEPT ![m] = NoInode])' /\ (ddir = dir)'
    BY <1>2, <1>5, <1>8
  <2> QED
    BY <2>1, <2>2 DEF OnDisk
<1> QED
  BY <1>6, <1>7, <1>8 DEF OnDisk

LEMMA SaveOnDisk ==
  ASSUME NobodyUnlinks, Ground, NamesInv, OnDisk, AllAlive, NEW i \in Procs, Save(i)
  PROVE  OnDisk' /\ AllAlive'
<1>1. NobodyCreatesBeside /\ proc[i].op # "unlink"
  BY NoUnlink
<1>2. PICK o \in Paths :
           /\ SlotOf(o) \in Slots /\ core[o].ino # 0
           /\ store' = [store EXCEPT ![SlotOf(o)] = core[o]] /\ dstore' = store'
           /\ Return(i, "ok") /\ UNCHANGED <<sb, dir, ddir>>
  BY <1>1, SaveCopies
<1>3. (ddir = dir)' /\ (dstore = store)'
  BY <1>2 DEF OnDisk
<1>4. AllAlive'
  <2>1. PICK d : d = [Idle EXCEPT !.ret = "ok"]
    OBVIOUS
  <2>2. d.found = "none"
    BY <2>1 DEF Idle
  <2>3. proc' = [proc EXCEPT ![i] = d]
    BY <1>2, <2>1 DEF Return
  <2>4. \A j \in Procs : proc'[j].found = "none"
    BY <2>2, <2>3, CallGround DEF AllAlive
  <2>5. store \in [Slots -> Inode]
    BY DEF Ground, FsInv, TypeOK
  <2>6. PICK k : k = SlotOf(o)
    OBVIOUS
  <2>7. \A l \in Slots : l < sb.count => store'[l].ino # 0
    BY <1>2, <2>5, <2>6 DEF AllAlive
  <2> QED
    BY <1>2, <2>4, <2>7 DEF AllAlive
<1> QED
  BY <1>3, <1>4 DEF OnDisk

LEMMA OnDiskNext ==
  ASSUME Signalled = {}, NobodyUnlinks, Ground, NamesInv, OnDisk, AllAlive,
         [Next]_vars, crashes' = 0
  PROVE  OnDisk' /\ AllAlive'
<1>1. ASSUME NEW i \in Procs, Step(i) PROVE OnDisk' /\ AllAlive'
  <2>1. ~Interrupted(i)
    BY DEF Interrupted, Ground, OwnInv
  <2>2. ~Forget(i)
    BY NoUnlink DEF Forget, At, Ground, FsInv, CallsInv, CallOK
  <2> QED
    BY <1>1, <2>1, <2>2, CallsOnDisk, AddOnDisk, RecordOnDisk, SaveOnDisk DEF Step
<1>2. ASSUME NEW i \in Procs, NEW p \in Paths, Create(i, p) \/ Unlink(i, p) \/ Write(i, p)
      PROVE  OnDisk' /\ AllAlive'
  <2>1. ~Unlink(i, p)
    BY DEF Unlink, NobodyUnlinks
  <2>2. \E q \in Paths : Create(i, q) \/ Write(i, q)
    BY <1>2, <2>1
  <2> QED
    BY <2>2, CallsOnDisk
<1>3. CASE \/ \E p \in Paths : Lookup(p) \/ Evict(p)
           \/ Writeback \/ UNCHANGED vars
  BY <1>3, MachineOnDisk
<1>4. ASSUME NEW i \in Procs, Signal(i) PROVE OnDisk' /\ AllAlive'
  BY <1>4 DEF Signal
<1>5. ~CrashAndMount
  BY StillUp DEF Ground
<1> QED
  BY <1>1, <1>2, <1>3, <1>4, <1>5 DEF Next

\* An inode that keeps its number, and its block in core and in the store.
LEMMA BlockKept ==
  ASSUME CoreBlocks, NEW p \in Paths, core[p] # NoInode,
         core'[p].ino = core[p].ino, core'[p].dead = core[p].dead,
         core'[p].block = core[p].block,
         store'[SlotOf(p)].block = store[SlotOf(p)].block
  PROVE  (store[SlotOf(p)].block = core[p].block)'
<1>1. SlotOf(p)' = SlotOf(p)
  BY DEF SlotOf, SlotAt, Number
<1> QED
  BY <1>1 DEF CoreBlocks

\* A directory or a file only changes its length.
LEMMA LengthBlocks ==
  ASSUME FsInv, CoreBlocks, store' = store, NEW d \in Paths, NEW n, core[d].mode # "none",
         core' = [core EXCEPT ![d].size = n]
  PROVE  CoreBlocks'
<1> SUFFICES ASSUME NEW p \in Paths, core'[p] # NoInode
             PROVE  (store[SlotOf(p)].block = core[p].block)'
  BY DEF CoreBlocks
<1>1. core \in [Paths -> Inode]
  BY DEF FsInv, TypeOK
<1>2. /\ core'[p].ino = core[p].ino /\ core'[p].dead = core[p].dead
      /\ core'[p].block = core[p].block /\ core[p] # NoInode
  <2>1. CASE p = d
    BY <1>1, <2>1 DEF Inode, NoInode
  <2>2. CASE p # d
    BY <1>1, <2>2
  <2> QED
    BY <2>1, <2>2
<1> QED
  BY <1>2, BlockKept

LEMMA LookupBlocks ==
  ASSUME Ground, AllAlive, CoreBlocks, NEW p \in Paths, Lookup(p)
  PROVE  CoreBlocks'
<1>1. PICK n : core' = [core EXCEPT ![p] = GetInode(store, n)] /\ GetInode(store, n) # NoInode
               /\ store' = store /\ core[p] = NoInode
  BY DEF Lookup
<1>2. PICK k \in Slots : k < sb.count /\ GetInode(store, n) = store[k]
  <2>1. SlotsOf(store, n) # {} /\ GetInode(store, n) = store[Min(SlotsOf(store, n))]
    BY <1>1 DEF GetInode
  <2>2. SlotsOf(store, n) \in SUBSET Nat
    BY DEF SlotsOf, Slots
  <2>3. Min(SlotsOf(store, n)) \in SlotsOf(store, n)
    BY <2>1, <2>2, MinFacts
  <2> QED
    BY <2>1, <2>3 DEF SlotsOf
<1>3. store[k].ino # 0 /\ store[k].ino = SlotNo(k) /\ core \in [Paths -> Inode]
  BY <1>2 DEF AllAlive, Ground, StoreOK, FsInv, TypeOK
<1> SUFFICES ASSUME NEW q \in Paths, core'[q] # NoInode
             PROVE  (store[SlotOf(q)].block = core[q].block)'
  BY DEF CoreBlocks
<1>4. CASE q = p
  <2>1. core'[q] = store[k]
    BY <1>1, <1>2, <1>3, <1>4
  <2>2. SlotOf(q)' = k
    BY <1>3, <2>1, SlotAtFacts DEF SlotOf, Number
  <2> QED
    BY <1>1, <2>1, <2>2
<1>5. CASE q # p
  BY <1>1, <1>3, <1>5, BlockKept
<1> QED
  BY <1>4, <1>5

LEMMA AddBlocks ==
  ASSUME Ground, NamesInv, AllAlive, CoreBlocks, NEW i \in Procs, Add(i)
  PROVE  CoreBlocks'
<1> SUFFICES ASSUME NEW p \in Paths, core'[p] # NoInode
             PROVE  (store[SlotOf(p)].block = core[p].block)'
  BY DEF CoreBlocks
<1>1. core' = core /\ store' = [store EXCEPT ![sb.count] = proc[i].new]
  BY DEF Add, AllAlive
<1>2. SlotOf(p) \in Slots /\ SlotOf(p) # sb.count
  <2>1. CoreOK(p) /\ sb.count \in Nat
    BY <1>1 DEF NamesInv, CoresOK, Ground, StoreOK
  <2> QED
    BY <2>1 DEF CoreOK, Slots
<1>3. store \in [Slots -> Inode]
  BY DEF Ground, FsInv, TypeOK
<1> QED
  BY <1>1, <1>2, <1>3, BlockKept

LEMMA SaveBlocks ==
  ASSUME NobodyUnlinks, Ground, NamesInv, CoreBlocks, NEW i \in Procs, Save(i)
  PROVE  CoreBlocks'
<1>1. NobodyCreatesBeside /\ proc[i].op # "unlink"
  BY NoUnlink
<1>2. PICK o \in Paths :
           /\ core[o] # NoInode /\ SlotOf(o) \in Slots
           /\ store' = [store EXCEPT ![SlotOf(o)] = core[o]]
           /\ core' = IF proc[i].op = "create"
                      THEN [core EXCEPT ![proc[i].path] = proc[i].new] ELSE core
  BY <1>1, SaveCopies
<1>3. PICK h : h = SlotOf(o)
  OBVIOUS
<1>4. /\ core \in [Paths -> Inode] /\ store \in [Slots -> Inode] /\ proc[i].path \in Paths
      /\ store[h].block = core[o].block /\ h \in Slots
  BY <1>2, <1>3, CallGround, CallFacts DEF Ground, FsInv, TypeOK, CoreBlocks
<1>5. \A k \in Slots : store'[k].block = store[k].block
  BY <1>2, <1>3, <1>4
<1> SUFFICES ASSUME NEW p \in Paths, core'[p] # NoInode
             PROVE  (store[SlotOf(p)].block = core[p].block)'
  BY DEF CoreBlocks
<1>6. CASE proc[i].op = "create" /\ p = proc[i].path
  <2>1. core'[p] = proc[i].new
    BY <1>2, <1>4, <1>6
  <2>2. proc[i].pc \in Added
    <3>1. proc[i].pc \in {"save", "save_rest"}
      BY DEF Save
    <3> QED
      BY <1>1, <3>1, CallGround DEF Added
  <2>3. PICK m \in Slots : /\ m # 0 /\ m < sb.count
                           /\ store[m] = proc[i].new /\ proc[i].new.ino = SlotNo(m)
    <3>1. CreateOK(proc[i])
      BY DEF NamesInv
    <3> QED
      BY <1>6, <2>2, <3>1 DEF CreateOK
  <2>4. SlotNo(m) # 0
    BY <2>3, SlotNoFacts
  <2>5. SlotOf(p)' = m
    BY <2>1, <2>3, <2>4, SlotAtFacts DEF SlotOf, Number
  <2> QED
    BY <1>5, <2>1, <2>3, <2>5
<1>7. CASE ~(proc[i].op = "create" /\ p = proc[i].path)
  <2>1. core'[p] = core[p]
    BY <1>2, <1>4, <1>7
  <2>2. SlotOf(p) \in Slots
    BY <2>1 DEF NamesInv, CoresOK, CoreOK
  <2>3. store'[SlotOf(p)].block = store[SlotOf(p)].block
    BY <1>5, <2>2
  <2> QED
    BY <2>1, <2>3, BlockKept
<1> QED
  BY <1>6, <1>7

LEMMA BlocksNext ==
  ASSUME Signalled = {}, NobodyUnlinks, Ground, NamesInv, AllAlive, CoreBlocks,
         [Next]_vars, crashes' = 0
  PROVE  CoreBlocks'
<1>1. ASSUME core' = core, store' = store PROVE CoreBlocks'
  BY <1>1 DEF CoreBlocks, SlotOf
<1>2. ASSUME NEW i \in Procs, Step(i) PROVE CoreBlocks'
  <2>1. ~Interrupted(i) /\ ~Forget(i) /\ proc[i].found = "none"
    <3>1. ~Interrupted(i)
      BY DEF Interrupted, Ground, OwnInv
    <3>2. ~Forget(i)
      BY NoUnlink DEF Forget, At, Ground, FsInv, CallsInv, CallOK
    <3> QED
      BY <3>1, <3>2 DEF AllAlive
  <2>2. CASE Acquire(i) \/ Count(i) \/ Search(i)
    BY <1>1, <2>2 DEF Acquire, Count, Search
  <2>3. CASE TakeBlock(i)
    BY <1>1, <2>3 DEF TakeBlock
  <2>4. CASE Record(i)
    BY <1>1, <2>4 DEF Record
  <2>5. CASE Children(i)
    <3>1. store' = store /\ core' = [core EXCEPT ![Parent[proc[i].path]].size = @ + 1]
      BY <2>1, <2>5 DEF Children
    <3>2. PICK d : d = Parent[proc[i].path]
      OBVIOUS
    <3>3. d \in Paths /\ core[d].mode = "dir"
      <4>1. proc[i].op = "create"
        BY <2>5, CallGround DEF Children, CallOK, Creating
      <4> QED
        BY <3>2, <4>1, ParentIsDir
    <3>4. PICK n : n = core[d].size + 1
      OBVIOUS
    <3>5. core' = [core EXCEPT ![d].size = n]
      BY <3>1, <3>2, <3>4
    <3> QED
      BY <3>1, <3>3, <3>5, LengthBlocks DEF Ground
  <2>6. CASE Resize(i)
    <3>1. PICK n : store' = store /\ core' = [core EXCEPT ![proc[i].path].size = n]
      BY <2>6 DEF Resize
    <3>2. PICK d : d = proc[i].path
      OBVIOUS
    <3>3. d \in Paths /\ core[d].mode = "file"
      <4>1. proc[i].pc = "resize"
        BY <2>6 DEF Resize
      <4> QED
        BY <3>2, <4>1, CallGround, CallFacts DEF CallOK
    <3> QED
      BY <3>1, <3>2, <3>3, LengthBlocks DEF Ground
  <2> QED
    BY <1>2, <2>1, <2>2, <2>3, <2>4, <2>5, <2>6, AddBlocks, SaveBlocks DEF Step
<1>3. ASSUME NEW i \in Procs, NEW p \in Paths, Create(i, p) \/ Unlink(i, p) \/ Write(i, p)
      PROVE  CoreBlocks'
  <2>1. ~Unlink(i, p)
    BY DEF Unlink, NobodyUnlinks
  <2> QED
    BY <1>1, <1>3, <2>1 DEF Create, Write, Enter
<1>4. ASSUME NEW p \in Paths, Lookup(p) \/ Evict(p) PROVE CoreBlocks'
  <2>1. CASE Evict(p)
    <3>1. store' = store /\ core' = [core EXCEPT ![p] = NoInode] /\ core \in [Paths -> Inode]
      BY <2>1 DEF Evict, Ground, FsInv, TypeOK
    <3>2. \A q \in Paths : core'[q] # NoInode => core'[q] = core[q]
      BY <3>1
    <3> QED
      BY <3>1, <3>2, BlockKept DEF CoreBlocks
  <2> QED
    BY <1>4, <2>1, LookupBlocks
<1>5. CASE Writeback \/ UNCHANGED vars
  BY <1>1, <1>5 DEF Writeback, vars
<1>6. ASSUME NEW i \in Procs, Signal(i) PROVE CoreBlocks'
  BY <1>6 DEF Signal
<1>7. ~CrashAndMount
  BY StillUp DEF Ground
<1> QED
  BY <1>2, <1>3, <1>4, <1>5, <1>6, <1>7 DEF Next

LEMMA DiskNext ==
  ASSUME Signalled = {}, NobodyUnlinks, NamesGround, DiskInv, [Next]_vars, crashes' = 0
  PROVE  DiskInv'
BY OnDiskNext, BlocksNext DEF NamesGround, DiskInv

\* DiskInv is inductive on top of NamesInv and what that rests on.
LEMMA DiskInductive ==
  ASSUME Signalled = {}, NobodyUnlinks
  PROVE  Spec => [](crashes = 0 => NamesGround /\ DiskInv)
<1>1. Spec => [](crashes = 0 => NamesGround)
  BY NoUnlink, NamesInductive
<1>2. Init => DiskInv
  BY DiskInit
<1>3. FsInv /\ (crashes = 0 => NamesGround) /\ (crashes = 0 => DiskInv) /\ [Next]_vars
        => (crashes = 0 => DiskInv)'
  <2> SUFFICES ASSUME FsInv, crashes = 0 => NamesGround, crashes = 0 => DiskInv,
                      [Next]_vars, crashes' = 0
               PROVE  DiskInv'
    OBVIOUS
  <2> QED
    BY StillUp, DiskNext
<1> QED
  BY <1>1, <1>2, <1>3, Inductive, PTL DEF Spec

\* What the disk lacks is an inode that a create is about to save.
LEMMA DiskSlots ==
  ASSUME Ground, OnDisk, NEW k \in Slots
  PROVE  \/ dstore[k] = store[k]
         \/ dstore[k] = NoInode /\ \E j \in Procs : Unsaved(proc[j], k)
<1>1. store \in [Slots -> Inode]
  BY DEF Ground, FsInv, TypeOK
<1> QED
  BY <1>1 DEF OnDisk

LEMMA DiskFound ==
  ASSUME Ground, OnDisk, NEW k \in Slots, k < sb.count, store[k].ino # 0, dstore[k] = store[k]
  PROVE  GetInode(dstore, store[k].ino) = store[k]
<1>1. SlotsOf(dstore, store[k].ino) = {k}
  <2>1. ASSUME NEW l \in Slots, l < sb.count, dstore[l].ino = store[k].ino PROVE l = k
    <3>1. dstore[l] = store[l]
      BY <2>1, DiskSlots DEF NoInode
    <3>2. SlotNo(l) = SlotNo(k)
      BY <2>1, <3>1 DEF Ground, StoreOK
    <3> QED
      BY <3>2, SlotNoFacts
  <2> QED
    BY <2>1 DEF SlotsOf
<1>2. Min({k}) = k
  <2>1. {k} \in SUBSET Nat
    BY DEF Slots
  <2> QED
    BY <2>1, MinFacts
<1> QED
  BY <1>1, <1>2 DEF GetInode

\* A record on disk names no inode that is still to be saved.
LEMMA UnsavedUnnamed ==
  ASSUME NamesGround, DiskInv, NEW j \in Procs, NEW m \in Slots, Unsaved(proc[j], m),
         NEW k \in Slots, NEW r \in Places, Entry(k, r)
  PROVE  Rec(k, r).ino # SlotNo(m)
<1>1. CreateOK(proc[j]) /\ proc[j].found = "none"
  BY DEF NamesGround, NamesInv, DiskInv, AllAlive
<1> QED
  BY <1>1 DEF Unsaved, CreateOK

LEMMA ResolveOnDisk ==
  ASSUME NobodyUnlinks, NamesGround, DiskInv
  PROVE  DiskNamesResolve
<1>0. Ground /\ NamesInv /\ OnDisk /\ AllAlive
  BY DEF NamesGround, DiskInv
<1> SUFFICES ASSUME NEW k \in Used(dstore), dstore[k].mode = "dir",
                    NEW r \in 0 .. dstore[k].size - 1,
                    ddir[dstore[k].block][r].ino # 0
             PROVE  SlotsOf(dstore, ddir[dstore[k].block][r].ino) # {}
  BY DEF DiskNamesResolve
<1>1. /\ k \in Slots /\ k < sb.count /\ store[k].ino # 0 /\ store[k].mode = "dir"
      /\ dstore[k] = store[k] /\ store[k].size \in 0 .. DirCap
  <2>1. k \in Slots /\ k < sb.count /\ dstore[k].ino # 0
    BY DEF Used
  <2>2. dstore[k] = store[k]
    BY <1>0, <2>1, DiskSlots DEF NoInode
  <2>3. store[k].size <= DirCap /\ store[k].size \in Nat
    BY <1>0, <2>1, <2>2 DEF Ground, FsInv, CallsInv, DirsFit, TypeOK, Inode
  <2> QED
    BY <2>1, <2>2, <2>3
<1>3. PICK n : n = Rec(k, r).ino
  OBVIOUS
<1>4. r \in Places /\ Entry(k, r) /\ ddir[dstore[k].block][r].ino = n
  <2>1. ddir = dir
    BY <1>0 DEF OnDisk
  <2>2. ddir[dstore[k].block][r].ino = n
    BY <1>1, <1>3, <2>1 DEF Rec
  <2>3. r \in Places /\ r < store[k].size
    BY <1>1 DEF Places
  <2>4. IsDir(k)
    BY <1>1 DEF IsDir
  <2> QED
    BY <1>3, <2>2, <2>3, <2>4 DEF Entry
<1>5. PICK m \in Slots : m < sb.count /\ store[m].ino = n /\ n # 0
  <2>1. RecordOK(k, Rec(k, r).name, n)
    BY <1>0, <1>1, <1>3, <1>4 DEF NamesInv, RecordsOK
  <2>2. ASSUME NEW i \in Procs, NEW name, Pends(proc[i], k, name, n) PROVE FALSE
    <3>1. proc[i].found = "none" /\ proc[i].op # "unlink"
      BY <1>0, NoUnlink DEF AllAlive
    <3>2. proc[i].pc \notin {"save_rest", "forget"}
      BY <1>0, <3>1, CallGround DEF CallOK
    <3> QED
      BY <2>2, <3>1, <3>2 DEF Pends
  <2>3. \E m \in Slots : m < sb.count /\ store[m].ino = n
    BY <2>1, <2>2 DEF RecordOK, Resolved
  <2> QED
    BY <1>3, <1>4, <2>3 DEF Entry
<1>6. dstore[m] = store[m]
  <2>1. store[m].ino = SlotNo(m)
    BY <1>0, <1>5 DEF Ground, StoreOK
  <2>2. ASSUME NEW j \in Procs, Unsaved(proc[j], m) PROVE FALSE
    <3>1. Rec(k, r).ino # SlotNo(m)
      BY <1>1, <1>4, <2>2, UnsavedUnnamed
    <3> QED
      BY <1>3, <1>5, <2>1, <3>1
  <2> QED
    BY <1>0, <2>2, DiskSlots
<1> QED
  BY <1>4, <1>5, <1>6 DEF SlotsOf

\* An inode in core is on disk.
LEMMA CoreOnDisk ==
  ASSUME NobodyUnlinks, NamesGround, DiskInv, NEW p \in Paths, core[p] # NoInode
  PROVE  /\ SlotOf(p) \in Slots
         /\ core[p].ino = SlotNo(SlotOf(p)) /\ core[p].ino # 0
         /\ GetInode(dstore, core[p].ino) = store[SlotOf(p)]
<1>0. Ground /\ NamesInv /\ OnDisk /\ AllAlive
  BY DEF NamesGround, DiskInv
<1>1. PICK k : k = SlotOf(p)
  OBVIOUS
<1>2. CoreOK(p) /\ ~Going(p)
  <2>1. ~Going(p)
    BY <1>0, NoUnlink DEF Going, Goes
  <2> QED
    BY <1>0, <2>1 DEF NamesInv, CoresOK
<1>3. /\ k \in Slots /\ k < sb.count /\ core[p].ino # 0 /\ core[p].ino = SlotNo(k)
  BY <1>1, <1>2 DEF CoreOK, Number
<1>4. store[k].ino # 0 /\ store[k].ino = SlotNo(k)
  BY <1>0, <1>3 DEF AllAlive, Ground, StoreOK
<1>5. dstore[k] = store[k]
  <2>1. ASSUME NEW j \in Procs, Unsaved(proc[j], k) PROVE FALSE
    <3>1. proc[j].op = "create" /\ proc[j].pc \in Added /\ proc[j].new.ino = SlotNo(k)
      BY <2>1 DEF Unsaved
    <3> QED
      BY <1>0, <1>1, <3>1, CreatedApart
  <2> QED
    BY <1>0, <1>3, <2>1, DiskSlots
<1> QED
  BY <1>0, <1>1, <1>3, <1>4, <1>5, DiskFound

LEMMA DurableOnDisk ==
  ASSUME NobodyUnlinks, NamesGround, DiskInv
  PROVE  CreatedIsDurable
<1> SUFFICES ASSUME NEW p \in Paths \ {Root}, core[p] # NoInode
             PROVE  LET d == GetInode(dstore, core[Parent[p]].ino) IN
                    /\ \E r \in 0 .. d.size - 1 :
                         ddir[d.block][r] = [name |-> p, ino |-> core[p].ino]
                    /\ GetInode(dstore, core[p].ino).block = core[p].block
  BY DEF CreatedIsDurable
<1>1. PICK q : q = Parent[p]
  OBVIOUS
<1>2. core[p] # NoInode /\ CoreOK(p) /\ Number(core[p]) = core[p].ino
  BY CoreOnDisk DEF NamesGround, NamesInv, CoresOK, Number
<1>3. q \in Paths /\ core[q] # NoInode /\ HasEntry(SlotOf(q), p, core[p].ino)
  BY <1>1, <1>2 DEF CoreOK, NoInode
<1>4. PICK k : k = SlotOf(q)
  OBVIOUS
<1>5. k \in Slots /\ GetInode(dstore, core[q].ino) = store[k]
  BY <1>3, <1>4, CoreOnDisk
<1>6. PICK r \in Places : Entry(k, r) /\ Rec(k, r).name = p /\ Rec(k, r).ino = core[p].ino
  BY <1>3, <1>4 DEF HasEntry
<1>7. r \in 0 .. store[k].size - 1
  <2>1. store[k].size \in Nat
    BY <1>5 DEF NamesGround, Ground, FsInv, TypeOK, Inode
  <2> QED
    BY <1>6, <2>1 DEF Entry, Places
<1>8. ddir[store[k].block][r] = [name |-> p, ino |-> core[p].ino]
  <2>1. store[k].block \in Blocks /\ ddir = dir /\ dir \in [Blocks -> DirBlock]
    BY <1>5 DEF NamesGround, Ground, FsInv, TypeOK, Inode, DiskInv, OnDisk
  <2>2. PICK b \in Blocks : b = store[k].block
    BY <2>1
  <2>3. dir[b] \in DirBlock
    BY <2>1
  <2>4. dir[b][r] \in [name : Paths \cup {NoName}, ino : Nat]
    BY <2>3 DEF DirBlock, Places
  <2> QED
    BY <1>6, <2>1, <2>2, <2>4 DEF Rec
<1>9. GetInode(dstore, core[p].ino).block = core[p].block
  <2>1. GetInode(dstore, core[p].ino) = store[SlotOf(p)]
    BY <1>2, CoreOnDisk
  <2> QED
    BY <1>2, <2>1 DEF DiskInv, CoreBlocks
<1> QED
  BY <1>1, <1>5, <1>7, <1>8, <1>9

\* DiskNamesResolve: the records of each directory on disk are those of inodes on
\* disk, at every moment the first crash may come (simplefs_create_fs_object syncs
\* the record before it saves the directory's inode); without signals, and
\* where nobody unlinks.
THEOREM NamesOnDiskResolve ==
  ASSUME Signalled = {}, NobodyUnlinks
  PROVE  Spec => [](crashes = 0 => DiskNamesResolve)
<1>1. NamesGround /\ DiskInv => DiskNamesResolve
  BY ResolveOnDisk
<1> QED
  BY <1>1, DiskInductive, PTL

\* CreatedIsDurable: every file or directory in core, the one that create has just
\* returned for too, is found after a first crash at this moment: inode_save of the
\* directory writes the whole inode store; under the same assumptions.
THEOREM CreatesAreDurable ==
  ASSUME Signalled = {}, NobodyUnlinks
  PROVE  Spec => [](crashes = 0 => CreatedIsDurable)
<1>1. NamesGround /\ DiskInv => CreatedIsDurable
  BY DurableOnDisk
<1> QED
  BY <1>1, DiskInductive, PTL

-----------------------------------------------------------------------------
(* The tree that the callers see.  A name that lookup can find leads from  *)
(* the root, one directory after the other, to one number: TreeInv.        *)

\* A create is about to save the directory, which makes the name p count.
Growing(i, p) == /\ proc[i].op = "create" /\ proc[i].path = p
                 /\ proc[i].pc \in {"lock_save", "save"}

\* Number n has the name p: in a directory, or soon.
Called(p, n) == \/ \E k \in Slots : HasEntry(k, p, n)
                \/ \E i \in Procs : Growing(i, p) /\ proc[i].new.ino = n

\* Slot k has the directory d.
Linked(k, d) == IF d = Root THEN k = 0 ELSE \E l \in Slots : HasEntry(l, d, SlotNo(k))
LinkInv ==
  /\ core[Root] # NoInode
  /\ \A k \in Slots : \A p, n : HasEntry(k, p, n) => p # Root /\ Linked(k, Parent[p])
TreeInv == NamesGround /\ LinkInv

\* A path that is in core has a slot, which the tree links to it.
LEMMA CoreLinked ==
  ASSUME TreeInv, NEW d \in Paths, core[d] # NoInode
  PROVE  SlotOf(d) \in Slots /\ SlotOf(d) < sb.count /\ Linked(SlotOf(d), d)
<1>1. CoreOK(d)
  BY DEF TreeInv, NamesGround, NamesInv, CoresOK
<1>2. CASE d = Root
  BY <1>1, <1>2 DEF CoreOK, Linked
<1>3. CASE d # Root
  <2>1. PICK q \in Paths : q = Parent[d] /\ core[q].mode = "dir"
    BY <1>1, <1>3 DEF CoreOK
  <2>2. core[q] # NoInode
    BY <2>1 DEF NoInode
  <2>3. SlotOf(q) \in Slots
    BY <2>2 DEF TreeInv, NamesGround, NamesInv, CoresOK, CoreOK
  <2>4. HasEntry(SlotOf(q), d, SlotNo(SlotOf(d)))
    BY <1>1, <1>3, <2>1 DEF CoreOK
  <2> QED
    BY <1>1, <1>3, <2>3, <2>4 DEF CoreOK, Linked
<1> QED
  BY <1>2, <1>3

\* What has a name is a path below the root.
LEMMA CalledPath ==
  ASSUME TreeInv, NEW p, NEW n, Called(p, n)
  PROVE  p \in Paths \ {Root} /\ n # 0
<1>0. Ground /\ NamesInv
  BY DEF TreeInv, NamesGround
<1>1. ASSUME NEW k \in Slots, HasEntry(k, p, n) PROVE p \in Paths \ {Root} /\ n # 0
  <2>1. PICK r \in Places : Entry(k, r) /\ Rec(k, r).name = p /\ Rec(k, r).ino = n
    BY <1>1 DEF HasEntry
  <2>2. RecordOK(k, p, n)
    BY <1>0, <2>1 DEF NamesInv, RecordsOK
  <2> QED
    BY <1>1, <2>1, <2>2 DEF RecordOK, Entry, TreeInv, LinkInv
<1>2. ASSUME NEW i \in Procs, Growing(i, p), proc[i].new.ino = n
      PROVE  p \in Paths \ {Root} /\ n # 0
  <2>1. p \in Paths \ {Root}
    BY <1>0, <1>2, ParentIsDir DEF Growing
  <2>2. proc[i].pc \in Added /\ proc[i].op = "create" /\ CreateOK(proc[i])
    BY <1>0, <1>2 DEF Growing, Added, NamesInv
  <2>3. \E m \in Slots : n = SlotNo(m)
    BY <1>2, <2>2 DEF CreateOK
  <2> QED
    BY <2>1, <2>3, SlotNoFacts
<1> QED
  BY <1>1, <1>2 DEF Called

\* A name has one number: a directory would have two before its entry has.
LEMMA OneNumber ==
  ASSUME TreeInv, NobodyCreatesBeside, NEW p, NEW n, NEW m, Called(p, n), Called(p, m)
  PROVE  n = m
<1>0. Ground /\ NamesInv /\ LinkInv
  BY DEF TreeInv, NamesGround
<1> DEFINE Two(q) == \E a, b : Called(q, a) /\ Called(q, b) /\ a # b
           S == {q \in Paths \ {Root} : Two(q)}
<1>1. ASSUME NEW q \in Paths \ {Root}, Parent[q] \notin S, NEW a, NEW b,
             Called(q, a), Called(q, b)
      PROVE  a = b
  <2>1. PICK d \in Paths : d = Parent[q]
    OBVIOUS
  <2>2. ASSUME NEW k \in Slots, NEW l \in Slots, Linked(k, d), Linked(l, d) PROVE k = l
    <3>1. CASE d = Root
      BY <2>2, <3>1 DEF Linked
    <3>2. CASE d # Root
      <4>1. Called(d, SlotNo(k)) /\ Called(d, SlotNo(l))
        BY <2>2, <3>2 DEF Linked, Called
      <4>2. ~Two(d)
        BY <1>1, <2>1, <3>2
      <4>3. SlotNo(k) = SlotNo(l)
        BY <4>1, <4>2
      <4> QED
        BY <4>3, SlotNoFacts
    <3> QED
      BY <3>1, <3>2
  <2>3. ASSUME NEW k \in Slots, NEW l \in Slots, NEW x, NEW y,
               HasEntry(k, q, x), HasEntry(l, q, y)
        PROVE  x = y
    <3>1. Linked(k, d) /\ Linked(l, d)
      BY <1>0, <2>1, <2>3 DEF LinkInv
    <3>2. k = l
      BY <2>2, <3>1
    <3>3. PICK r \in Places : Entry(k, r) /\ Rec(k, r).name = q /\ Rec(k, r).ino = x
      BY <2>3 DEF HasEntry
    <3>4. PICK s \in Places : Entry(k, s) /\ Rec(k, s).name = q /\ Rec(k, s).ino = y
      BY <2>3, <3>2 DEF HasEntry
    <3>5. r = s
      BY <1>0, <3>3, <3>4 DEF NamesInv, RecordsDiffer
    <3> QED
      BY <3>3, <3>4, <3>5
  <2>4. ASSUME NEW i \in Procs, Growing(i, q), NEW k \in Slots, NEW x, HasEntry(k, q, x)
        PROVE  FALSE
    <3>1. proc[i].op = "create" /\ proc[i].path = q /\ core[d].mode = "dir"
      BY <1>0, <2>1, <2>4, ParentIsDir DEF Growing
    <3>2. core[d] # NoInode
      BY <3>1 DEF NoInode
    <3>3. SlotOf(d) \in Slots /\ Linked(SlotOf(d), d)
      BY <3>2, CoreLinked
    <3>4. Linked(k, d)
      BY <1>0, <2>1, <2>4 DEF LinkInv
    <3>5. k = SlotOf(Parent[proc[i].path])
      BY <2>1, <2>2, <3>1, <3>3, <3>4
    <3>6. CreateOK(proc[i]) /\ proc[i].pc \in {"lock_save", "save"}
      BY <1>0, <2>4 DEF NamesInv, Growing
    <3>7. \A r \in Places : Entry(k, r) => Rec(k, r).name # q
      BY <3>1, <3>5, <3>6 DEF CreateOK
    <3> QED
      BY <2>4, <3>7 DEF HasEntry
  <2>5. ASSUME NEW i \in Procs, Growing(i, q), NEW j \in Procs, Growing(j, q) PROVE i = j
    BY <1>0, <2>5, OneChanger DEF Ground, Growing
  <2> QED
    BY <1>1, <2>3, <2>4, <2>5 DEF Called
<1>2. \A q \in S : Parent[q] \in S
  <2> SUFFICES ASSUME NEW q \in S, Parent[q] \notin S PROVE FALSE
    OBVIOUS
  <2>1. PICK a, b : Called(q, a) /\ Called(q, b) /\ a # b
    OBVIOUS
  <2> QED
    BY <1>1, <2>1
<1>3. S = {}
  <2>1. S \in SUBSET (Paths \ {Root})
    OBVIOUS
  <2> HIDE DEF S
  <2> QED
    BY <1>2, <2>1, TreeAssumption
<1>4. p \in Paths \ {Root}
  BY CalledPath
<1> QED
  BY <1>3, <1>4

\* A directory has one slot.
LEMMA LinkedOnce ==
  ASSUME TreeInv, NobodyCreatesBeside, NEW d, NEW k \in Slots, NEW l \in Slots,
         Linked(k, d), Linked(l, d)
  PROVE  k = l
<1>1. CASE d = Root
  BY <1>1 DEF Linked
<1>2. CASE d # Root
  <2>1. Called(d, SlotNo(k)) /\ Called(d, SlotNo(l))
    BY <1>2 DEF Linked, Called
  <2>2. SlotNo(k) = SlotNo(l)
    BY <2>1, OneNumber
  <2> QED
    BY <2>2, SlotNoFacts
<1> QED
  BY <1>1, <1>2

\* A create whose name has no record yet.
LEMMA CreateUnnamed ==
  ASSUME TreeInv, NobodyCreatesBeside, NEW i \in Procs, proc[i].op = "create",
         proc[i].found # "samedir", proc[i].pc \notin {"lock_dir", "lock_save", "save"}
  PROVE  \A n : ~Called(proc[i].path, n)
<1>0. Ground /\ NamesInv /\ LinkInv
  BY DEF TreeInv, NamesGround
<1>1. PICK p : p = proc[i].path
  OBVIOUS
<1>2. PICK d \in Paths : d = Parent[p] /\ core[d].mode = "dir"
  BY <1>0, <1>1, ParentIsDir
<1>3. core[d] # NoInode
  BY <1>2 DEF NoInode
<1>4. SlotOf(d) \in Slots /\ Linked(SlotOf(d), d)
  BY <1>3, CoreLinked
<1>5. ASSUME NEW k \in Slots, NEW n, HasEntry(k, p, n) PROVE FALSE
  <2>1. Linked(k, d)
    BY <1>0, <1>2, <1>5 DEF LinkInv
  <2>2. k = SlotOf(d)
    BY <1>4, <2>1, LinkedOnce
  <2>3. CreateOK(proc[i])
    BY <1>0 DEF NamesInv
  <2>4. \A r \in Places : Entry(k, r) => Rec(k, r).name # p
    BY <1>1, <1>2, <2>2, <2>3 DEF CreateOK
  <2> QED
    BY <1>5, <2>4 DEF HasEntry
<1>6. ASSUME NEW j \in Procs, Growing(j, p) PROVE FALSE
  BY <1>0, <1>6, OneChanger DEF Ground, Growing
<1> QED
  BY <1>1, <1>5, <1>6 DEF Called

\* The inode that lookup finds for p.
Shows(p) == IF core[p] # NoInode THEN core[p]
            ELSE IF \E n : Called(p, n) THEN GetInode(store, CHOOSE n : Called(p, n))
            ELSE NoInode

\* What lookup finds for a name that is not in core is the inode of its number.
LEMMA ShowsCalled ==
  ASSUME TreeInv, NobodyCreatesBeside, NEW p, core[p] = NoInode, NEW n, Called(p, n)
  PROVE  Shows(p) = GetInode(store, n)
<1>1. Called(p, CHOOSE m : Called(p, m))
  OBVIOUS
<1>2. n = CHOOSE m : Called(p, m)
  BY <1>1, OneNumber
<1> QED
  BY <1>2 DEF Shows

\* What is in core or in a slot is shown under its name.
LEMMA CoreCalled ==
  ASSUME TreeInv, NEW p \in Paths \ {Root}, core[p] # NoInode
  PROVE  Called(p, SlotNo(SlotOf(p)))
<1>1. Linked(SlotOf(p), p)
  BY CoreLinked
<1> QED
  BY <1>1 DEF Linked, Called

\* A slot in use is what lookup finds for a name that is not in core.
LEMMA SlotShown ==
  ASSUME TreeInv, NobodyCreatesBeside, NEW p, core[p] = NoInode,
         NEW k \in Slots, k < sb.count, store[k].ino # 0, Called(p, SlotNo(k))
  PROVE  Shows(p) = store[k]
<1>1. store[k].ino = SlotNo(k) /\ Ground
  BY DEF TreeInv, NamesGround, Ground, StoreOK
<1>2. GetInode(store, SlotNo(k)) = store[k]
  BY <1>1, InodeFound
<1> QED
  BY <1>2, ShowsCalled

\* A directory in core: nobody writes to it or unlinks it.
LEMMA DirInCore ==
  ASSUME NamesGround, NEW d \in Paths, core[d].mode = "dir"
  PROVE  LET k == SlotOf(d) IN
         /\ k \in Slots /\ IsDir(k) /\ core[d].block = store[k].block
         /\ core[d].size = IF Grown(d) THEN store[k].size + 1 ELSE store[k].size
<1>1. core[d] # NoInode
  BY DEF NoInode
<1>2. CoreOK(d) /\ FsInv
  BY <1>1 DEF NamesGround, Ground, NamesInv, CoresOK
<1>3. ~Resized(d) /\ ~Going(d)
  BY <1>2 DEF FsInv, CallsInv, CallOK, Resized, Going, Resizes, Goes
<1>4. PICK k : k = SlotOf(d)
  OBVIOUS
<1>5. k \in Slots /\ k < sb.count /\ store[k].mode = core[d].mode /\ store[k].ino # 0
  BY <1>2, <1>3, <1>4 DEF CoreOK
<1>6. store[k] \in Inode
  BY <1>2, <1>5 DEF FsInv, TypeOK
<1>7. CASE Grown(d)
  <2>1. core[d] = [store[k] EXCEPT !.size = @ + 1]
    BY <1>2, <1>4, <1>7 DEF CoreOK
  <2> QED
    BY <1>4, <1>5, <1>6, <1>7, <2>1 DEF Inode, IsDir
<1>8. CASE ~Grown(d)
  <2>1. core[d] = store[k]
    BY <1>2, <1>3, <1>4, <1>8 DEF CoreOK
  <2> QED
    BY <1>4, <1>5, <1>8, <2>1 DEF IsDir
<1> QED
  BY <1>7, <1>8

\* What a directory grows by is in core.
LEMMA GrownInCore ==
  ASSUME NamesGround, NEW d, Grown(d)
  PROVE  d \in Paths /\ core[d].mode = "dir"
BY ParentIsDir DEF Grown, Grows, NamesGround

\* A linked directory is shown with its block and the size that callers see.
LEMMA DirShown ==
  ASSUME TreeInv, NobodyCreatesBeside, NEW d \in Paths, NEW k \in Slots, IsDir(k),
         Linked(k, d)
  PROVE  /\ Shows(d).mode = "dir" /\ Shows(d).block = store[k].block
         /\ Shows(d).size = IF Grown(d) THEN store[k].size + 1 ELSE store[k].size
<1>1. CASE core[d] # NoInode
  <2>1. SlotOf(d) = k
    BY <1>1, CoreLinked, LinkedOnce
  <2>2. CoreOK(d)
    BY <1>1 DEF TreeInv, NamesGround, NamesInv, CoresOK
  <2>3. core[d].mode = "dir"
    BY <2>1, <2>2 DEF CoreOK, IsDir
  <2> QED
    BY <1>1, <2>1, <2>3, DirInCore DEF TreeInv, Shows
<1>2. CASE core[d] = NoInode
  <2>1. d # Root /\ ~Grown(d)
    BY <1>2, GrownInCore DEF TreeInv, LinkInv, NoInode
  <2>2. Called(d, SlotNo(k))
    BY <2>1 DEF Linked, Called
  <2>3. Shows(d) = store[k]
    BY <1>2, <2>2, SlotShown DEF IsDir
  <2> QED
    BY <2>1, <2>3 DEF IsDir
<1> QED
  BY <1>1, <1>2

\* What is shown as a directory has a slot of that kind.
LEMMA DirOf ==
  ASSUME TreeInv, NobodyCreatesBeside, NEW d \in Paths, Shows(d).mode = "dir"
  PROVE  \E k \in Slots :
           /\ IsDir(k) /\ Shows(d).block = store[k].block
           /\ Shows(d).size = IF Grown(d) THEN store[k].size + 1 ELSE store[k].size
           /\ Grown(d) => SlotOf(d) = k
<1>1. CASE core[d] # NoInode
  <2>1. core[d].mode = "dir" /\ Shows(d) = core[d]
    BY <1>1 DEF Shows
  <2> QED
    BY <2>1, DirInCore DEF TreeInv
<1>2. CASE core[d] = NoInode
  <2>1. ~Grown(d)
    BY <1>2, GrownInCore DEF TreeInv, NoInode
  <2>2. PICK n : Called(d, n) /\ Shows(d) = GetInode(store, n)
    <3>1. \E n : Called(d, n)
      BY <1>2 DEF Shows, NoInode
    <3> QED
      BY <1>2, <3>1, ShowsCalled
  <2>3. PICK k \in Slots : k < sb.count /\ store[k].ino = n /\ Shows(d) = store[k]
    <3>1. SlotsOf(store, n) # {}
      BY <2>2 DEF GetInode, NoInode
    <3>2. SlotsOf(store, n) \in SUBSET Nat
      BY DEF SlotsOf, Slots
    <3>3. Min(SlotsOf(store, n)) \in SlotsOf(store, n)
      BY <3>1, <3>2, MinFacts
    <3> QED
      BY <2>2, <3>1, <3>3 DEF GetInode, SlotsOf
  <2>4. n # 0
    BY <2>2, CalledPath
  <2> QED
    BY <2>1, <2>3, <2>4 DEF IsDir
<1> QED
  BY <1>1, <1>2

\* A create has its record behind those that count in its directory's slot.
LEMMA GrowingRecord ==
  ASSUME TreeInv, NEW p, NEW i \in Procs, Growing(i, p)
  PROVE  /\ p \in Paths \ {Root} /\ Grown(Parent[p])
         /\ core[Parent[p]].mode = "dir" /\ SlotOf(Parent[p]) \in Slots
         /\ store[SlotOf(Parent[p])].size \in Places
         /\ Rec(SlotOf(Parent[p]), store[SlotOf(Parent[p])].size)
              = [name |-> p, ino |-> proc[i].new.ino]
         /\ proc[i].new.ino # 0
<1>0. Ground /\ NamesInv
  BY DEF TreeInv, NamesGround
<1>1. /\ p \in Paths \ {Root} /\ proc[i].op = "create" /\ proc[i].path = p
      /\ core[Parent[p]].mode = "dir"
  BY <1>0, ParentIsDir DEF Growing
<1>2. Grown(Parent[p])
  BY <1>1 DEF Grown, Grows, Growing
<1>3. PICK k : k = SlotOf(Parent[p])
  OBVIOUS
<1>4. k \in Slots
  BY <1>1, <1>3, DirInCore DEF TreeInv
<1>5. CreateOK(proc[i]) /\ proc[i].pc \in Recorded /\ proc[i].found # "samedir"
  BY <1>0 DEF NamesInv, Growing, Recorded, Added, CreateOK
<1>6. /\ store[k].size < DirCap
      /\ Rec(k, store[k].size) = [name |-> p, ino |-> proc[i].new.ino]
  BY <1>1, <1>3, <1>5 DEF CreateOK
<1>7. store[k].size \in Places
  <2>1. store[k].size \in Nat
    BY <1>0, <1>4 DEF Ground, FsInv, TypeOK, Inode
  <2> QED
    BY <1>6, <2>1 DEF Places
<1>8. proc[i].new.ino # 0
  BY CalledPath DEF Called
<1> QED
  BY <1>1, <1>2, <1>3, <1>4, <1>6, <1>7, <1>8

\* The records that lookup can match, in the directory as it is shown.
LEMMA FoundCalled ==
  ASSUME TreeInv, NobodyCreatesBeside, NEW p \in Paths \ {Root}, NEW d,
         d = Shows(Parent[p]), NEW r \in FoundIn(d, p)
  PROVE  Called(p, dir[d.block][r].ino)
<1>1. PICK q \in Paths : q = Parent[p]
  OBVIOUS
<1>2. /\ r \in Places /\ d.mode = "dir" /\ r < d.size
      /\ dir[d.block][r].name = p /\ dir[d.block][r].ino # 0
  BY DEF FoundIn, Places
<1>3. PICK k \in Slots :
           /\ IsDir(k) /\ d.block = store[k].block
           /\ d.size = IF Grown(q) THEN store[k].size + 1 ELSE store[k].size
           /\ Grown(q) => SlotOf(q) = k
  BY <1>1, <1>2, DirOf
<1>4. Rec(k, r) = dir[d.block][r]
  BY <1>3 DEF Rec
<1>5. CASE r < store[k].size
  <2>1. HasEntry(k, p, Rec(k, r).ino)
    BY <1>2, <1>3, <1>4, <1>5 DEF HasEntry, Entry
  <2> QED
    BY <1>4, <2>1 DEF Called
<1>6. CASE ~(r < store[k].size)
  <2>1. store[k].size \in Nat
    BY DEF TreeInv, NamesGround, Ground, FsInv, TypeOK, Inode
  <2>2. Grown(q) /\ r = store[k].size
    BY <1>2, <1>3, <1>6, <2>1 DEF Places
  <2>3. PICK i \in Procs : Grows(proc[i], q)
    BY <2>2 DEF Grown
  <2>4. PICK c : c = proc[i].path
    OBVIOUS
  <2>5. Growing(i, c) /\ Parent[c] = q
    BY <2>3, <2>4 DEF Grows, Growing
  <2>6. Rec(k, r) = [name |-> c, ino |-> proc[i].new.ino]
    BY <1>3, <2>2, <2>5, GrowingRecord
  <2>7. c = p /\ dir[d.block][r].ino = proc[i].new.ino
    BY <1>2, <1>4, <2>6
  <2> QED
    BY <2>5, <2>7 DEF Called
<1> QED
  BY <1>5, <1>6

\* simplefs_lookup finds the record of whatever has a name.
LEMMA CalledFound ==
  ASSUME TreeInv, NobodyCreatesBeside, NEW p, NEW n, Called(p, n)
  PROVE  FoundIn(Shows(Parent[p]), p) # {}
<1>1. p \in Paths \ {Root} /\ n # 0
  BY CalledPath
<1>2. PICK q \in Paths : q = Parent[p]
  BY <1>1
<1>3. PICK d : d = Shows(q)
  OBVIOUS
<1>4. ASSUME NEW k \in Slots, HasEntry(k, p, n) PROVE FoundIn(d, p) # {}
  <2>1. PICK r \in Places : Entry(k, r) /\ Rec(k, r).name = p /\ Rec(k, r).ino = n
    BY <1>4 DEF HasEntry
  <2>2. IsDir(k) /\ r < store[k].size /\ Linked(k, q)
    BY <1>2, <1>4, <2>1 DEF TreeInv, LinkInv, Entry
  <2>3. /\ d.mode = "dir" /\ d.block = store[k].block
        /\ d.size = IF Grown(q) THEN store[k].size + 1 ELSE store[k].size
    BY <1>3, <2>2, DirShown
  <2>4. store[k].size \in Nat
    BY DEF TreeInv, NamesGround, Ground, FsInv, TypeOK, Inode
  <2>5. r < d.size
    BY <2>2, <2>3, <2>4 DEF Places
  <2>6. r \in FoundIn(d, p)
    BY <1>1, <2>1, <2>3, <2>5 DEF FoundIn, Places, Rec
  <2> QED
    BY <2>6
<1>5. ASSUME NEW i \in Procs, Growing(i, p), proc[i].new.ino = n PROVE FoundIn(d, p) # {}
  <2>1. PICK k : k = SlotOf(q)
    OBVIOUS
  <2>2. PICK r : r = store[k].size
    OBVIOUS
  <2>3. /\ Grown(q) /\ core[q].mode = "dir" /\ k \in Slots /\ r \in Places
        /\ Rec(k, r) = [name |-> p, ino |-> n]
    BY <1>2, <1>5, <2>1, <2>2, GrowingRecord
  <2>4. core[q].block = store[k].block /\ core[q].size = r + 1
    BY <2>1, <2>2, <2>3, DirInCore DEF TreeInv
  <2>5. d = core[q]
    BY <1>3, <2>3 DEF Shows, NoInode
  <2>6. r \in FoundIn(d, p)
    BY <1>1, <2>3, <2>4, <2>5 DEF FoundIn, Places, Rec
  <2> QED
    BY <2>6
<1> QED
  BY <1>2, <1>3, <1>4, <1>5 DEF Called

\* InodeOf, which walks from the root, is what is in core or has the name.
LEMMA InodeShown ==
  ASSUME TreeInv, NobodyCreatesBeside
  PROVE  /\ \A p \in Paths : InodeOf[p] = Shows(p)
         /\ \A p : p \in Tree <=> p = Root \/ \E n : Called(p, n)
<1> DEFINE Next1(d, p) == IF FoundIn(d, p) = {} THEN NoInode
                          ELSE GetInode(store, dir[d.block][Min(FoundIn(d, p))].ino)
           Walks(f) == f = [p \in Paths |-> IF p = Root \/ core[p] # NoInode THEN core[p]
                                            ELSE Next1(f[Parent[p]], p)]
           F == [p \in Paths |-> Shows(p)]
<1>1. \A p \in Paths \ {Root} :
        core[p] = NoInode => Shows(p) = Next1(Shows(Parent[p]), p)
  <2> SUFFICES ASSUME NEW p \in Paths \ {Root}, core[p] = NoInode
               PROVE  Shows(p) = Next1(Shows(Parent[p]), p)
    OBVIOUS
  <2>1. PICK d : d = Shows(Parent[p])
    OBVIOUS
  <2>2. CASE FoundIn(d, p) = {}
    <3>1. \A n : ~Called(p, n)
      BY <2>1, <2>2, CalledFound
    <3>2. Shows(p) = NoInode
      BY <3>1 DEF Shows
    <3> QED
      BY <2>1, <2>2, <3>2
  <2>3. CASE FoundIn(d, p) # {}
    <3>1. FoundIn(d, p) \in SUBSET Nat
      BY DEF FoundIn
    <3>2. PICK r : r = Min(FoundIn(d, p)) /\ r \in FoundIn(d, p)
      BY <2>3, <3>1, MinFacts
    <3>3. Called(p, dir[d.block][r].ino)
      BY <2>1, <3>2, FoundCalled
    <3>4. Shows(p) = GetInode(store, dir[d.block][r].ino)
      BY <3>3, ShowsCalled
    <3> QED
      BY <2>1, <2>3, <3>2, <3>4
  <2> QED
    BY <2>2, <2>3
<1>2. core[Root] # NoInode
  BY DEF TreeInv, LinkInv
<1> HIDE DEF Next1
<1>3. Walks(F)
  <2>1. \A p \in Paths : F[p] = IF p = Root \/ core[p] # NoInode THEN core[p]
                                ELSE Next1(F[Parent[p]], p)
    <3> SUFFICES ASSUME NEW p \in Paths
                 PROVE  F[p] = IF p = Root \/ core[p] # NoInode THEN core[p]
                               ELSE Next1(F[Parent[p]], p)
      OBVIOUS
    <3>1. CASE p = Root \/ core[p] # NoInode
      BY <1>2, <3>1 DEF Shows
    <3>2. CASE ~(p = Root \/ core[p] # NoInode)
      <4>1. F[Parent[p]] = Shows(Parent[p]) /\ F[p] = Shows(p)
        BY <3>2
      <4> QED
        BY <1>1, <3>2, <4>1
    <3> QED
      BY <3>1, <3>2
  <2> QED
    BY <2>1
<1>4. ASSUME NEW f, Walks(f) PROVE f = F
  <2> DEFINE S == {p \in Paths \ {Root} : f[p] # F[p]}
  <2> HIDE DEF F
  <2>1. \A p \in S : Parent[p] \in S
    <3> SUFFICES ASSUME NEW p \in S, Parent[p] \notin S PROVE FALSE
      OBVIOUS
    <3>1. PICK q \in Paths : q = Parent[p]
      OBVIOUS
    <3>2. f[q] = F[q]
      BY <1>3, <1>4, <3>1
    <3>3. f[p] = F[p]
      BY <1>3, <1>4, <3>1, <3>2
    <3> QED
      BY <3>3
  <2>2. S = {}
    <3>1. S \in SUBSET (Paths \ {Root})
      OBVIOUS
    <3> HIDE DEF S
    <3> QED
      BY <2>1, <3>1, TreeAssumption
  <2>3. \A p \in Paths : f[p] = F[p]
    BY <1>3, <1>4, <2>2
  <2> QED
    BY <1>3, <1>4, <2>3
<1>5. InodeOf = CHOOSE f : Walks(f)
  BY DEF InodeOf, Next1
<1>6. InodeOf = F
  <2> HIDE DEF Walks, F
  <2> QED
    BY <1>3, <1>4, <1>5
<1>7. \A p : p \in Tree <=> p = Root \/ \E n : Called(p, n)
  <2> SUFFICES ASSUME NEW p PROVE p \in Tree <=> p = Root \/ \E n : Called(p, n)
    OBVIOUS
  <2>1. CASE p \in Paths \ {Root}
    <3>1. PICK d : d = Shows(Parent[p])
      OBVIOUS
    <3>2. InodeOf[Parent[p]] = d
      BY <1>6, <2>1, <3>1
    <3>3. p \in Tree <=> FoundIn(d, p) # {}
      BY <2>1, <3>2 DEF Tree
    <3>4. FoundIn(d, p) # {} => \E n : Called(p, n)
      BY <2>1, <3>1, FoundCalled
    <3>5. (\E n : Called(p, n)) => FoundIn(d, p) # {}
      BY <3>1, CalledFound
    <3> QED
      BY <2>1, <3>3, <3>4, <3>5
  <2>2. CASE p \notin Paths \ {Root}
    <3>1. \A n : ~Called(p, n)
      BY <2>2, CalledPath
    <3> QED
      BY <2>2, <3>1 DEF Tree
  <2> QED
    BY <2>1, <2>2
<1> QED
  BY <1>6, <1>7

\* What a step does to the records that count.
Keeps == \A l \in Slots : \A q, m : HasEntry(l, q, m)' <=> HasEntry(l, q, m)
Gains(k, p, n) == \A l \in Slots : \A q, m :
  HasEntry(l, q, m)' <=> HasEntry(l, q, m) \/ (l = k /\ q = p /\ m = n)
Loses(n) == \A l \in Slots : \A q, m : HasEntry(l, q, m)' <=> HasEntry(l, q, m) /\ m # n

\* Records that count stay when neither the store nor a block changes.
LEMMA CalmEntries ==
  ASSUME UNCHANGED <<store, dir>>, sb'.count = sb.count
  PROVE  Keeps
BY DEF Keeps, HasEntry, Entry, IsDir, Rec

\* A record added to those that count of a slot is the only one gained.
LEMMA EntryGained ==
  ASSUME NEW k, NEW r0, NEW p, NEW n, NEW x, x = [name |-> p, ino |-> n], Gained(k, r0, x)
  PROVE  Gains(k, p, n)
<1>0. /\ k \in Slots /\ r0 \in Places
      /\ ~Entry(k, r0) /\ Entry(k, r0)' /\ Rec(k, r0)' = x
      /\ \A l \in Slots : \A r \in Places : l # k \/ r # r0 =>
           /\ Entry(l, r)' <=> Entry(l, r)
           /\ Entry(l, r) => Rec(l, r)' = Rec(l, r)
  BY DEF Gained
<1>1. ASSUME NEW l \in Slots, NEW q, NEW m, HasEntry(l, q, m)'
      PROVE  HasEntry(l, q, m) \/ (l = k /\ q = p /\ m = n)
  <2>1. PICK r \in Places : Entry(l, r)' /\ Rec(l, r)'.name = q /\ Rec(l, r)'.ino = m
    BY <1>1 DEF HasEntry
  <2>2. CASE l = k /\ r = r0
    BY <1>0, <2>1, <2>2
  <2>3. CASE l # k \/ r # r0
    BY <1>0, <2>1, <2>3 DEF HasEntry
  <2> QED
    BY <2>2, <2>3
<1>2. ASSUME NEW l \in Slots, NEW q, NEW m, HasEntry(l, q, m)
      PROVE  HasEntry(l, q, m)'
  <2>1. PICK r \in Places : Entry(l, r) /\ Rec(l, r).name = q /\ Rec(l, r).ino = m
    BY <1>2 DEF HasEntry
  <2>2. l # k \/ r # r0
    BY <1>0, <2>1
  <2>3. Entry(l, r)' /\ Rec(l, r)' = Rec(l, r)
    BY <1>0, <2>1, <2>2
  <2> QED
    BY <2>1, <2>3 DEF HasEntry
<1>3. HasEntry(k, p, n)'
  BY <1>0 DEF HasEntry
<1> QED
  BY <1>1, <1>2, <1>3 DEF Gains

\* get_dead_inode_no and the record in a hole.
LEMMA SearchEntries ==
  ASSUME Ground, NamesInv, NobodyCreatesBeside, NEW i \in Procs, Search(i)
  PROVE  LET p == proc[i].path IN
         /\ UNCHANGED <<sb, store, core>> /\ proc[i].pc = "search"
         /\ proc[i].op = "create" /\ proc[i].found = "none"
         /\ \E c \in Call :
              /\ proc' = [proc EXCEPT ![i] = c]
              /\ c.op = "create" /\ c.path = p /\ c.pc \in {"lock_free", "lock_add"}
              /\ c.ret = proc[i].ret
              /\ \/ Keeps /\ c.found # "samedir"
                 \/ /\ c.found = "samedir"
                    /\ \E m \in Slots : /\ m < sb.count /\ store[m].ino = 0
                                        /\ Gains(SlotOf(Parent[p]), p, SlotNo(m))
<1>0. PICK p : p = proc[i].path
  OBVIOUS
<1>1. PICK d : d = Parent[p]
  OBVIOUS
<1>2. /\ UNCHANGED <<sb, store, core>> /\ proc[i].pc = "search"
      /\ proc[i].op = "create" /\ proc[i].found = "none"
      /\ \/ UNCHANGED dir /\ Go(i, "lock_free")
         \/ \E c \in Call, m \in Slots :
              /\ proc' = [proc EXCEPT ![i] = c]
              /\ c.op = "create" /\ c.path = p /\ c.pc = "lock_add"
              /\ c.ret = proc[i].ret
              /\ c.new.mode = Kind[p] /\ c.new.ino = SlotNo(m)
              /\ m < sb.count /\ store[m].ino = 0 /\ store[m].dead = SlotNo(m)
              /\ \/ UNCHANGED dir /\ c.found = "elsewhere"
                 \/ /\ c.found = "samedir"
                    /\ \E r0 \in Holes(d) : \E x :
                         /\ x = [name |-> p, ino |-> SlotNo(m)]
                         /\ Wrote(SlotOf(d), r0, x)
  BY <1>0, <1>1, SearchDoes
<1>3. CASE UNCHANGED dir /\ Go(i, "lock_free")
  <2>1. Keeps
    BY <1>2, <1>3, CalmEntries
  <2>2. PICK c : c = [proc[i] EXCEPT !.pc = "lock_free"]
    OBVIOUS
  <2>3. /\ c \in Call /\ c.op = "create" /\ c.path = p /\ c.pc = "lock_free"
        /\ c.ret = proc[i].ret /\ c.found # "samedir"
    BY <1>0, <1>2, <2>2, CallGround DEF Call, Label, LockOf
  <2>4. proc' = [proc EXCEPT ![i] = c]
    BY <1>3, <2>2
  <2> QED
    BY <1>0, <1>2, <2>1, <2>3, <2>4
<1>4. ASSUME NEW c \in Call, NEW m \in Slots, proc' = [proc EXCEPT ![i] = c],
             c.op = "create", c.path = p, c.pc = "lock_add",
             m < sb.count, store[m].ino = 0
      PROVE  /\ UNCHANGED dir => Keeps
             /\ \A r0 \in Holes(d) : \A x :
                  x = [name |-> p, ino |-> SlotNo(m)] /\ Wrote(SlotOf(d), r0, x)
                  => Gains(SlotOf(d), p, SlotNo(m))
  <2>1. UNCHANGED dir => Keeps
    BY <1>2, CalmEntries
  <2>2. ASSUME NEW r0 \in Holes(d), NEW x, x = [name |-> p, ino |-> SlotNo(m)],
               Wrote(SlotOf(d), r0, x)
        PROVE  Gains(SlotOf(d), p, SlotNo(m))
    <3>1. x.ino # 0
      BY <2>2, SlotNoFacts
    <3>2. PICK k : k = SlotOf(d)
      OBVIOUS
    <3>5. /\ proc[i].op = "create" /\ At(i, "search") /\ UNCHANGED <<sb, store, core>>
          /\ r0 \in Holes(Parent[proc[i].path])
          /\ Wrote(k, r0, x)
      BY <1>0, <1>1, <1>2, <2>2, <3>2
    <3>6. k = SlotOf(Parent[proc[i].path])
      BY <1>0, <1>1, <3>2
    <3>3. Gained(k, r0, x)
      BY <3>1, <3>5, <3>6, HoleFilled
    <3>4. Gains(k, p, SlotNo(m))
      BY <2>2, <3>3, EntryGained
    <3> QED
      BY <3>2, <3>4
  <2> QED
    BY <2>1, <2>2
<1> QED
  BY <1>0, <1>1, <1>2, <1>3, <1>4

\* inode_add puts an empty inode in a slot that was not in use.
LEMMA AddEntries ==
  ASSUME Ground, NamesInv, NobodyCreatesBeside, NEW i \in Procs, Add(i)
  PROVE  /\ Keeps /\ UNCHANGED <<dir, core>> /\ proc[i].pc = "add"
         /\ proc[i].op = "create" /\ Go(i, "record")
         /\ \E m \in Slots :
              /\ m < sb.count => store[m].ino = 0
              /\ store'[m].size = 0
              /\ \A l \in Slots \ {m} : /\ store'[l] = store[l]
                                        /\ l < sb'.count <=> l < sb.count
              /\ store'[m].ino = SlotNo(m) /\ m < sb'.count
<1>1. PICK m \in Slots :
           /\ m # 0 /\ (m < sb.count => store[m].ino = 0)
           /\ m < sb'.count /\ \A l \in Slots \ {m} : l < sb'.count <=> l < sb.count
           /\ store' = [store EXCEPT ![m] = proc[i].new] /\ proc[i].new.ino = SlotNo(m)
  BY AddDoes
<1>2. /\ UNCHANGED <<dir, core>> /\ proc[i].pc = "add" /\ proc[i].op = "create"
      /\ Go(i, "record")
  BY AddDoes
<1>3. PICK new : new = proc[i].new /\ new.size = 0
  BY CallGround DEF CallOK
<1>4. /\ store'[m] = new /\ \A l \in Slots \ {m} : store'[l] = store[l]
      /\ \A l \in Slots : \A name, n : HasEntry(l, name, n)' <=> HasEntry(l, name, n)
  <2>1. store' = [store EXCEPT ![m] = new] /\ new.size = 0 /\ UNCHANGED dir
    BY <1>1, <1>2, <1>3
  <2>2. /\ m < sb.count => store[m].ino = 0
        /\ \A l \in Slots \ {m} : l < sb'.count <=> l < sb.count
    BY <1>1
  <2> QED
    BY <2>1, <2>2, SlotFilled
<1>5. Keeps
  BY <1>4 DEF Keeps
<1> QED
  BY <1>1, <1>2, <1>3, <1>4, <1>5

\* dir_record writes behind the records that count.
LEMMA RecordEntries ==
  ASSUME Ground, NamesInv, NEW i \in Procs, Record(i)
  PROVE  /\ Keeps /\ UNCHANGED <<sb, store, core>> /\ proc[i].pc = "record"
         /\ proc[i].op = "create" /\ Go(i, "lock_children")
<1>1. /\ UNCHANGED <<sb, store, core>> /\ proc[i].pc = "record"
      /\ proc[i].op = "create" /\ Go(i, "lock_children")
  BY CallGround DEF Record, CallOK, Creating
<1>2. CASE proc[i].found = "samedir"
  <2>1. UNCHANGED dir
    BY <1>2 DEF Record
  <2> QED
    BY <1>1, <2>1, CalmEntries
<1>3. CASE proc[i].found # "samedir"
  <2>1. \A l \in Slots : \A r \in Places :
          /\ Entry(l, r)' <=> Entry(l, r)
          /\ Entry(l, r) => Rec(l, r)' = Rec(l, r)
    <3>1. PICK k : k = SlotOf(Parent[proc[i].path])
      OBVIOUS
    <3> QED
      BY <1>3, <3>1, RecordDoes
  <2>2. Keeps
    BY <2>1, SameEntries DEF Keeps, NamesInv
  <2> QED
    BY <1>1, <2>2
<1> QED
  BY <1>2, <1>3

\* simplefs_unlink takes the records of a number.
LEMMA ForgetEntries ==
  ASSUME Ground, NamesInv, NobodyCreatesBeside, NEW i \in Procs, Forget(i)
  PROVE  Loses(core[proc[i].path].dead)
<1>1. PICK n : n = core[proc[i].path].dead
  OBVIOUS
<1>2. \A l \in Slots : \A r \in Places :
        /\ Entry(l, r)' => Entry(l, r) /\ Rec(l, r)' = Rec(l, r) /\ Rec(l, r).ino # n
        /\ Entry(l, r) /\ Rec(l, r).ino # n => Entry(l, r)' /\ Rec(l, r)' = Rec(l, r)
  BY <1>1, ForgetDoes
<1>3. \A l \in Slots : \A q, m : HasEntry(l, q, m)' => HasEntry(l, q, m) /\ m # n
  BY <1>2 DEF HasEntry
<1>4. \A l \in Slots : \A q, m : HasEntry(l, q, m) /\ m # n => HasEntry(l, q, m)'
  BY <1>2 DEF HasEntry
<1> QED
  BY <1>1, <1>3, <1>4 DEF Loses

\* Saving the directory makes the record of the create count.
LEMMA SaveEntries ==
  ASSUME Ground, NamesInv, NobodyCreatesBeside, NEW i \in Procs, Save(i)
  PROVE  /\ proc[i].op # "create" => Keeps
         /\ proc[i].op = "create" =>
              Gains(SlotOf(Parent[proc[i].path]), proc[i].path, proc[i].new.ino)
<1>0. PICK p : p = proc[i].path
  OBVIOUS
<1>1. PICK d : d = Parent[p]
  OBVIOUS
<1>2. PICK k : k = SlotOf(d)
  OBVIOUS
<1>3. ASSUME NEW c, NEW s, FileSaved(i, c, s) PROVE Keeps
  BY <1>3, FileSlot DEF Keeps
<1>4. CASE /\ proc[i].op = "create" /\ proc[i].pc = "save"
           /\ store' = [store EXCEPT ![SlotOf(d)] = core[d]] /\ UNCHANGED <<sb, dir>>
  <2>1. PICK r0 : r0 = store[k].size
    OBVIOUS
  <2>2. PICK n : n = proc[i].new.ino
    OBVIOUS
  <2>3. PICK x : x = [name |-> p, ino |-> n]
    OBVIOUS
  <2>4. DirSaved(i, d, k, r0, x)
    BY <1>0, <1>1, <1>2, <1>4, <2>1, <2>2, <2>3 DEF DirSaved
  <2>5. Gained(k, r0, x)
    BY <2>4, GrowDoes
  <2>6. Gains(k, p, n)
    BY <2>3, <2>5, EntryGained
  <2> QED
    BY <1>0, <1>1, <1>2, <1>4, <2>2, <2>6
<1>5. proc[i].op = "create" => /\ proc[i].pc = "save"
                               /\ store' = [store EXCEPT ![SlotOf(d)] = core[d]]
                               /\ UNCHANGED <<sb, dir>>
  BY <1>0, <1>1, SaveDoes
<1>6. proc[i].op # "create" => \E c, s : FileSaved(i, c, s)
  BY <1>0, <1>1, SaveDoes
<1> QED
  BY <1>3, <1>4, <1>5, <1>6

-----------------------------------------------------------------------------
(* The tree stays linked.                                                  *)

\* The tree stays linked when the records that count stay,
LEMMA LinkKept ==
  ASSUME LinkInv, Keeps, core'[Root] # NoInode
  PROVE  LinkInv'
<1>1. \A k \in Slots : \A d : Linked(k, d) => Linked(k, d)'
  BY DEF Linked, Keeps
<1> QED
  BY <1>1 DEF LinkInv, Keeps

\* or when a name below a directory in core is gained,
LEMMA LinkGain ==
  ASSUME TreeInv, core'[Root] # NoInode, NEW p \in Paths \ {Root}, core[Parent[p]] # NoInode,
         NEW n, NEW k, k = SlotOf(Parent[p]), Gains(k, p, n)
  PROVE  LinkInv'
<1>1. \A l \in Slots : \A d : Linked(l, d) => Linked(l, d)'
  BY DEF Linked, Gains
<1>2. PICK q \in Paths : q = Parent[p]
  OBVIOUS
<1>3. Linked(k, q) /\ k \in Slots
  BY <1>2, CoreLinked
<1>4. ASSUME NEW l \in Slots, NEW o, NEW m, HasEntry(l, o, m)'
      PROVE  o # Root /\ Linked(l, Parent[o])
  <2>1. CASE HasEntry(l, o, m)
    BY <2>1 DEF TreeInv, LinkInv
  <2>2. CASE l = k /\ o = p
    BY <1>2, <1>3, <2>2
  <2> QED
    BY <1>4, <2>1, <2>2 DEF Gains
<1> QED
  BY <1>1, <1>4 DEF LinkInv

\* or when the number of a file is lost.
LEMMA LinkLoss ==
  ASSUME LinkInv, core'[Root] # NoInode, NEW m \in Slots, ~IsDir(m), NEW n, n = SlotNo(m),
         Loses(n)
  PROVE  LinkInv'
<1>1. ASSUME NEW k \in Slots, NEW p, NEW y, HasEntry(k, p, y)'
      PROVE  p # Root /\ Linked(k, Parent[p])'
  <2>1. HasEntry(k, p, y)
    BY <1>1 DEF Loses
  <2>2. p # Root /\ Linked(k, Parent[p])
    BY <2>1 DEF LinkInv
  <2>3. IsDir(k)
    BY <2>1 DEF HasEntry, Entry
  <2>4. SlotNo(k) # n
    BY <2>3, SlotNoFacts
  <2>5. PICK d : d = Parent[p]
    OBVIOUS
  <2>6. Linked(k, d)'
    BY <2>2, <2>4, <2>5 DEF Linked, Loses
  <2> QED
    BY <2>2, <2>5, <2>6
<1> QED
  BY <1>1 DEF LinkInv

\* The root stays in core.
LEMMA RootStays ==
  ASSUME Ground, NamesInv, core[Root] # NoInode, [Next]_vars, crashes' = 0
  PROVE  core'[Root] # NoInode
<1>1. core \in [Paths -> Inode] /\ core[Root].mode = "dir"
  BY DEF Ground, FsInv, TypeOK, NamesInv, CoresOK, CoreOK
<1>2. \A q \in Paths : core[q].mode = "dir" /\ core'[q].mode = core[q].mode => core'[q] # NoInode
  BY DEF NoInode
<1>3. ASSUME NEW i \in Procs, Step(i) PROVE core'[Root] # NoInode
  <2>1. PICK p : p = proc[i].path
    OBVIOUS
  <2>2. proc[i].op \in {"create", "unlink"} => p # Root
    BY <2>1, CallGround DEF CallOK
  <2>3. ASSUME NEW held, NEW code, Saved(i, held, code), proc[i].op # "none"
        PROVE  core'[Root] # NoInode
    BY <1>1, <2>1, <2>2, <2>3 DEF Saved
  <2>4. CASE Acquire(i) \/ Count(i) \/ Search(i) \/ TakeBlock(i) \/ Add(i) \/ Record(i)
    BY <2>4 DEF Acquire, Count, Search, TakeBlock, Add, Record
  <2>5. CASE Interrupted(i)
    BY <2>5 DEF Interrupted, Ground, OwnInv
  <2>6. CASE Children(i)
    <3>1. proc[i].op = "create"
      BY <2>6, CallGround DEF Children, CallOK, Creating
    <3>2. CASE proc[i].found = "samedir"
      BY <2>3, <2>6, <3>1, <3>2 DEF Children
    <3>3. CASE proc[i].found # "samedir"
      <4>1. core' = [core EXCEPT ![Parent[p]].size = @ + 1]
        BY <2>1, <2>6, <3>3 DEF Children
      <4>2. core'[Root].mode = core[Root].mode
        BY <1>1, <4>1 DEF Inode
      <4> QED
        BY <1>1, <1>2, <4>2
    <3> QED
      BY <3>2, <3>3
  <2>7. CASE Save(i)
    <3>1. proc[i].op # "none"
      BY <2>7, CallGround DEF Save, CallOK
    <3>2. core' = core \/ \E held, code : Saved(i, held, code)
      BY <2>7 DEF Save
    <3> QED
      BY <2>3, <3>1, <3>2
  <2>8. CASE Forget(i)
    <3>1. proc[i].op = "unlink"
      BY <2>8, CallGround DEF Forget, CallOK
    <3>2. core' = [core EXCEPT ![p] = NoInode]
      BY <2>1, <2>8 DEF Forget
    <3> QED
      BY <1>1, <2>2, <3>1, <3>2
  <2>9. CASE Resize(i)
    <3>1. \E n \in FileSizes : core' = [core EXCEPT ![p].size = n]
      BY <2>1, <2>9 DEF Resize
    <3>2. core'[Root].mode = core[Root].mode
      BY <1>1, <3>1 DEF Inode
    <3> QED
      BY <1>1, <1>2, <3>2
  <2> QED
    BY <1>3, <2>4, <2>5, <2>6, <2>7, <2>8, <2>9 DEF Step
<1>4. ASSUME NEW i \in Procs, NEW p \in Paths, Unlink(i, p) PROVE core'[Root] # NoInode
  <2>1. p # Root /\ (core' = [core EXCEPT ![p] = NoInode]
                     \/ core' = [core EXCEPT ![p].dead = core[p].ino, ![p].ino = 0])
    BY <1>4 DEF Unlink
  <2> QED
    BY <1>1, <2>1
<1>5. ASSUME NEW i \in Procs, NEW p \in Paths, Create(i, p) \/ Write(i, p)
      PROVE  core'[Root] # NoInode
  BY <1>5 DEF Create, Write, Enter
<1>6. ASSUME NEW p \in Paths, Lookup(p) \/ Evict(p) PROVE core'[Root] # NoInode
  BY <1>1, <1>6 DEF Lookup, Evict
<1>7. CASE Writeback \/ UNCHANGED vars
  BY <1>7 DEF Writeback, vars
<1>8. ~CrashAndMount
  BY StillUp DEF Ground
<1>9. ASSUME NEW i \in Procs, Signal(i) PROVE core'[Root] # NoInode
  BY <1>9 DEF Signal
<1> QED
  BY <1>3, <1>4, <1>5, <1>6, <1>7, <1>8, <1>9 DEF Next

\* Every step keeps the tree linked.
LEMMA LinkNext ==
  ASSUME Signalled = {}, NobodyCreatesBeside, TreeInv, [Next]_vars, crashes' = 0
  PROVE  LinkInv'
<1>0. Ground /\ NamesInv /\ LinkInv
  BY DEF TreeInv, NamesGround
<1>1. core'[Root] # NoInode
  BY <1>0, RootStays DEF LinkInv
<1>2. Keeps => LinkInv'
  BY <1>0, <1>1, LinkKept
<1>3. ASSUME NEW i \in Procs, Step(i) PROVE LinkInv'
  <2>1. PICK p : p = proc[i].path
    OBVIOUS
  <2>2. PICK k : k = SlotOf(Parent[p])
    OBVIOUS
  <2>3. ASSUME proc[i].op = "create", NEW n, Gains(k, p, n) PROVE LinkInv'
    <3>1. p \in Paths \ {Root} /\ core[Parent[p]] # NoInode
      BY <1>0, <2>1, <2>3, ParentIsDir DEF NoInode
    <3> QED
      BY <1>1, <2>2, <2>3, <3>1, LinkGain
  <2>4. CASE Acquire(i) \/ Count(i) \/ Children(i) \/ Resize(i)
    <3>1. UNCHANGED <<store, dir>> /\ sb'.count = sb.count
      BY <2>4 DEF Acquire, Count, Children, Resize
    <3> QED
      BY <1>2, <3>1, CalmEntries
  <2>5. CASE TakeBlock(i)
    <3>1. UNCHANGED <<store, dir>> /\ sb'.count = sb.count
      BY <1>0, <2>5 DEF TakeBlock, Ground, FsInv, TypeOK
    <3> QED
      BY <1>2, <3>1, CalmEntries
  <2>6. CASE Search(i)
    <3>1. /\ proc[i].op = "create"
          /\ Keeps \/ \E m \in Slots : Gains(k, p, SlotNo(m))
      BY <1>0, <2>1, <2>2, <2>6, SearchEntries
    <3> QED
      BY <1>2, <2>3, <3>1
  <2>7. CASE Add(i) \/ Record(i)
    BY <1>0, <1>2, <2>7, AddEntries, RecordEntries
  <2>8. CASE Save(i)
    <3>1. PICK n : n = proc[i].new.ino
      OBVIOUS
    <3>2. proc[i].op = "create" => Gains(k, p, n)
      BY <1>0, <2>1, <2>2, <2>8, <3>1, SaveEntries
    <3>3. proc[i].op # "create" => Keeps
      BY <1>0, <2>8, SaveEntries
    <3> QED
      BY <1>2, <2>3, <3>2, <3>3
  <2>9. CASE Forget(i)
    <3>1. PICK n : n = core[p].dead
      OBVIOUS
    <3>2. Loses(n)
      BY <1>0, <2>1, <2>9, <3>1, ForgetEntries
    <3>3. n = SlotNo(SlotOf(p)) /\ core[p].mode = "file" /\ CoreOK(p) /\ p \in Paths
      BY <1>0, <2>1, <2>9, <3>1, ForgetDoes
    <3>4. PICK m \in Slots : m = SlotOf(p)
      BY <3>3 DEF CoreOK
    <3>5. ~IsDir(m) /\ n = SlotNo(m)
      BY <3>3, <3>4 DEF CoreOK, IsDir
    <3> QED
      BY <1>0, <1>1, <3>2, <3>5, LinkLoss
  <2>10. ~Interrupted(i)
    BY <1>0 DEF Interrupted, Ground, OwnInv
  <2> QED
    BY <1>3, <2>4, <2>5, <2>6, <2>7, <2>8, <2>9, <2>10 DEF Step
<1>4. ASSUME NEW i \in Procs, NEW p \in Paths, Create(i, p) \/ Unlink(i, p) \/ Write(i, p)
      PROVE  LinkInv'
  <2>1. UNCHANGED <<store, dir>> /\ sb'.count = sb.count
    BY <1>4 DEF Create, Unlink, Write, Enter
  <2> QED
    BY <1>2, <2>1, CalmEntries
<1>8. ASSUME NEW p \in Paths, Lookup(p) \/ Evict(p) PROVE LinkInv'
  <2>1. UNCHANGED <<store, dir>> /\ sb'.count = sb.count
    BY <1>8 DEF Lookup, Evict
  <2> QED
    BY <1>2, <2>1, CalmEntries
<1>5. ~CrashAndMount
  BY <1>0, StillUp DEF Ground
<1>6. CASE Writeback \/ UNCHANGED vars
  <2>1. UNCHANGED <<store, dir>> /\ sb'.count = sb.count
    BY <1>6 DEF Writeback, vars
  <2> QED
    BY <1>2, <2>1, CalmEntries
<1>7. ASSUME NEW i \in Procs, Signal(i) PROVE LinkInv'
  <2>1. UNCHANGED <<store, dir>> /\ sb'.count = sb.count
    BY <1>7 DEF Signal
  <2> QED
    BY <1>2, <2>1, CalmEntries
<1> QED
  BY <1>3, <1>4, <1>5, <1>6, <1>7, <1>8 DEF Next

\* TreeInv is inductive on top of what NamesInductive keeps.
LEMMA TreeInductive ==
  ASSUME Signalled = {}, NobodyCreatesBeside
  PROVE  Spec => [](crashes = 0 => TreeInv)
<1>1. Init => LinkInv
  <2> SUFFICES ASSUME Init PROVE LinkInv
    OBVIOUS
  <2>1. core[Root] # NoInode
    BY DEF Init, NoInode, ROOTDIR_INODE
  <2>2. ASSUME NEW k \in Slots, NEW p, NEW n, HasEntry(k, p, n)
        PROVE  p # Root /\ Linked(k, Parent[p])
    <3>1. PICK r \in Places : Entry(k, r) /\ Rec(k, r).name = p
      BY <2>2 DEF HasEntry
    <3>2. sb.count = 2 /\ IsDir(k)
      BY <3>1 DEF Init, Entry
    <3>3. k = 0 \/ k = 1
      BY <3>2 DEF IsDir, Slots
    <3>4. k = 0
      BY <3>2, <3>3 DEF Init, IsDir
    <3>5. store[0].size = 1 /\ store[0].block = 2
      BY SizeAssumption DEF Init, Slots
    <3>6. r = 0
      BY <3>1, <3>4, <3>5 DEF Entry, Places
    <3>7. Rec(k, r).name = Welcome
      BY <3>4, <3>5, <3>6 DEF Init, Rec, Places
    <3> QED
      BY <3>1, <3>4, <3>7 DEF Linked
  <2> QED
    BY <2>1, <2>2 DEF LinkInv
<1>2. TreeInv /\ [Next]_vars /\ crashes' = 0 => LinkInv'
  BY LinkNext
<1>3. NamesGround /\ [Next]_vars /\ crashes' = 0 => crashes = 0
  BY StillUp DEF NamesGround, Ground
<1>4. (crashes = 0 => TreeInv) <=> (crashes = 0 => NamesGround) /\ (crashes = 0 => LinkInv)
  BY DEF TreeInv
<1>5. (FsInv /\ (crashes = 0 => NamesGround) /\ (crashes = 0 => LinkInv))
      /\ [Next]_vars => (crashes = 0 => LinkInv)'
  <2> SUFFICES ASSUME FsInv, crashes = 0 => NamesGround, crashes = 0 => LinkInv, [Next]_vars,
                      crashes' = 0
               PROVE  LinkInv'
    OBVIOUS
  <2>1. crashes = 0
    BY StillUp
  <2> QED
    BY <1>2, <2>1 DEF TreeInv
<1> QED
  BY <1>1, <1>4, <1>5, NamesInductive, Inductive, PTL DEF Spec

-----------------------------------------------------------------------------
(* Tree, FileSize and Pending, from one state to the next.                 *)

\* A number is that of one name.
LEMMA OneName1 ==
  ASSUME TreeInv, NobodyCreatesBeside, NEW p, NEW q, NEW n, Called(p, n), Called(q, n)
  PROVE  p = q
<1>0. Ground /\ NamesInv
  BY DEF TreeInv, NamesGround
<1>1. ASSUME NEW k \in Slots, NEW l \in Slots, NEW a, NEW b, HasEntry(k, a, n), HasEntry(l, b, n)
      PROVE  a = b
  BY <1>0, <1>1 DEF NamesInv, RecordsDiffer, HasEntry
<1>2. ASSUME NEW i \in Procs, NEW a, Growing(i, a), proc[i].new.ino = n,
             NEW k \in Slots, NEW b, HasEntry(k, b, n)
      PROVE  FALSE
  <2>1. CreateOK(proc[i]) /\ proc[i].op = "create" /\ proc[i].pc \in {"lock_save", "save"}
    BY <1>0, <1>2 DEF NamesInv, Growing
  <2>2. \A l \in Slots : \A r \in Places : Entry(l, r) => Rec(l, r).ino # n
    BY <1>2, <2>1 DEF CreateOK, Added
  <2> QED
    BY <1>2, <2>2 DEF HasEntry
<1>3. ASSUME NEW i \in Procs, NEW j \in Procs, NEW a, NEW b, Growing(i, a), Growing(j, b)
      PROVE  a = b
  <2>1. i = j
    BY <1>0, <1>3, OneChanger DEF Ground, Growing
  <2> QED
    BY <1>3, <2>1 DEF Growing
<1> QED
  BY <1>1, <1>2, <1>3 DEF Called

\* A slot in use is of the kind of the name that its number has.
LEMMA CalledKind ==
  ASSUME TreeInv, NEW p, NEW k \in Slots, k < sb.count, store[k].ino # 0,
         Called(p, store[k].ino)
  PROVE  store[k].mode = Kind[p]
<1>0. Ground /\ NamesInv /\ store[k].ino = SlotNo(k)
  BY DEF TreeInv, NamesGround, Ground, StoreOK
<1>1. PICK n : n = SlotNo(k)
  OBVIOUS
<1>2. ASSUME NEW m \in Slots, n = SlotNo(m) PROVE m = k
  BY <1>1, <1>2, SlotNoFacts
<1>3. ASSUME NEW l \in Slots, HasEntry(l, p, n) PROVE store[k].mode = Kind[p]
  <2>1. PICK r \in Places : Entry(l, r) /\ Rec(l, r).name = p /\ Rec(l, r).ino = n
    BY <1>3 DEF HasEntry
  <2>2. RecordOK(l, p, n)
    BY <1>0, <2>1 DEF NamesInv, RecordsOK
  <2>3. CASE Resolved(p, n)
    <3>1. PICK m \in Slots : m < sb.count /\ store[m].ino = n /\ store[m].mode = Kind[p]
      BY <2>3 DEF Resolved
    <3>2. store[m].ino = SlotNo(m)
      BY <1>0, <1>1, <3>1 DEF Ground, StoreOK
    <3> QED
      BY <1>2, <3>1, <3>2
  <2>4. ASSUME NEW i \in Procs, Pends(proc[i], l, p, n) PROVE FALSE
    <3>1. CASE proc[i].pc \in {"save_rest", "forget"} /\ n = core[proc[i].path].dead
      <4>1. PICK q : q = proc[i].path
        OBVIOUS
      <4>2. /\ proc[i].op = "unlink" /\ q \in Paths /\ core[q].mode = "file"
            /\ core[q].ino = 0
        BY <1>0, <3>1, <4>1, CallGround, CallFacts DEF CallOK
      <4>3. core[q] # NoInode
        BY <4>2 DEF NoInode
      <4>4. CoreOK(q) /\ UnlinkOK(proc[i])
        BY <1>0, <4>2, <4>3 DEF NamesInv, CoresOK
      <4>5. store[SlotOf(q)].ino = 0
        BY <3>1, <4>1, <4>2, <4>4 DEF UnlinkOK
      <4>6. SlotOf(q) \in Slots /\ n = SlotNo(SlotOf(q))
        BY <3>1, <4>1, <4>2, <4>4 DEF CoreOK, Number
      <4> QED
        BY <1>2, <4>5, <4>6
    <3>2. CASE proc[i].pc \in Adding /\ proc[i].found = "samedir" /\ n = proc[i].new.ino
      <4>1. CreateOK(proc[i]) /\ proc[i].op = "create"
        BY <1>0, <3>2, CallGround DEF NamesInv, CallOK, Creating, Adding
      <4>2. \E m \in Slots : store[m].ino = 0 /\ n = SlotNo(m)
        BY <3>2, <4>1 DEF CreateOK
      <4> QED
        BY <1>2, <4>2
    <3> QED
      BY <2>4, <3>1, <3>2 DEF Pends
  <2> QED
    BY <2>2, <2>3, <2>4 DEF RecordOK
<1>4. ASSUME NEW i \in Procs, Growing(i, p), proc[i].new.ino = n
      PROVE  store[k].mode = Kind[p]
  <2>1. CreateOK(proc[i]) /\ proc[i].op = "create" /\ proc[i].pc \in {"lock_save", "save"}
        /\ proc[i].path = p
    BY <1>0, <1>4 DEF NamesInv, Growing
  <2>2. proc[i].new.mode = Kind[p]
    BY <2>1 DEF CreateOK
  <2>3. PICK m \in Slots : store[m] = proc[i].new /\ proc[i].new.ino = SlotNo(m)
    BY <2>1 DEF CreateOK, Added
  <2>4. m = k
    BY <1>2, <1>4, <2>3
  <2> QED
    BY <2>2, <2>3, <2>4
<1> QED
  BY <1>0, <1>1, <1>3, <1>4 DEF Called

\* What is shown of p, and what the store has under number n, to callers.
SizeSeen(p) == IF Kind[p] = "file" THEN Shows(p).size ELSE 0
Fetched(n)  == GetInode(store, n).size

\* What TreeInv says of names and numbers.
Seen ==
  /\ \A p : p \in Tree <=> p = Root \/ \E n : Called(p, n)
  /\ FileSize = [p \in Paths |-> SizeSeen(p)]
  /\ \A p, n : Called(p, n) => p \in Paths \ {Root} /\ n # 0
  /\ \A p, n, m : Called(p, n) /\ Called(p, m) => n = m
  /\ \A p, q, n : Called(p, n) /\ Called(q, n) => p = q
  /\ \A p, n : core[p] = NoInode /\ Called(p, n) => Shows(p) = GetInode(store, n)
  /\ \A k \in Slots : k < sb.count /\ store[k].ino # 0 =>
       GetInode(store, store[k].ino) = store[k] /\ store[k].ino = SlotNo(k)

\* TreeInv implies Seen.
LEMMA TreeSeen ==
  ASSUME NobodyCreatesBeside
  PROVE  TreeInv => Seen
<1> SUFFICES ASSUME TreeInv PROVE Seen
  OBVIOUS
<1>1. \A p \in Paths : InodeOf[p] = Shows(p)
  BY InodeShown
<1>2. FileSize = [p \in Paths |-> SizeSeen(p)]
  BY <1>1 DEF FileSize, SizeSeen
<1>3. \A p : p \in Tree <=> p = Root \/ \E n : Called(p, n)
  BY InodeShown
<1>4. \A p, n : Called(p, n) => p \in Paths \ {Root} /\ n # 0
  BY CalledPath
<1>5. \A p, n, m : Called(p, n) /\ Called(p, m) => n = m
  BY OneNumber
<1>6. \A p, q, n : Called(p, n) /\ Called(q, n) => p = q
  BY OneName1
<1>7. \A p, n : core[p] = NoInode /\ Called(p, n) => Shows(p) = GetInode(store, n)
  BY ShowsCalled
<1>8. ASSUME NEW k \in Slots, k < sb.count, store[k].ino # 0
      PROVE  GetInode(store, store[k].ino) = store[k] /\ store[k].ino = SlotNo(k)
  BY <1>8, InodeFound DEF TreeInv, NamesGround, Ground, StoreOK
<1> QED
  BY <1>2, <1>3, <1>4, <1>5, <1>6, <1>7, <1>8 DEF Seen

\* Before and after a step.
Both == TreeInv /\ Seen /\ TreeInv' /\ Seen'

\* What a step keeps under a number.
LEMMA FetchedSame ==
  ASSUME NEW n,
         \A k \in Slots : k < sb'.count /\ store'[k].ino = n <=> k < sb.count /\ store[k].ino = n,
         \A k \in Slots : k < sb.count /\ store[k].ino = n => store'[k].size = store[k].size
  PROVE  Fetched(n)' = Fetched(n)
<1>1. PICK s : s = SlotsOf(store, n)
  OBVIOUS
<1>2. SlotsOf(store, n)' = s
  BY <1>1 DEF SlotsOf
<1>3. CASE s = {}
  BY <1>1, <1>2, <1>3 DEF Fetched, GetInode
<1>4. CASE s # {}
  <2>1. s \in SUBSET Nat
    BY <1>1 DEF SlotsOf, Slots
  <2>2. PICK k \in s : k = Min(s)
    BY <1>4, <2>1, MinFacts
  <2>3. store'[k].size = store[k].size
    BY <1>1 DEF SlotsOf
  <2> QED
    BY <1>1, <1>2, <1>4, <2>2, <2>3 DEF Fetched, GetInode
<1> QED
  BY <1>3, <1>4

\* Names and numbers stay when the records that count do and the creates that
\* are about to save.
LEMMA CalledKept ==
  ASSUME Keeps, NEW i \in Procs, \A j \in Procs \ {i} : proc'[j] = proc[j],
         \A p, n : (Growing(i, p) /\ proc[i].new.ino = n)' <=> Growing(i, p) /\ proc[i].new.ino = n
  PROVE  \A p, n : Called(p, n)' <=> Called(p, n)
<1>1. \A j \in Procs \ {i} : \A p, n :
        (Growing(j, p) /\ proc[j].new.ino = n)' <=> Growing(j, p) /\ proc[j].new.ino = n
  BY DEF Growing
<1>2. \A j \in Procs : \A p, n :
        (Growing(j, p) /\ proc[j].new.ino = n)' <=> Growing(j, p) /\ proc[j].new.ino = n
  BY <1>1
<1>3. \A p, n : (\E j \in Procs : (Growing(j, p) /\ proc[j].new.ino = n)')
        <=> \E j \in Procs : Growing(j, p) /\ proc[j].new.ino = n
  BY <1>2
<1>4. ASSUME NEW p, NEW n PROVE Called(p, n)' <=> Called(p, n)
  <2>1. (\E k \in Slots : HasEntry(k, p, n)') <=> \E k \in Slots : HasEntry(k, p, n)
    BY DEF Keeps
  <2>2. Called(p, n)' <=> \/ \E k \in Slots : HasEntry(k, p, n)'
                         \/ \E j \in Procs : (Growing(j, p) /\ proc[j].new.ino = n)'
    BY DEF Called
  <2>3. (\E j \in Procs : (Growing(j, p) /\ proc[j].new.ino = n)')
          <=> \E j \in Procs : Growing(j, p) /\ proc[j].new.ino = n
    BY <1>3
  <2> QED
    BY <2>1, <2>2, <2>3 DEF Called
<1> QED
  BY <1>4

\* The size of a name whose inode is not in core.
LEMMA SizeKept ==
  ASSUME Both, NEW p, core[p] = NoInode, core'[p] = NoInode,
         \A n : Called(p, n)' <=> Called(p, n),
         \A n : Called(p, n) => Fetched(n)' = Fetched(n)
  PROVE  SizeSeen(p)' = SizeSeen(p)
<1>1. CASE \A n : ~Called(p, n)
  <2>1. Shows(p) = NoInode
    BY <1>1 DEF Shows
  <2>2. Shows(p)' = NoInode
    BY <1>1 DEF Shows
  <2> QED
    BY <2>1, <2>2 DEF SizeSeen
<1>2. ASSUME NEW n, Called(p, n) PROVE SizeSeen(p)' = SizeSeen(p)
  <2>1. Shows(p).size = Fetched(n)
    BY <1>2 DEF Both, Seen, Fetched
  <2>2. Shows(p)'.size = Fetched(n)'
    BY <1>2 DEF Both, Seen, Fetched
  <2> QED
    BY <1>2, <2>1, <2>2 DEF SizeSeen
<1> QED
  BY <1>1, <1>2

\* The size of a name whose inode a step does not touch.
LEMMA CalmSize ==
  ASSUME Both, NEW p, core'[p] = core[p], \A n : Called(p, n)' <=> Called(p, n),
         \A n : Called(p, n) => Fetched(n)' = Fetched(n)
  PROVE  SizeSeen(p)' = SizeSeen(p)
<1>1. CASE core[p] = NoInode
  BY <1>1, SizeKept
<1>2. CASE core[p] # NoInode
  BY <1>2 DEF SizeSeen, Shows
<1> QED
  BY <1>1, <1>2

\* A step that changes no name and no size.
LEMMA SizesKept ==
  ASSUME Both, \A p \in Paths : Kind[p] = "file" => SizeSeen(p)' = SizeSeen(p)
  PROVE  FileSize' = FileSize
<1>1. \A p \in Paths : SizeSeen(p)' = SizeSeen(p)
  BY DEF SizeSeen
<1>2. FileSize' = [p \in Paths |-> SizeSeen(p)'] /\ FileSize = [p \in Paths |-> SizeSeen(p)]
  BY DEF Both, Seen
<1>3. PICK f, g : f = FileSize /\ g = FileSize'
  OBVIOUS
<1>4. f = [p \in Paths |-> SizeSeen(p)] /\ g = [p \in Paths |-> SizeSeen(p)']
  BY <1>2, <1>3
<1>5. f = g
  BY <1>1, <1>4
<1> QED
  BY <1>3, <1>5

\* The tree is the set of names.
LEMMA TreeKept ==
  ASSUME Both, \A p, n : Called(p, n)' <=> Called(p, n)
  PROVE  Tree' = Tree
<1>1. \A p : p \in Tree' <=> p \in Tree
  BY DEF Both, Seen
<1>2. PICK s, u : s = Tree /\ u = Tree'
  OBVIOUS
<1>3. \A p : p \in s <=> p \in u
  BY <1>1, <1>2
<1>4. s = u
  BY <1>3
<1> QED
  BY <1>2, <1>4

\* The tree and the sizes stay when names and the sizes of files do.
LEMMA ViewKept ==
  ASSUME Both, \A p, n : Called(p, n)' <=> Called(p, n),
         \A p \in Paths : Kind[p] = "file" => SizeSeen(p)' = SizeSeen(p)
  PROVE  Tree' = Tree /\ FileSize' = FileSize
BY TreeKept, SizesKept

\* A step that changes the size of p alone.
LEMMA SizesSet ==
  ASSUME Both, NEW p \in Paths, NEW n, SizeSeen(p)' = n,
         \A q \in Paths \ {p} : SizeSeen(q)' = SizeSeen(q)
  PROVE  FileSize' = [FileSize EXCEPT ![p] = n]
<1>1. FileSize' = [q \in Paths |-> SizeSeen(q)'] /\ FileSize = [q \in Paths |-> SizeSeen(q)]
  BY DEF Both, Seen
<1>2. PICK f, g : f = FileSize /\ g = FileSize'
  OBVIOUS
<1>3. f = [q \in Paths |-> SizeSeen(q)] /\ g = [q \in Paths |-> SizeSeen(q)']
  BY <1>1, <1>2
<1>4. g = [f EXCEPT ![p] = n]
  BY <1>3
<1> QED
  BY <1>2, <1>4

\* What a caller sees of its call c.
PendingOf(c) ==
  [op |-> c.op, path |-> c.path, ret |-> c.ret,
   done |-> \/ c.op = "create" /\ c.found = "samedir"
            \/ c.op \in {"create", "write"} /\ c.pc \in {"lock_save", "save"}]

\* A process that moves changes only what is pending of its own call,
LEMMA PendingMoved ==
  ASSUME NEW i \in Procs, NEW c, proc' = [proc EXCEPT ![i] = c], proc \in [Procs -> Call]
  PROVE  Pending[i] = PendingOf(proc[i]) /\ Pending' = [Pending EXCEPT ![i] = PendingOf(c)]
<1>1. Pending = [j \in Procs |-> PendingOf(proc[j])]
  BY DEF Pending, PendingOf
<1>2. Pending' = [j \in Procs |-> PendingOf(proc'[j])]
  BY DEF Pending, PendingOf
<1>3. proc'[i] = c /\ \A j \in Procs \ {i} : proc'[j] = proc[j]
  OBVIOUS
<1> QED
  BY <1>1, <1>2, <1>3

\* and nothing of it when the call has not answered or taken effect.
LEMMA PendingKept ==
  ASSUME NEW i \in Procs, NEW c, proc' = [proc EXCEPT ![i] = c], proc \in [Procs -> Call],
         PendingOf(c) = PendingOf(proc[i])
  PROVE  Pending' = Pending
<1>1. Pending = [j \in Procs |-> PendingOf(proc[j])]
  BY DEF Pending, PendingOf
<1>2. Pending[i] = PendingOf(proc[i]) /\ Pending' = [Pending EXCEPT ![i] = PendingOf(c)]
  BY PendingMoved
<1>3. PICK f : f = Pending
  OBVIOUS
<1>4. f[i] = PendingOf(c) /\ f = [j \in Procs |-> f[j]]
  BY <1>1, <1>2, <1>3
<1> QED
  BY <1>2, <1>3, <1>4

Calm == UNCHANGED <<Tree, FileSize, Pending>>


\* What a step of a call that adds or removes no record does to the names.
Grower(c) == c.op = "create" /\ c.pc \in {"lock_save", "save"}
Similar(c, e) == \/ ~Grower(c) /\ ~Grower(e)
                 \/ Grower(c) /\ Grower(e) /\ c.path = e.path /\ c.new = e.new

\* A call that moves between steps that are alike gives no name.
LEMMA SimilarCalled ==
  ASSUME Keeps, NEW i \in Procs, NEW c, proc' = [proc EXCEPT ![i] = c],
         proc \in [Procs -> Call], Similar(proc[i], c)
  PROVE  \A p, n : Called(p, n)' <=> Called(p, n)
<1>1. proc'[i] = c /\ \A j \in Procs \ {i} : proc'[j] = proc[j]
  OBVIOUS
<1>2. \A p, n : (Growing(i, p) /\ proc[i].new.ino = n)' <=> Growing(i, p) /\ proc[i].new.ino = n
  BY <1>1 DEF Growing, Similar, Grower
<1> QED
  BY <1>1, <1>2, CalledKept

\* What numbers fetch stays when the store does.
LEMMA FetchedStore ==
  ASSUME UNCHANGED store, sb'.count = sb.count
  PROVE  \A n : Fetched(n)' = Fetched(n)
BY FetchedSame

\* A step between steps that are alike is a stutter of the name space.
LEMMA SimilarCalm ==
  ASSUME Both, Keeps, NEW i \in Procs, NEW c, proc' = [proc EXCEPT ![i] = c],
         proc \in [Procs -> Call], Similar(proc[i], c), PendingOf(c) = PendingOf(proc[i]),
         core' = core, \A n : n # 0 => Fetched(n)' = Fetched(n)
  PROVE  Calm
<1>1. \A p, n : Called(p, n)' <=> Called(p, n)
  BY SimilarCalled
<1>2. \A p, n : Called(p, n) => Fetched(n)' = Fetched(n)
  BY DEF Both, Seen
<1>3. \A p : SizeSeen(p)' = SizeSeen(p)
  BY <1>1, <1>2, CalmSize
<1>4. Tree' = Tree /\ FileSize' = FileSize
  BY <1>1, <1>3, ViewKept
<1>5. Pending' = Pending
  BY PendingKept
<1> QED
  BY <1>4, <1>5 DEF Calm

\* A return whose code tells whether the call has had its effect is an answer.
LEMMA Answered ==
  ASSUME NEW i \in Procs, NEW code, Return(i, code), proc \in [Procs -> Call],
         Tree' = Tree, FileSize' = FileSize,
         \/ /\ code = "ok" /\ proc[i].op \in {"create", "write"}
            /\ (proc[i].found = "samedir" /\ proc[i].op = "create") \/ proc[i].pc = "save"
         \/ /\ code = "ENOSPC" /\ proc[i].op = "create"
            /\ proc[i].found # "samedir" /\ proc[i].pc \notin {"lock_save", "save"}
  PROVE  Names!Answer(i)
<1>1. PICK c : c = [Idle EXCEPT !.ret = code]
  OBVIOUS
<1>2. proc' = [proc EXCEPT ![i] = c]
  BY <1>1 DEF Return
<1>3. Pending[i] = PendingOf(proc[i]) /\ Pending' = [Pending EXCEPT ![i] = PendingOf(c)]
  BY <1>2, PendingMoved
<1>4. PendingOf(c) = Names!None(code)
  BY <1>1 DEF PendingOf, Names!None, Idle
<1>5. /\ Pending[i].op = proc[i].op
      /\ Pending[i].done <=> \/ proc[i].op = "create" /\ proc[i].found = "samedir"
                             \/ proc[i].op \in {"create", "write"} /\ proc[i].pc \in {"lock_save", "save"}
  BY <1>3 DEF PendingOf
<1>6. Pending' = [Pending EXCEPT ![i] = Names!None(code)]
  BY <1>3, <1>4
<1> QED
  BY <1>5, <1>6 DEF Names!Answer

\* A create without room fails before its name appears.
LEMMA NoSpace ==
  ASSUME Both, Keeps, NEW i \in Procs, Return(i, "ENOSPC"), proc[i].op = "create",
         proc[i].found # "samedir", proc[i].pc \notin {"lock_save", "save"},
         UNCHANGED <<store, core>>, sb'.count = sb.count
  PROVE  Names!Answer(i)
<1>0. proc \in [Procs -> Call]
  BY CallGround DEF Both, TreeInv, NamesGround
<1>1. PICK c : c = [Idle EXCEPT !.ret = "ENOSPC"]
  OBVIOUS
<1>2. proc' = [proc EXCEPT ![i] = c]
  BY <1>1 DEF Return
<1>3. Similar(proc[i], c)
  BY <1>1 DEF Similar, Grower, Idle
<1>4. \A p, n : Called(p, n)' <=> Called(p, n)
  BY <1>0, <1>2, <1>3, SimilarCalled
<1>5. \A p : SizeSeen(p)' = SizeSeen(p)
  BY <1>4, CalmSize, FetchedStore
<1>6. Tree' = Tree /\ FileSize' = FileSize
  BY <1>4, <1>5, ViewKept
<1> QED
  BY <1>0, <1>6, Answered

\* Waiting for a mutex and taking it is a stutter.
LEMMA AcquireCalm ==
  ASSUME Both, NEW i \in Procs, Acquire(i)
  PROVE  Calm
<1>0. Ground
  BY DEF Both, TreeInv, NamesGround
<1>1. PICK l : l = Then[proc[i].pc]
  OBVIOUS
<1>2. PICK c : c = [proc[i] EXCEPT !.pc = l]
  OBVIOUS
<1>3. /\ UNCHANGED <<sb, store, dir, core>> /\ proc' = [proc EXCEPT ![i] = c]
      /\ proc \in [Procs -> Call] /\ proc[i].pc \in DOMAIN LockOf
  BY <1>0, <1>1, <1>2, CallGround DEF Acquire
<1>4. c.pc \in {"lock_save", "save"} <=> proc[i].pc \in {"lock_save", "save"}
  BY <1>1, <1>2, <1>3 DEF Call, LockOf, Then
<1>5. /\ c.op = proc[i].op /\ c.path = proc[i].path /\ c.new = proc[i].new
      /\ c.found = proc[i].found /\ c.ret = proc[i].ret
  BY <1>2, <1>3 DEF Call
<1>6. Similar(proc[i], c) /\ PendingOf(c) = PendingOf(proc[i])
  BY <1>4, <1>5 DEF Similar, Grower, PendingOf
<1> QED
  BY <1>3, <1>6, SimilarCalm, CalmEntries, FetchedStore

\* The count is read: a stutter, or -ENOSPC.
LEMMA CountRefines ==
  ASSUME Both, NEW i \in Procs, Count(i)
  PROVE  Calm \/ Names!Answer(i)
<1>0. Ground
  BY DEF Both, TreeInv, NamesGround
<1>1. /\ UNCHANGED <<sb, store, dir, core>> /\ proc[i].pc = "count"
      /\ proc \in [Procs -> Call] /\ proc[i].op = "create" /\ proc[i].found = "none"
  BY <1>0, CallGround DEF Count, CallOK, Creating
<1>2. Keeps
  BY <1>1, CalmEntries
<1>3. Return(i, "ENOSPC") => Names!Answer(i)
  BY <1>1, <1>2, NoSpace
<1>4. ASSUME NEW new, proc' = [proc EXCEPT ![i].pc = "search", ![i].new = new]
      PROVE  Calm
  <2>1. PICK c : c = [proc[i] EXCEPT !.pc = "search", !.new = new]
    OBVIOUS
  <2>2. proc' = [proc EXCEPT ![i] = c]
    BY <1>1, <1>4, <2>1
  <2>3. /\ c.op = proc[i].op /\ c.path = proc[i].path /\ c.pc = "search"
        /\ c.found = proc[i].found /\ c.ret = proc[i].ret
    BY <1>1, <2>1 DEF Call
  <2>4. Similar(proc[i], c) /\ PendingOf(c) = PendingOf(proc[i])
    BY <1>1, <2>3 DEF Similar, Grower, PendingOf
  <2> QED
    BY <1>1, <1>2, <2>2, <2>4, SimilarCalm, FetchedStore
<1> QED
  BY <1>3, <1>4 DEF Count

\* A step of a create that keeps its place with respect to its effect.
LEMMA MoverCalm ==
  ASSUME Both, Keeps, NEW i \in Procs, NEW c, proc' = [proc EXCEPT ![i] = c],
         proc[i].op = "create", c.op = "create", c.path = proc[i].path, c.ret = proc[i].ret,
         c.found = "samedir" <=> proc[i].found = "samedir",
         proc[i].pc \notin {"lock_save", "save"}, c.pc \notin {"lock_save", "save"},
         core' = core, \A n : n # 0 => Fetched(n)' = Fetched(n)
  PROVE  Calm
<1>1. proc \in [Procs -> Call]
  BY CallGround DEF Both, TreeInv, NamesGround
<1>2. Similar(proc[i], c) /\ PendingOf(c) = PendingOf(proc[i])
  BY DEF Similar, Grower, PendingOf
<1> QED
  BY <1>1, <1>2, SimilarCalm

\* A block is taken: a stutter, or -ENOSPC.
LEMMA TakeBlockRefines ==
  ASSUME Both, NEW i \in Procs, TakeBlock(i)
  PROVE  Calm \/ Names!Answer(i)
<1>0. Ground
  BY DEF Both, TreeInv, NamesGround
<1>1. /\ UNCHANGED <<store, dir, core>> /\ proc[i].pc = "take_block"
      /\ proc \in [Procs -> Call] /\ proc[i].op = "create" /\ proc[i].found = "none"
  BY <1>0, CallGround DEF TakeBlock, CallOK, Creating
<1>2. sb'.count = sb.count
  BY <1>0 DEF TakeBlock, Ground, FsInv, TypeOK
<1>3. Keeps
  BY <1>1, <1>2, CalmEntries
<1>4. Return(i, "ENOSPC") => Names!Answer(i)
  BY <1>1, <1>2, <1>3, NoSpace
<1>5. ASSUME NEW b, proc' = [proc EXCEPT ![i].pc = "lock_add", ![i].new = [@ EXCEPT !.block = b]]
      PROVE  Calm
  <2>1. PICK c : c = [proc[i] EXCEPT !.pc = "lock_add", !.new = [@ EXCEPT !.block = b]]
    OBVIOUS
  <2>2. proc' = [proc EXCEPT ![i] = c]
    BY <1>1, <1>5, <2>1
  <2>3. /\ c.op = proc[i].op /\ c.path = proc[i].path /\ c.pc = "lock_add"
        /\ c.found = proc[i].found /\ c.ret = proc[i].ret
    BY <1>1, <2>1 DEF Call
  <2> QED
    BY <1>1, <1>2, <1>3, <2>2, <2>3, MoverCalm, FetchedStore
<1> QED
  BY <1>4, <1>5 DEF TakeBlock

\* A record that does not count yet is a stutter.
LEMMA RecordCalm ==
  ASSUME Both, NEW i \in Procs, Record(i)
  PROVE  Calm
<1>0. Ground /\ NamesInv
  BY DEF Both, TreeInv, NamesGround
<1>1. /\ Keeps /\ UNCHANGED <<sb, store, core>> /\ proc[i].pc = "record"
      /\ proc[i].op = "create" /\ Go(i, "lock_children")
  BY <1>0, RecordEntries
<1>2. PICK c : c = [proc[i] EXCEPT !.pc = "lock_children"]
  OBVIOUS
<1>3. proc' = [proc EXCEPT ![i] = c] /\ proc[i] \in Call
  BY <1>0, <1>1, <1>2, CallGround
<1>4. /\ c.op = proc[i].op /\ c.path = proc[i].path /\ c.pc = "lock_children"
      /\ c.found = proc[i].found /\ c.ret = proc[i].ret
  BY <1>2, <1>3 DEF Call
<1>5. /\ UNCHANGED <<store, core>> /\ sb'.count = sb.count
      /\ c.found = "samedir" <=> proc[i].found = "samedir"
      /\ Keeps /\ proc[i].op = "create" /\ c.op = "create"
      /\ proc[i].pc \notin {"lock_save", "save"} /\ c.pc \notin {"lock_save", "save"}
  BY <1>1, <1>4
<1> QED
  BY <1>3, <1>4, <1>5, MoverCalm, FetchedStore

\* The slot of an inode that is dead or to come has nothing under its number.
LEMMA NothingFetched ==
  ASSUME Ground, NEW m \in Slots, m < sb.count => store[m].ino = 0
  PROVE  GetInode(store, SlotNo(m)) = NoInode
<1>1. PICK n : n = SlotNo(m) /\ n # 0
  BY SlotNoFacts
<1>2. ASSUME NEW k \in Slots, k < sb.count, store[k].ino = n PROVE FALSE
  <2>1. SlotNo(k) = SlotNo(m)
    BY <1>1, <1>2 DEF Ground, StoreOK
  <2>2. k = m
    BY <2>1, SlotNoFacts
  <2> QED
    BY <1>1, <1>2, <2>2
<1>3. SlotsOf(store, n) = {}
  BY <1>2 DEF SlotsOf
<1> QED
  BY <1>1, <1>3 DEF GetInode

\* An inode without a name is a stutter.
LEMMA AddCalm ==
  ASSUME Both, NobodyCreatesBeside, NEW i \in Procs, Add(i)
  PROVE  Calm
<1>0. Ground /\ NamesInv
  BY DEF Both, TreeInv, NamesGround
<1>1. /\ Keeps /\ core' = core /\ proc[i].pc = "add"
      /\ proc[i].op = "create" /\ Go(i, "record")
  BY <1>0, AddEntries
<1>2. PICK m \in Slots :
           /\ m < sb.count => store[m].ino = 0
           /\ store'[m].size = 0
           /\ \A l \in Slots \ {m} : store'[l] = store[l] /\ (l < sb'.count <=> l < sb.count)
           /\ store'[m].ino = SlotNo(m) /\ m < sb'.count
  BY <1>0, AddEntries
<1>3. ASSUME NEW n, n # 0 PROVE Fetched(n)' = Fetched(n)
  <2>1. CASE n = SlotNo(m)
    <3>1. Fetched(n) = 0
      BY <1>0, <1>2, <2>1, NothingFetched DEF Fetched, NoInode
    <3>2. GetInode(store, n)' = store'[m]
      BY <1>2, <1>3, <2>1 DEF Both, Seen
    <3> QED
      BY <1>2, <3>1, <3>2 DEF Fetched
  <2>2. CASE n # SlotNo(m)
    <3>1. \A k \in Slots : k < sb'.count /\ store'[k].ino = n <=> k < sb.count /\ store[k].ino = n
      BY <1>2, <1>3, <2>2
    <3>2. \A k \in Slots : k < sb.count /\ store[k].ino = n => store'[k].size = store[k].size
      BY <1>2, <1>3, <2>2
    <3> QED
      BY <3>1, <3>2, FetchedSame
  <2> QED
    BY <2>1, <2>2
<1>4. PICK c : c = [proc[i] EXCEPT !.pc = "record"]
  OBVIOUS
<1>5. proc' = [proc EXCEPT ![i] = c] /\ proc[i] \in Call
  BY <1>0, <1>1, <1>4, CallGround
<1>6. /\ c.path = proc[i].path /\ c.pc = "record" /\ c.op = "create"
      /\ c.found = proc[i].found /\ c.ret = proc[i].ret
  BY <1>1, <1>4, <1>5 DEF Call
<1>7. /\ Keeps /\ core' = core /\ proc[i].op = "create"
      /\ c.found = "samedir" <=> proc[i].found = "samedir"
      /\ proc[i].pc \notin {"lock_save", "save"} /\ c.pc \notin {"lock_save", "save"}
  BY <1>1, <1>6
<1> QED
  BY <1>3, <1>5, <1>6, <1>7, MoverCalm

\* The call c with its effect done is e.
Put(x, b) == [x EXCEPT !.done = b]
\* A call that keeps its operation, path and code differs only in done.
LEMMA PendingDone ==
  ASSUME NEW c, NEW e, c.op = e.op, c.path = e.path, c.ret = e.ret,
         NEW b, b = PendingOf(e).done
  PROVE  Put(PendingOf(c), b) = PendingOf(e)
<1>1. PICK x : x = PendingOf(c)
  OBVIOUS
<1>2. /\ DOMAIN x = {"op", "path", "ret", "done"}
      /\ x.op = c.op /\ x.path = c.path /\ x.ret = c.ret
  BY <1>1 DEF PendingOf
<1>3. Put(x, b) = [op |-> c.op, path |-> c.path, ret |-> c.ret, done |-> b]
  BY <1>2 DEF Put
<1>4. PendingOf(e) = [op |-> c.op, path |-> c.path, ret |-> c.ret, done |-> b]
  BY DEF PendingOf
<1> QED
  BY <1>1, <1>3, <1>4

\* A call that takes effect is marked done.
LEMMA PendingMarked ==
  ASSUME NEW i \in Procs, NEW c, proc' = [proc EXCEPT ![i] = c], proc \in [Procs -> Call],
         c.op = proc[i].op, c.path = proc[i].path, c.ret = proc[i].ret,
         PendingOf(c).done
  PROVE  Pending' = [Pending EXCEPT ![i].done = TRUE]
<1>1. Pending[i] = PendingOf(proc[i]) /\ Pending' = [Pending EXCEPT ![i] = PendingOf(c)]
  BY PendingMoved
<1>2. PICK f, x, y, e : f = Pending /\ x = f[i] /\ y = PendingOf(c) /\ e = proc[i]
  OBVIOUS
<1>3. PICK b : b = y.done
  OBVIOUS
<1>4. b = TRUE
  BY <1>2, <1>3 DEF PendingOf
<1>5. Put(x, b) = y
  <2>1. /\ x = PendingOf(e) /\ e.op = c.op /\ e.path = c.path /\ e.ret = c.ret
        /\ b = PendingOf(c).done
    BY <1>1, <1>2, <1>3
  <2>2. Put(PendingOf(e), b) = PendingOf(c)
    BY ONLY <2>1, PendingDone
  <2> QED
    BY <1>2, <2>1, <2>2
<1>6. Pending' = [f EXCEPT ![i] = Put(x, b)]
  BY <1>1, <1>2, <1>5
<1> QED
  BY <1>2, <1>4, <1>6 DEF Put

\* A name appears: it was none, nothing else changes, and its file is empty.
LEMMA Appears ==
  ASSUME Both, NEW i \in Procs, NEW c, proc' = [proc EXCEPT ![i] = c],
         proc \in [Procs -> Call], NEW p \in Paths \ {Root}, p = proc[i].path,
         proc[i].op = "create", c.op = "create", c.path = p, c.ret = proc[i].ret,
         proc[i].found # "samedir", proc[i].pc \notin {"lock_save", "save"},
         c.found = "samedir" \/ c.pc \in {"lock_save", "save"},
         NEW n, \A q, m : Called(q, m)' <=> Called(q, m) \/ (q = p /\ m = n),
         \A m : ~Called(p, m), core[Parent[p]] # NoInode,
         \A q \in Paths : Kind[q] = "file" => SizeSeen(q)' = SizeSeen(q)
  PROVE  Names!Appear(i)
<1>1. \A q : q \in Tree' <=> q \in Tree \/ q = p
  BY DEF Both, Seen
<1>2. Tree' = Tree \cup {p}
  <2>1. PICK s, u : s = Tree /\ u = Tree'
    OBVIOUS
  <2>2. \A q : q \in u <=> q \in s \/ q = p
    BY <1>1, <2>1
  <2>3. u = s \cup {p}
    BY <2>2
  <2> QED
    BY <2>1, <2>3
<1>3. p \notin Tree
  BY DEF Both, Seen
<1>4. Parent[p] \in Tree
  <2>1. PICK d \in Paths : d = Parent[p]
    OBVIOUS
  <2>2. CASE d = Root
    BY <2>1, <2>2 DEF Both, Seen
  <2>3. CASE d # Root
    <3>1. \E m : Called(d, m)
      BY <2>1, <2>3, CoreCalled DEF Both
    <3> QED
      BY <2>1, <3>1 DEF Both, Seen
  <2> QED
    BY <2>2, <2>3
<1>5. FileSize' = FileSize
  BY SizesKept
<1>6. Pending[i] = PendingOf(proc[i]) /\ Pending' = [Pending EXCEPT ![i] = PendingOf(c)]
  BY PendingMoved
<1>7. PendingOf(c).done
  BY DEF PendingOf
<1>8. Pending' = [Pending EXCEPT ![i].done = TRUE]
  BY <1>7, PendingMarked
<1>9. Pending[i].op = "create" /\ ~Pending[i].done /\ Pending[i].path = p
  BY <1>6 DEF PendingOf
<1> QED
  BY <1>2, <1>3, <1>4, <1>5, <1>8, <1>9 DEF Names!Appear

GrowsNot(i, c) == /\ proc' = [proc EXCEPT ![i] = c] /\ proc \in [Procs -> Call]
                  /\ ~Grower(proc[i]) /\ ~Grower(c)
\* A record gained is a name gained, when no create starts or stops growing.
LEMMA GainCalled ==
  ASSUME NEW k \in Slots, NEW p, NEW n, Gains(k, p, n),
         NEW i \in Procs, NEW c, GrowsNot(i, c)
  PROVE  \A q, m : Called(q, m)' <=> Called(q, m) \/ (q = p /\ m = n)
<1>1. /\ proc'[i] = c /\ \A j \in Procs \ {i} : proc'[j] = proc[j]
      /\ ~Grower(proc[i]) /\ ~Grower(c)
  BY DEF GrowsNot
<1> SUFFICES ASSUME NEW q, NEW m
             PROVE  Called(q, m)' <=> Called(q, m) \/ (q = p /\ m = n)
  OBVIOUS
<1>2. (\E l \in Slots : HasEntry(l, q, m)')
        <=> (\E l \in Slots : HasEntry(l, q, m)) \/ (q = p /\ m = n)
  BY DEF Gains
<1>3. \A j \in Procs : (Growing(j, q) /\ proc[j].new.ino = m)'
        <=> Growing(j, q) /\ proc[j].new.ino = m
  BY <1>1 DEF Growing, Grower
<1>4. Called(q, m)' <=> \/ \E l \in Slots : HasEntry(l, q, m)'
                       \/ \E j \in Procs : (Growing(j, q) /\ proc[j].new.ino = m)'
  BY DEF Called
<1> QED
  BY <1>2, <1>3, <1>4 DEF Called

\* A create's own name before its effect, and the new inode's after it.
LEMMA NewbornSize ==
  ASSUME Both, NEW p, core[p] = NoInode, core'[p] = NoInode, \A n : ~Called(p, n),
         NEW n, Called(p, n)', GetInode(store, n)'.size = 0
  PROVE  SizeSeen(p)' = SizeSeen(p)
<1>1. Shows(p) = NoInode
  BY DEF Shows
<1>2. Shows(p)' = GetInode(store, n)'
  BY DEF Both, Seen
<1>3. SizeSeen(p) = 0 /\ SizeSeen(p)' = 0
  BY <1>1, <1>2 DEF SizeSeen, NoInode
<1> QED
  BY <1>3

\* The search for a hole: a stutter, or the name appears in a hole.
LEMMA SearchRefines ==
  ASSUME Both, NobodyCreatesBeside, NEW i \in Procs, Search(i)
  PROVE  Calm \/ Names!Appear(i)
<1>0. Ground /\ NamesInv /\ TreeInv
  BY DEF Both, TreeInv, NamesGround
<1>1. PICK p \in Paths \ {Root} : p = proc[i].path /\ core[Parent[p]].mode = "dir"
                                 /\ core[p] = NoInode
  BY <1>0, SearchEntries, ParentIsDir, CallGround DEF CallOK
<1>2. PICK k : k = SlotOf(Parent[p])
  OBVIOUS
<1>3. /\ UNCHANGED <<sb, store, core>> /\ proc[i].pc = "search"
      /\ proc[i].op = "create" /\ proc[i].found = "none"
  BY <1>0, SearchEntries
<1>4. PICK c \in Call :
           /\ proc' = [proc EXCEPT ![i] = c]
           /\ c.op = "create" /\ c.path = p /\ c.pc \in {"lock_free", "lock_add"}
           /\ c.ret = proc[i].ret
           /\ \/ Keeps /\ c.found # "samedir"
              \/ /\ c.found = "samedir"
                 /\ \E m \in Slots : m < sb.count /\ store[m].ino = 0 /\ Gains(k, p, SlotNo(m))
  BY <1>0, <1>1, <1>2, SearchEntries
<1>5. proc \in [Procs -> Call]
  BY <1>0, CallGround
<1>6. ASSUME Keeps, c.found # "samedir" PROVE Calm
  <2>1. /\ c.found = "samedir" <=> proc[i].found = "samedir"
        /\ c.pc \notin {"lock_save", "save"} /\ proc[i].pc \notin {"lock_save", "save"}
        /\ core' = core /\ c.path = proc[i].path
    BY <1>1, <1>3, <1>4, <1>6
  <2> QED
    BY <1>3, <1>4, <1>6, <2>1, MoverCalm, FetchedStore
<1>7. ASSUME c.found = "samedir",
             NEW m \in Slots, m < sb.count, store[m].ino = 0, Gains(k, p, SlotNo(m))
      PROVE  Names!Appear(i)
  <2>1. k \in Slots /\ core[Parent[p]] # NoInode
    BY <1>0, <1>1, <1>2, DirInCore DEF NoInode, NamesGround
  <2>2. PICK n : n = SlotNo(m)
    OBVIOUS
  <2>3. \A q, x : Called(q, x)' <=> Called(q, x) \/ (q = p /\ x = n)
    <3>1. GrowsNot(i, c)
      BY <1>3, <1>4, <1>5 DEF GrowsNot, Grower
    <3>2. Gains(k, p, n) /\ k \in Slots
      BY <1>7, <2>1, <2>2
    <3> QED
      BY <3>1, <3>2, GainCalled
  <2>4. \A x : ~Called(p, x)
    BY <1>0, <1>1, <1>3, CreateUnnamed
  <2>5. \A q \in Paths : SizeSeen(q)' = SizeSeen(q)
    <3>1. SizeSeen(p)' = SizeSeen(p)
      <4>1. GetInode(store, n)' = NoInode
        BY <1>0, <1>3, <1>7, <2>2, NothingFetched DEF GetInode, SlotsOf
      <4>2. GetInode(store, n)'.size = 0 /\ Called(p, n)' /\ core'[p] = NoInode
        BY <1>1, <1>3, <2>3, <4>1 DEF NoInode
      <4> QED
        BY <1>1, <2>4, <4>2, NewbornSize
    <3>2. ASSUME NEW q \in Paths \ {p} PROVE SizeSeen(q)' = SizeSeen(q)
      <4>1. \A x : Called(q, x)' <=> Called(q, x)
        BY <2>3
      <4>2. \A x : Called(q, x) => Fetched(x)' = Fetched(x)
        BY <1>3, FetchedStore
      <4>3. core'[q] = core[q]
        BY <1>3
      <4> QED
        BY <4>1, <4>2, <4>3, CalmSize
    <3> QED
      BY <3>1, <3>2
  <2>6. /\ proc[i].found # "samedir" /\ proc[i].pc \notin {"lock_save", "save"}
        /\ c.ret = proc[i].ret /\ c.path = p /\ c.op = "create"
        /\ proc' = [proc EXCEPT ![i] = c] /\ p = proc[i].path
        /\ c.found = "samedir" \/ c.pc \in {"lock_save", "save"}
    BY <1>1, <1>3, <1>4, <1>7
  <2> QED
    BY <1>3, <1>5, <2>1, <2>3, <2>4, <2>5, <2>6, Appears
<1> QED
  BY <1>4, <1>6, <1>7

\* A create that reused a hole answers; any other one makes its name appear.
LEMMA ChildrenRefines ==
  ASSUME Both, NobodyCreatesBeside, NEW i \in Procs, Children(i)
  PROVE  Names!Appear(i) \/ Names!Answer(i)
<1>0. Ground /\ NamesInv /\ TreeInv
  BY DEF Both, TreeInv, NamesGround
<1>1. /\ proc[i].pc = "children" /\ proc[i].op = "create" /\ proc \in [Procs -> Call]
      /\ UNCHANGED <<sb, store, dir>> /\ proc[i].new.size = 0
  BY <1>0, CallGround DEF Children, CallOK, Creating
<1>2. PICK p \in Paths \ {Root} : p = proc[i].path /\ core[Parent[p]].mode = "dir"
                                 /\ core[p] = NoInode
  BY <1>0, <1>1, ParentIsDir, CallGround DEF CallOK
<1>3. PICK d \in Paths : d = Parent[p] /\ core[d] # NoInode /\ d # p /\ Kind[d] = "dir"
  <2>1. PICK d \in Paths : d = Parent[p] /\ core[d].mode = "dir"
    BY <1>2
  <2>2. core[d] # NoInode /\ d # p
    BY <1>2, <2>1 DEF NoInode
  <2>3. Kind[d] = "dir"
    BY <1>0, <2>1, <2>2 DEF NamesInv, CoresOK, CoreOK
  <2> QED
    BY <2>1, <2>2, <2>3
<1>4. Keeps
  BY <1>1, CalmEntries
<1>5. PICK new, n : new = proc[i].new /\ n = new.ino
  OBVIOUS
<1>6. PICK m \in Slots : m < sb.count /\ store[m] = new /\ n = SlotNo(m)
  BY <1>0, <1>1, <1>5 DEF NamesInv, CreateOK, Added
<1>7. GetInode(store, n).size = 0
  <2>1. store[m].ino # 0 /\ store[m].ino = n /\ new.size = 0
    BY <1>1, <1>5, <1>6, SlotNoFacts
  <2> QED
    BY <1>0, <1>6, <2>1, InodeFound
<1>8. CASE proc[i].found = "samedir"
  <2>1. Return(i, "ok") /\ core' = [core EXCEPT ![p] = new]
    BY <1>1, <1>2, <1>5, <1>8 DEF Children, Saved
  <2>2. PICK c : c = [Idle EXCEPT !.ret = "ok"]
    OBVIOUS
  <2>3. proc' = [proc EXCEPT ![i] = c]
    BY <2>1, <2>2 DEF Return
  <2>4. Similar(proc[i], c)
    BY <1>1, <2>2 DEF Similar, Grower, Idle
  <2>5. \A q, x : Called(q, x)' <=> Called(q, x)
    BY <1>1, <1>4, <2>3, <2>4, SimilarCalled
  <2>6. ASSUME NEW q \in Paths PROVE SizeSeen(q)' = SizeSeen(q)
    <3>1. CASE q # p
      <4>1. core'[q] = core[q] /\ \A x : Called(q, x)' <=> Called(q, x)
        BY <2>1, <2>5, <3>1
      <4>2. \A x : Called(q, x) => Fetched(x)' = Fetched(x)
        BY <1>1, FetchedStore
      <4> QED
        BY <4>1, <4>2, CalmSize
    <3>2. CASE q = p
      <4>1. HasEntry(SlotOf(d), p, n) /\ SlotOf(d) \in Slots
        BY <1>0, <1>1, <1>2, <1>3, <1>5, <1>8, DirSeen DEF NamesInv, CreateOK
      <4>2. Called(p, n)
        BY <4>1 DEF Called
      <4>3. Shows(p).size = 0
        BY <1>2, <1>7, <4>2 DEF Both, Seen
      <4>4. core \in [Paths -> Inode] /\ new.size = 0 /\ new # NoInode
        <5>1. core \in [Paths -> Inode] /\ new.size = 0
          BY <1>0, <1>1, <1>5 DEF Ground, FsInv, TypeOK
        <5>2. new.ino # 0
          BY <1>5, <1>6, SlotNoFacts
        <5> QED
          BY <5>1, <5>2 DEF NoInode
      <4>5. Shows(p)'.size = 0
        BY <2>1, <4>4 DEF Shows
      <4> QED
        BY <3>2, <4>3, <4>5 DEF SizeSeen
    <3> QED
      BY <3>1, <3>2
  <2>7. Tree' = Tree /\ FileSize' = FileSize
    BY <2>5, <2>6, ViewKept
  <2> QED
    BY <1>1, <1>8, <2>1, <2>7, Answered
<1>9. CASE proc[i].found # "samedir"
  <2>1. core' = [core EXCEPT ![d].size = @ + 1] /\ Go(i, "lock_save")
    BY <1>2, <1>3, <1>9 DEF Children
  <2>2. PICK c : c = [proc[i] EXCEPT !.pc = "lock_save"]
    OBVIOUS
  <2>3. proc' = [proc EXCEPT ![i] = c] /\ proc[i] \in Call
    BY <1>1, <2>1, <2>2
  <2>4. /\ c.op = "create" /\ c.path = p /\ c.pc = "lock_save" /\ c.new = new
        /\ c.found = proc[i].found /\ c.ret = proc[i].ret
    BY <1>1, <1>2, <1>5, <2>2, <2>3 DEF Call
  <2>5. \A q, x : Called(q, x)' <=> Called(q, x) \/ (q = p /\ x = n)
    <3>1. proc'[i] = c /\ \A j \in Procs \ {i} : proc'[j] = proc[j]
      BY <1>1, <2>3
    <3> SUFFICES ASSUME NEW q, NEW x
                 PROVE  Called(q, x)' <=> Called(q, x) \/ (q = p /\ x = n)
      OBVIOUS
    <3>2. (\E l \in Slots : HasEntry(l, q, x)') <=> \E l \in Slots : HasEntry(l, q, x)
      BY <1>4 DEF Keeps
    <3>3. \A j \in Procs \ {i} : (Growing(j, q) /\ proc[j].new.ino = x)'
            <=> Growing(j, q) /\ proc[j].new.ino = x
      BY <3>1 DEF Growing
    <3>4. /\ ~Growing(i, q)
          /\ (Growing(i, q) /\ proc[i].new.ino = x)' <=> q = p /\ x = n
      BY <1>1, <1>5, <2>4, <3>1 DEF Growing
    <3>5. Called(q, x)' <=> \/ \E l \in Slots : HasEntry(l, q, x)'
                           \/ \E j \in Procs : (Growing(j, q) /\ proc[j].new.ino = x)'
      BY DEF Called
    <3> QED
      BY <3>2, <3>3, <3>4, <3>5 DEF Called
  <2>6. \A x : ~Called(p, x)
    BY <1>0, <1>1, <1>2, <1>9, CreateUnnamed
  <2>7. ASSUME NEW q \in Paths, Kind[q] = "file" PROVE SizeSeen(q)' = SizeSeen(q)
    <3>1. core'[q] = core[q]
      BY <1>3, <2>1, <2>7
    <3>2. CASE q = p
      <4>1. GetInode(store, n)'.size = 0 /\ Called(p, n)' /\ core'[p] = NoInode
        BY <1>1, <1>2, <1>7, <2>5, <3>1, <3>2 DEF GetInode, SlotsOf
      <4> QED
        BY <1>2, <2>6, <3>2, <4>1, NewbornSize
    <3>3. CASE q # p
      <4>1. \A x : Called(q, x)' <=> Called(q, x)
        BY <2>5, <3>3
      <4>2. \A x : Called(q, x) => Fetched(x)' = Fetched(x)
        BY <1>1, FetchedStore
      <4> QED
        BY <3>1, <4>1, <4>2, CalmSize
    <3> QED
      BY <3>2, <3>3
  <2>8. /\ proc[i].found # "samedir" /\ proc[i].pc \notin {"lock_save", "save"}
        /\ c.ret = proc[i].ret /\ c.path = p /\ c.op = "create" /\ p = proc[i].path
        /\ c.found = "samedir" \/ c.pc \in {"lock_save", "save"}
        /\ core[Parent[p]] # NoInode
    BY <1>1, <1>2, <1>3, <1>9, <2>4
  <2> QED
    BY <1>1, <2>3, <2>5, <2>6, <2>7, <2>8, Appears
<1> QED
  BY <1>8, <1>9

\* write and unlink save a file: no name and no size changes.
LEMMA FileSavedView ==
  ASSUME Both, NEW i \in Procs, NEW c, NEW s, FileSaved(i, c, s), Keeps,
         s.ino = 0 \/ s = core[proc[i].path]
  PROVE  Tree' = Tree /\ FileSize' = FileSize
<1>0. Ground /\ NamesInv /\ TreeInv
  BY DEF Both, TreeInv, NamesGround
<1>1. PICK p, k : p = proc[i].path /\ k = SlotOf(p)
  OBVIOUS
<1>2. /\ p \in Paths /\ core[p].mode = "file" /\ core[p] # NoInode /\ CoreOK(p)
      /\ k \in Slots /\ k < sb.count
      /\ store'[k] = s /\ \A l \in Slots \ {k} : store'[l] = store[l]
  BY <1>0, <1>1, FileSlot
<1>3. /\ proc[i].op \in {"write", "unlink"} /\ c.op # "create" /\ UNCHANGED <<sb, core>>
      /\ proc' = [proc EXCEPT ![i] = c]
  BY DEF FileSaved
<1>4. proc \in [Procs -> Call] /\ Similar(proc[i], c)
  BY <1>0, <1>3, CallGround DEF Similar, Grower
<1>5. \A q, x : Called(q, x)' <=> Called(q, x)
  BY <1>3, <1>4, SimilarCalled
<1>6. p # Root /\ Number(core[p]) = SlotNo(k) /\ store[k].ino \in {0, SlotNo(k)}
  BY <1>0, <1>1, <1>2 DEF CoreOK, Ground, StoreOK
<1>7. Called(p, SlotNo(k))
  BY <1>0, <1>1, <1>2, <1>6, CoreCalled
<1>8. s.ino \in {0, SlotNo(k)}
  BY <1>1, <1>6 DEF Number
<1>9. ASSUME NEW q \in Paths PROVE SizeSeen(q)' = SizeSeen(q)
  <2>1. CASE q = p
    <3>1. core'[p] = core[p] /\ core[p] # NoInode
      BY <1>2, <1>3
    <3> QED
      BY <2>1, <3>1 DEF SizeSeen, Shows
  <2>2. CASE q # p
    <3>1. ASSUME NEW x, Called(q, x) PROVE Fetched(x)' = Fetched(x)
      <4>1. x # 0 /\ x # SlotNo(k)
        BY <1>7, <2>2, <3>1 DEF Both, Seen
      <4>2. \A l \in Slots : l < sb'.count /\ store'[l].ino = x <=> l < sb.count /\ store[l].ino = x
        BY <1>2, <1>3, <1>6, <1>8, <4>1
      <4>3. \A l \in Slots : l < sb.count /\ store[l].ino = x => store'[l].size = store[l].size
        BY <1>2, <1>6, <4>1
      <4> QED
        BY <4>2, <4>3, FetchedSame
    <3>2. core'[q] = core[q] /\ \A x : Called(q, x)' <=> Called(q, x)
      BY <1>3, <1>5
    <3> QED
      BY <3>1, <3>2, CalmSize
  <2> QED
    BY <2>1, <2>2
<1> QED
  BY <1>5, <1>9, ViewKept

\* create saves the directory: its own name is there already.
LEMMA DirSavedView ==
  ASSUME Both, NobodyCreatesBeside, NEW i \in Procs, Save(i), proc[i].op = "create"
  PROVE  Tree' = Tree /\ FileSize' = FileSize
<1>0. Ground /\ NamesInv /\ TreeInv
  BY DEF Both, TreeInv, NamesGround
<1>1. PICK p \in Paths \ {Root} : p = proc[i].path /\ core[p] = NoInode
  BY <1>0, ParentIsDir, CallGround DEF CallOK
<1>2. PICK d, k, r0, new, n, x :
           /\ d = Parent[p] /\ k = SlotOf(d) /\ r0 = store[k].size /\ new = proc[i].new
           /\ n = new.ino /\ x = [name |-> p, ino |-> n]
  OBVIOUS
<1>3. /\ proc[i].pc = "save" /\ Return(i, "ok") /\ UNCHANGED <<sb, dir>>
      /\ store' = [store EXCEPT ![k] = core[d]] /\ core' = [core EXCEPT ![p] = new]
  BY <1>0, <1>1, <1>2, SaveDoes
<1>4. DirSaved(i, d, k, r0, x)
  BY <1>1, <1>2, <1>3 DEF DirSaved
<1>5. /\ store'[k].ino = store[k].ino /\ \A l \in Slots \ {k} : store'[l] = store[l]
      /\ store[k].mode = "dir" /\ Gained(k, r0, x)
  BY <1>0, <1>4, GrowDoes
<1>6. k \in Slots /\ Gains(k, p, n)
  BY <1>2, <1>5, EntryGained DEF Gained
<1>7. PICK c : c = [Idle EXCEPT !.ret = "ok"]
  OBVIOUS
<1>8. proc' = [proc EXCEPT ![i] = c] /\ ~Grower(c) /\ proc \in [Procs -> Call]
  BY <1>0, <1>3, <1>7, CallGround DEF Return, Idle, Grower
<1>9. \A q, y : Called(q, y)' <=> Called(q, y)
  <2> SUFFICES ASSUME NEW q, NEW y PROVE Called(q, y)' <=> Called(q, y)
    OBVIOUS
  <2>1. (\E l \in Slots : HasEntry(l, q, y)')
          <=> (\E l \in Slots : HasEntry(l, q, y)) \/ (q = p /\ y = n)
    BY <1>6 DEF Gains
  <2>2. \A j \in Procs \ {i} : (Growing(j, q) /\ proc[j].new.ino = y)'
          <=> Growing(j, q) /\ proc[j].new.ino = y
    BY <1>8 DEF Growing
  <2>3. /\ ~(Growing(i, q) /\ proc[i].new.ino = y)'
        /\ Growing(i, q) /\ proc[i].new.ino = y <=> q = p /\ y = n
    BY <1>1, <1>2, <1>3, <1>8 DEF Growing, Grower
  <2>4. Called(q, y)' <=> \/ \E l \in Slots : HasEntry(l, q, y)'
                         \/ \E j \in Procs : (Growing(j, q) /\ proc[j].new.ino = y)'
    BY DEF Called
  <2> QED
    BY <2>1, <2>2, <2>3, <2>4 DEF Called
<1>10. ASSUME NEW q \in Paths, Kind[q] = "file" PROVE SizeSeen(q)' = SizeSeen(q)
  <2>1. CASE q = p
    <3>1. Called(p, n)
      BY <1>1, <1>2, <1>3 DEF Called, Growing
    <3>2. PICK m \in Slots : m < sb.count /\ store[m] = new /\ n = SlotNo(m)
      BY <1>0, <1>2, <1>3 DEF NamesInv, CreateOK, Added
    <3>3. new.ino # 0 /\ new.size = 0 /\ core \in [Paths -> Inode]
      BY <1>0, <1>2, <3>2, SlotNoFacts, CallGround DEF CallOK, Ground, FsInv, TypeOK
    <3>4. GetInode(store, n) = new
      BY <1>0, <1>2, <3>2, <3>3, InodeFound
    <3>5. Shows(p).size = 0
      BY <1>1, <3>1, <3>3, <3>4 DEF Both, Seen
    <3>6. Shows(p)'.size = 0
      BY <1>3, <3>3 DEF Shows, NoInode
    <3> QED
      BY <2>1, <3>5, <3>6 DEF SizeSeen
  <2>2. CASE q # p
    <3>1. ASSUME NEW y, Called(q, y) PROVE Fetched(y)' = Fetched(y)
      <4>1. y # 0
        BY <3>1 DEF Both, Seen
      <4>2. ~(k < sb.count /\ store[k].ino = y)
        <5> SUFFICES ASSUME k < sb.count, store[k].ino = y PROVE FALSE
          OBVIOUS
        <5>1. Called(q, store[k].ino) /\ store[k].ino # 0
          BY <3>1, <4>1
        <5>2. store[k].mode = Kind[q]
          BY <1>0, <1>6, <5>1, CalledKind
        <5> QED
          BY <1>5, <1>10, <5>2
      <4>3. \A l \in Slots : l < sb'.count /\ store'[l].ino = y <=> l < sb.count /\ store[l].ino = y
        BY <1>3, <1>5
      <4>4. \A l \in Slots : l < sb.count /\ store[l].ino = y => store'[l].size = store[l].size
        BY <1>5, <4>2
      <4> QED
        BY <4>3, <4>4, FetchedSame
    <3>2. core'[q] = core[q] /\ \A y : Called(q, y)' <=> Called(q, y)
      BY <1>3, <1>9, <2>2
    <3> QED
      BY <3>1, <3>2, CalmSize
  <2> QED
    BY <2>1, <2>2
<1> QED
  BY <1>9, <1>10, ViewKept

\* simplefs_inode_save: a stutter, or the answer.
LEMMA SaveRefines ==
  ASSUME Both, NobodyCreatesBeside, NEW i \in Procs, Save(i)
  PROVE  Calm \/ Names!Answer(i)
<1>0. Ground /\ NamesInv
  BY DEF Both, TreeInv, NamesGround
<1>1. PICK p : p = proc[i].path
  OBVIOUS
<1>2. proc \in [Procs -> Call]
  BY <1>0, CallGround
<1>3. CASE proc[i].op = "create"
  <2>1. proc[i].pc = "save" /\ Return(i, "ok")
    BY <1>0, <1>3, SaveDoes
  <2>2. Tree' = Tree /\ FileSize' = FileSize
    BY <1>3, DirSavedView
  <2> QED
    BY <1>2, <1>3, <2>1, <2>2, Answered
<1>4. Keeps \/ proc[i].op = "create"
  BY <1>0, SaveEntries
<1>5. CASE proc[i].op = "write"
  <2>1. /\ proc[i].pc = "save" /\ Return(i, "ok")
        /\ \E c : FileSaved(i, c, core[p])
    BY <1>0, <1>1, <1>5, SaveDoes
  <2>2. PICK c, s : FileSaved(i, c, s) /\ s = core[proc[i].path]
    BY <1>1, <2>1
  <2>3. Tree' = Tree /\ FileSize' = FileSize
    BY <1>4, <1>5, <2>2, FileSavedView
  <2> QED
    BY <1>2, <1>5, <2>1, <2>3, Answered
<1>6. CASE proc[i].op = "unlink"
  <2>1. PICK c, s : /\ FileSaved(i, c, s) /\ s.ino = 0
                    /\ c.op = "unlink" /\ c.path = p /\ c.ret = proc[i].ret
    BY <1>0, <1>1, <1>6, SaveDoes
  <2>2. Tree' = Tree /\ FileSize' = FileSize
    BY <1>4, <1>6, <2>1, FileSavedView
  <2>3. proc' = [proc EXCEPT ![i] = c]
    BY <2>1 DEF FileSaved
  <2>4. PendingOf(c) = PendingOf(proc[i])
    BY <1>1, <1>6, <2>1 DEF PendingOf
  <2>5. Pending' = Pending
    BY <1>2, <2>3, <2>4, PendingKept
  <2> QED
    BY <2>2, <2>5 DEF Calm
<1>7. proc[i].op \in {"create", "write", "unlink"}
  BY <1>0, SaveDoes
<1> QED
  BY <1>3, <1>5, <1>6, <1>7

\* A write sets the size in core.
LEMMA ResizeRefines ==
  ASSUME Both, NEW i \in Procs, Resize(i)
  PROVE  Names!SetSize(i)
<1>0. Ground /\ NamesInv
  BY DEF Both, TreeInv, NamesGround
<1>1. PICK p \in Paths : p = proc[i].path
  BY <1>0, CallGround, CallFacts
<1>2. /\ proc[i].pc = "resize" /\ proc[i].op = "write" /\ core[p].mode = "file"
      /\ Go(i, "lock_save") /\ UNCHANGED <<sb, store, dir>>
      /\ proc \in [Procs -> Call]
  BY <1>0, <1>1, CallGround DEF Resize, CallOK
<1>3. PICK n \in FileSizes : core' = [core EXCEPT ![p].size = n]
  BY <1>1 DEF Resize
<1>4. Kind[p] = "file" /\ core \in [Paths -> Inode]
  BY <1>0, <1>2 DEF Ground, FsInv, TypeOK, NamesInv, CoresOK, CoreOK, NoInode
<1>5. PICK c : c = [proc[i] EXCEPT !.pc = "lock_save"]
  OBVIOUS
<1>6. proc' = [proc EXCEPT ![i] = c] /\ proc[i] \in Call
  BY <1>2, <1>5
<1>7. /\ c.op = proc[i].op /\ c.path = proc[i].path /\ c.ret = proc[i].ret
      /\ c.op = "write" /\ c.pc = "lock_save"
  BY <1>2, <1>5, <1>6 DEF Call
<1>8. \A q, x : Called(q, x)' <=> Called(q, x)
  <2>1. Similar(proc[i], c)
    BY <1>2, <1>7 DEF Similar, Grower
  <2> QED
    BY <1>2, <1>6, <2>1, SimilarCalled, CalmEntries
<1>9. SizeSeen(p)' = n
  <2>1. core'[p].mode = "file" /\ core'[p].size = n
    BY <1>2, <1>3, <1>4 DEF Inode
  <2> QED
    BY <1>4, <2>1 DEF SizeSeen, Shows, NoInode
<1>10. ASSUME NEW q \in Paths \ {p} PROVE SizeSeen(q)' = SizeSeen(q)
  <2>1. core'[q] = core[q] /\ \A x : Called(q, x)' <=> Called(q, x)
    BY <1>3, <1>8
  <2>2. \A x : Called(q, x) => Fetched(x)' = Fetched(x)
    BY <1>2, FetchedStore
  <2> QED
    BY <2>1, <2>2, CalmSize
<1>11. FileSize' = [FileSize EXCEPT ![p] = n]
  BY <1>9, <1>10, SizesSet
<1>12. Tree' = Tree
  BY <1>8, TreeKept
<1>13. PendingOf(c).done /\ ~PendingOf(proc[i]).done
  BY <1>2, <1>7 DEF PendingOf
<1>14. Pending' = [Pending EXCEPT ![i].done = TRUE]
  BY <1>2, <1>6, <1>7, <1>13, PendingMarked
<1>15. Pending[i].op = "write" /\ ~Pending[i].done /\ Pending[i].path = p
  <2>1. Pending[i] = PendingOf(proc[i])
    BY <1>2, <1>6, PendingMoved
  <2> QED
    BY <1>1, <1>2, <1>13, <2>1 DEF PendingOf
<1> QED
  BY <1>11, <1>12, <1>14, <1>15 DEF Names!SetSize

\* An unlink takes the name away.
LEMMA ForgetRefines ==
  ASSUME Both, NobodyCreatesBeside, NEW i \in Procs, Forget(i)
  PROVE  Names!Vanish(i)
<1>0. Ground /\ NamesInv /\ TreeInv
  BY DEF Both, TreeInv, NamesGround
<1>1. PICK p \in Paths \ {Root} : p = proc[i].path
  BY <1>0, ForgetDoes
<1>2. PICK n : n = core[p].dead
  OBVIOUS
<1>3. /\ UNCHANGED <<sb, store>> /\ proc[i].op = "unlink" /\ core[p] # NoInode
      /\ Return(i, "ok") /\ core'[p] = NoInode /\ \A q \in Paths \ {p} : core'[q] = core[q]
      /\ \A j \in Procs : proc[j].op # "create"
      /\ n = SlotNo(SlotOf(p))
  BY <1>0, <1>1, <1>2, ForgetDoes
<1>4. PICK c : c = [Idle EXCEPT !.ret = "ok"]
  OBVIOUS
<1>5. /\ proc' = [proc EXCEPT ![i] = c] /\ proc \in [Procs -> Call]
      /\ c.op = "none"
  BY <1>0, <1>3, <1>4, CallGround DEF Return, Idle
<1>6. Loses(n)
  BY <1>0, <1>1, <1>2, ForgetEntries
<1>7. \A q, x : Called(q, x)' <=> Called(q, x) /\ x # n
  <2> SUFFICES ASSUME NEW q, NEW x PROVE Called(q, x)' <=> Called(q, x) /\ x # n
    OBVIOUS
  <2>1. (\E l \in Slots : HasEntry(l, q, x)') <=> (\E l \in Slots : HasEntry(l, q, x)) /\ x # n
    BY <1>6 DEF Loses
  <2>2. \A j \in Procs : ~Growing(j, q) /\ ~Growing(j, q)'
    BY <1>3, <1>5 DEF Growing
  <2>3. Called(q, x)' <=> \/ \E l \in Slots : HasEntry(l, q, x)'
                         \/ \E j \in Procs : (Growing(j, q) /\ proc[j].new.ino = x)'
    BY DEF Called
  <2> QED
    BY <2>1, <2>2, <2>3 DEF Called
<1>8. Called(p, n)
  BY <1>0, <1>3, CoreCalled
<1>9. \A q, x : q # p /\ Called(q, x) => x # n
  BY <1>8 DEF Both, Seen
<1>10. \A x : ~Called(p, x)'
  BY <1>7, <1>8 DEF Both, Seen
<1>11. Tree' = Tree \ {p}
  <2>1. \A q : q \in Tree' <=> q \in Tree /\ q # p
    BY <1>7, <1>9, <1>10 DEF Both, Seen
  <2>2. PICK s, u : s = Tree /\ u = Tree'
    OBVIOUS
  <2>3. \A q : q \in u <=> q \in s /\ q # p
    BY <2>1, <2>2
  <2>4. u = s \ {p}
    BY <2>3
  <2> QED
    BY <2>2, <2>4
<1>12. p \in Tree
  BY <1>8 DEF Both, Seen
<1>13. SizeSeen(p)' = 0
  <2>1. Shows(p)' = NoInode
    BY <1>3, <1>10 DEF Shows
  <2> QED
    BY <2>1 DEF SizeSeen, NoInode
<1>14. ASSUME NEW q \in Paths \ {p} PROVE SizeSeen(q)' = SizeSeen(q)
  <2>1. core'[q] = core[q] /\ \A x : Called(q, x)' <=> Called(q, x)
    BY <1>3, <1>7, <1>9
  <2>2. \A x : Called(q, x) => Fetched(x)' = Fetched(x)
    BY <1>3, FetchedStore
  <2> QED
    BY <2>1, <2>2, CalmSize
<1>15. FileSize' = [FileSize EXCEPT ![p] = 0]
  BY <1>13, <1>14, SizesSet
<1>16. Pending[i] = PendingOf(proc[i]) /\ Pending' = [Pending EXCEPT ![i] = PendingOf(c)]
  BY <1>5, PendingMoved
<1>17. PendingOf(c) = Names!None("ok")
  BY <1>4 DEF PendingOf, Names!None, Idle
<1>18. Pending' = [Pending EXCEPT ![i] = Names!None("ok")]
  BY <1>16, <1>17
<1>19. Pending[i].op = "unlink" /\ Pending[i].path = p
  BY <1>1, <1>3, <1>16 DEF PendingOf
<1> QED
  BY <1>11, <1>12, <1>15, <1>18, <1>19 DEF Names!Vanish

\* Lookup and eviction copy an inode: nobody sees it.
LEMMA CoreCalm ==
  ASSUME Both, NEW p \in Paths, NEW x, core' = [core EXCEPT ![p] = x],
         UNCHANGED <<store, dir, proc>>, sb'.count = sb.count, SizeSeen(p)' = SizeSeen(p)
  PROVE  Calm
<1>1. Keeps
  BY CalmEntries
<1>2. \A q, n : Called(q, n)' <=> Called(q, n)
  BY <1>1 DEF Called, Growing, Keeps
<1>3. ASSUME NEW q \in Paths \ {p} PROVE SizeSeen(q)' = SizeSeen(q)
  <2>1. core'[q] = core[q] /\ \A n : Called(q, n)' <=> Called(q, n)
    BY <1>2
  <2>2. \A n : Called(q, n) => Fetched(n)' = Fetched(n)
    BY FetchedStore
  <2> QED
    BY <2>1, <2>2, CalmSize
<1>4. Tree' = Tree /\ FileSize' = FileSize
  BY <1>2, <1>3, ViewKept
<1>5. Pending' = Pending
  BY DEF Pending
<1> QED
  BY <1>4, <1>5 DEF Calm

\* A lookup is a stutter,
LEMMA LookupCalm ==
  ASSUME Both, NEW p \in Paths, Lookup(p)
  PROVE  Calm
<1>0. Ground /\ NamesInv
  BY DEF Both, TreeInv, NamesGround
<1>1. /\ p # Root /\ core[p] = NoInode /\ core[Parent[p]].mode = "dir"
      /\ ~Busy(Parent[p]) /\ Named(p) # {}
      /\ UNCHANGED <<sb, store, dir, proc>>
  BY DEF Lookup
<1>2. PICK r, n, inode :
           /\ r = Min(Named(p)) /\ n = RecordOf(Parent[p], r).ino
           /\ inode = GetInode(store, n) /\ inode # NoInode
           /\ core' = [core EXCEPT ![p] = inode]
  BY DEF Lookup
<1>3. r \in Named(p)
  <2>1. Named(p) \in SUBSET Nat
    BY DEF Named, Records
  <2> QED
    BY <1>1, <1>2, <2>1, MinFacts
<1>4. Called(p, n)
  <2>1. PICK k : k = SlotOf(Parent[p])
    OBVIOUS
  <2>2. /\ r \in Places /\ Entry(k, r) /\ Rec(k, r).name = p /\ k \in Slots
        /\ Rec(k, r).ino = n
    BY <1>0, <1>1, <1>2, <1>3, <2>1, NamedFacts
  <2> QED
    BY <2>2 DEF Called, HasEntry
<1>5. Shows(p) = inode
  BY <1>1, <1>2, <1>4 DEF Both, Seen
<1>6. Shows(p)' = inode
  <2>1. core'[p] = inode
    BY <1>0, <1>2 DEF Ground, FsInv, TypeOK
  <2> QED
    BY <1>2, <2>1 DEF Shows
<1>7. SizeSeen(p)' = SizeSeen(p)
  BY <1>5, <1>6 DEF SizeSeen
<1> QED
  BY <1>1, <1>2, <1>7, CoreCalm

\* and so is an eviction.
LEMMA EvictCalm ==
  ASSUME Both, NEW p \in Paths, Evict(p)
  PROVE  Calm
<1>0. Ground /\ NamesInv /\ TreeInv
  BY DEF Both, TreeInv, NamesGround
<1>1. /\ p # Root /\ core[p] # NoInode /\ ~InUse(p) /\ ~Busy(p)
      /\ core' = [core EXCEPT ![p] = NoInode] /\ UNCHANGED <<sb, store, dir, proc>>
  BY DEF Evict
<1>2. ~Grown(p) /\ ~Resized(p) /\ ~Going(p)
  BY <1>1 DEF Busy, InUse, Grown, Grows, Resized, Resizes, Going, Goes
<1>3. PICK k : k = SlotOf(p)
  OBVIOUS
<1>4. CoreOK(p)
  BY <1>0, <1>1 DEF NamesInv, CoresOK
<1>5. core[p] = store[k] /\ k \in Slots /\ k < sb.count /\ store[k].ino # 0
  BY <1>2, <1>3, <1>4 DEF CoreOK
<1>6. Called(p, SlotNo(k)) /\ store[k].ino = SlotNo(k)
  BY <1>0, <1>1, <1>3, <1>5, CoreCalled DEF Both, Seen
<1>7. Called(p, SlotNo(k))'
  BY <1>1, <1>6, CalmEntries DEF Called, Growing, Keeps
<1>8. GetInode(store, SlotNo(k))' = store[k]
  <2>1. GetInode(store, SlotNo(k)) = store[k]
    BY <1>5, <1>6 DEF Both, Seen
  <2> QED
    BY <1>1, <2>1 DEF GetInode, SlotsOf
<1>9. core'[p] = NoInode
  BY <1>0, <1>1 DEF Ground, FsInv, TypeOK
<1>10. Shows(p)' = store[k]
  BY <1>7, <1>8, <1>9 DEF Both, Seen
<1>11. SizeSeen(p)' = SizeSeen(p)
  BY <1>1, <1>5, <1>10 DEF SizeSeen, Shows
<1> QED
  BY <1>1, <1>11, CoreCalm

\* A call begins.
LEMMA Begins ==
  ASSUME Both, NEW i \in Procs, NEW c, proc' = [proc EXCEPT ![i] = c], At(i, "idle"),
         NEW op \in {"create", "unlink", "write"}, NEW p \in Paths,
         c.op = op, c.path = p, c.ret = "none", c.found # "samedir",
         op = "unlink" \/ c.pc \notin {"lock_save", "save"},
         UNCHANGED <<store, dir>>, sb'.count = sb.count,
         \A q \in Paths : core'[q] = core[q] \/ SizeSeen(q)' = SizeSeen(q),
         op = "create" => p \notin Tree,
         op # "create" => p \in Tree /\ Kind[p] = "file"
  PROVE  Names!Call(i, op, p)
<1>1. proc \in [Procs -> Call] /\ proc[i].op = "none"
  BY CallGround DEF Both, TreeInv, NamesGround, CallOK
<1>2. Similar(proc[i], c)
  BY <1>1 DEF Similar, Grower
<1>3. \A q, n : Called(q, n)' <=> Called(q, n)
  BY <1>1, <1>2, SimilarCalled, CalmEntries
<1>4. ASSUME NEW q \in Paths PROVE SizeSeen(q)' = SizeSeen(q)
  <2>1. CASE core'[q] = core[q]
    <3>1. \A n : Called(q, n)' <=> Called(q, n)
      BY <1>3
    <3>2. \A n : Called(q, n) => Fetched(n)' = Fetched(n)
      BY FetchedStore
    <3> QED
      BY <2>1, <3>1, <3>2, CalmSize
  <2> QED
    BY <2>1
<1>5. Tree' = Tree /\ FileSize' = FileSize
  BY <1>3, <1>4, ViewKept
<1>6. Pending[i] = PendingOf(proc[i]) /\ Pending' = [Pending EXCEPT ![i] = PendingOf(c)]
  BY <1>1, PendingMoved
<1>7. PendingOf(c) = [op |-> op, path |-> p, done |-> FALSE, ret |-> "none"]
  BY DEF PendingOf
<1>8. Pending[i].op = "none"
  BY <1>1, <1>6 DEF PendingOf
<1>9. Pending' = [Pending EXCEPT ![i] = [op |-> op, path |-> p, done |-> FALSE, ret |-> "none"]]
  BY <1>6, <1>7
<1> QED
  BY <1>5, <1>8, <1>9 DEF Names!Call

\* A create is called.
LEMMA CreateRefines ==
  ASSUME Both, NobodyCreatesBeside, NEW i \in Procs, NEW p \in Paths, Create(i, p)
  PROVE  Names!Call(i, "create", p)
<1>0. Ground /\ NamesInv /\ TreeInv
  BY DEF Both, TreeInv, NamesGround
<1>1. /\ p # Root /\ core[p] = NoInode /\ core[Parent[p]].mode = "dir"
      /\ ~Busy(Parent[p]) /\ Named(p) = {} /\ At(i, "idle")
      /\ UNCHANGED <<sb, store, dir, core>>
  BY DEF Create, Enter
<1>2. PICK c : c = [proc[i] EXCEPT !.pc = "lock_dir", !.op = "create", !.path = p, !.ret = "none"]
  OBVIOUS
<1>3. proc' = [proc EXCEPT ![i] = c] /\ proc[i] \in Call /\ proc[i].found = "none"
  BY <1>0, <1>1, <1>2, CallGround DEF Create, Enter
<1>4. /\ c.op = "create" /\ c.path = p /\ c.ret = "none" /\ c.found # "samedir"
      /\ c.pc \notin {"lock_save", "save"}
  BY <1>2, <1>3 DEF Call
<1>5. PICK d \in Paths : d = Parent[p] /\ core[d].mode = "dir"
  BY <1>1
<1>6. ~Grown(d)
  BY <1>1, <1>5 DEF Busy, Grown, Grows
<1>7. PICK k : k = SlotOf(d)
  OBVIOUS
<1>8. /\ k \in Slots
      /\ Records(d) = {r \in Places : r < store[k].size}
      /\ \A r \in Places : RecordOf(d, r) = Rec(k, r)
  BY <1>0, <1>5, <1>6, <1>7, SeenInCore
<1>9. ASSUME NEW n, Called(p, n) PROVE FALSE
  <2>1. ASSUME NEW j \in Procs, Growing(j, p) PROVE FALSE
    BY <1>1, <2>1 DEF Growing, Busy
  <2>2. PICK l \in Slots : HasEntry(l, p, n)
    BY <1>9, <2>1 DEF Called
  <2>3. Linked(l, d) /\ Linked(k, d)
    <3>1. core[d] # NoInode
      BY <1>5 DEF NoInode
    <3> QED
      BY <1>0, <1>5, <1>7, <2>2, <3>1, CoreLinked DEF TreeInv, LinkInv
  <2>4. l = k
    BY <1>0, <1>8, <2>3, LinkedOnce
  <2>5. PICK r \in Places : Entry(k, r) /\ Rec(k, r).name = p /\ Rec(k, r).ino = n
    BY <2>2, <2>4 DEF HasEntry
  <2>6. r \in Records(d) /\ RecordOf(d, r).name = p /\ RecordOf(d, r).ino # 0
    BY <1>8, <2>5 DEF Entry
  <2>7. r \in Named(p)
    BY <1>5, <2>6 DEF Named
  <2> QED
    BY <1>1, <2>7
<1>10. p \notin Tree
  BY <1>1, <1>9 DEF Both, Seen
<1>11. sb'.count = sb.count /\ UNCHANGED <<store, dir>> /\ \A q \in Paths : core'[q] = core[q]
  BY <1>1
<1> QED
  BY <1>1, <1>3, <1>4, <1>10, <1>11, Begins

\* A file in core has a name.
LEMMA FileInTree ==
  ASSUME Both, NEW p \in Paths, core[p].mode = "file"
  PROVE  p \in Tree /\ Kind[p] = "file" /\ core[p] # NoInode
<1>0. Ground /\ NamesInv /\ TreeInv
  BY DEF Both, TreeInv, NamesGround
<1>1. core[p] # NoInode
  BY DEF NoInode
<1>2. Kind[p] = "file"
  BY <1>0, <1>1 DEF NamesInv, CoresOK, CoreOK
<1>3. Called(p, SlotNo(SlotOf(p)))
  BY <1>0, <1>1, <1>2, CoreCalled
<1> QED
  BY <1>1, <1>2, <1>3 DEF Both, Seen

\* A write is called.
LEMMA WriteRefines ==
  ASSUME Both, NEW i \in Procs, NEW p \in Paths, Write(i, p)
  PROVE  Names!Call(i, "write", p)
<1>0. Ground
  BY DEF Both, TreeInv, NamesGround
<1>1. core[p].mode = "file" /\ At(i, "idle") /\ UNCHANGED <<sb, store, dir, core>>
  BY DEF Write, Enter
<1>2. PICK c : c = [proc[i] EXCEPT !.pc = "lock_size", !.op = "write", !.path = p, !.ret = "none"]
  OBVIOUS
<1>3. proc' = [proc EXCEPT ![i] = c] /\ proc[i] \in Call /\ proc[i].found = "none"
  BY <1>0, <1>1, <1>2, CallGround DEF Write, Enter
<1>4. /\ c.op = "write" /\ c.path = p /\ c.ret = "none" /\ c.found # "samedir"
      /\ c.pc \notin {"lock_save", "save"}
  BY <1>2, <1>3 DEF Call
<1>5. p \in Tree /\ Kind[p] = "file"
  BY <1>1, FileInTree
<1>6. sb'.count = sb.count /\ UNCHANGED <<store, dir>> /\ \A q \in Paths : core'[q] = core[q]
  BY <1>1
<1> QED
  BY <1>1, <1>3, <1>4, <1>5, <1>6, Begins

\* An unlink is called.
LEMMA UnlinkRefines ==
  ASSUME Both, NEW i \in Procs, NEW p \in Paths, Unlink(i, p)
  PROVE  Names!Call(i, "unlink", p)
<1> DEFINE found == {r \in Records(Parent[p]) : RecordOf(Parent[p], r).ino = core[p].ino}
<1>0. Ground /\ NamesInv
  BY DEF Both, TreeInv, NamesGround
<1>1. /\ At(i, "idle") /\ p # Root /\ core[p].mode = "file" /\ ~Busy(Parent[p]) /\ ~InUse(p)
      /\ UNCHANGED <<sb, store, dir>>
  BY DEF Unlink
<1>2. p \in Tree /\ Kind[p] = "file" /\ core[p] # NoInode
  BY <1>1, FileInTree
<1>3. CoreOK(p) /\ ~Going(p)
  BY <1>0, <1>1, <1>2 DEF NamesInv, CoresOK, Going, Goes, InUse
<1>4. found # {}
  <2>1. PICK d \in Paths : d = Parent[p] /\ core[d].mode = "dir"
    BY <1>1, <1>3 DEF CoreOK
  <2>2. ~Grown(d)
    BY <1>1, <2>1 DEF Busy, Grown, Grows
  <2>3. HasEntry(SlotOf(d), p, core[p].ino)
    BY <1>1, <1>3, <2>1 DEF CoreOK, Number
  <2>4. /\ Records(d) = {r \in Places : r < store[SlotOf(d)].size}
        /\ \A r \in Places : RecordOf(d, r) = Rec(SlotOf(d), r)
    BY <1>0, <2>1, <2>2, SeenInCore
  <2>5. PICK r \in Places : Entry(SlotOf(d), r) /\ Rec(SlotOf(d), r).ino = core[p].ino
    BY <2>3 DEF HasEntry
  <2> QED
    BY <2>1, <2>4, <2>5 DEF Entry
<1>5. PICK c : c = [proc[i] EXCEPT !.pc = "lock_save", !.op = "unlink", !.path = p, !.ret = "none"]
  OBVIOUS
<1>6. proc' = [proc EXCEPT ![i] = c] /\ proc[i] \in Call /\ proc[i].found = "none"
  BY <1>0, <1>1, <1>4, <1>5, CallGround DEF Unlink
<1>7. core' = [core EXCEPT ![p].dead = core[p].ino, ![p].ino = 0]
  BY <1>4 DEF Unlink
<1>8. c.op = "unlink" /\ c.path = p /\ c.ret = "none" /\ c.found # "samedir"
  BY <1>5, <1>6 DEF Call
<1>9. core \in [Paths -> Inode]
  BY <1>0 DEF Ground, FsInv, TypeOK
<1>10. core'[p].size = core[p].size /\ core'[p].mode = "file"
  BY <1>1, <1>7, <1>9 DEF Inode
<1>11. SizeSeen(p)' = SizeSeen(p)
  <2>1. core'[p] # NoInode
    BY <1>10 DEF NoInode
  <2> QED
    BY <1>2, <1>10, <2>1 DEF SizeSeen, Shows
<1>12. \A q \in Paths : core'[q] = core[q] \/ SizeSeen(q)' = SizeSeen(q)
  BY <1>7, <1>9, <1>11
<1>13. sb'.count = sb.count /\ UNCHANGED <<store, dir>>
  BY <1>1
<1> QED
  BY <1>1, <1>2, <1>6, <1>8, <1>12, <1>13, Begins

\* What touches neither the blocks nor the calls.
LEMMA StillCalm ==
  ASSUME UNCHANGED <<sb, store, dir, core, proc>>
  PROVE  Calm
BY DEF Calm, Tree, FileSize, Pending, InodeOf, FoundIn, GetInode, SlotsOf

-----------------------------------------------------------------------------
(* simplefs is a name space.                                               *)

\* mkfs makes a name space: the root and the welcome file.
LEMMA InitRefines ==
  ASSUME Init, TreeInv, Seen
  PROVE  Names!NInit
<1>1. /\ sb.count = 2 /\ store[0].size = 1 /\ store[0].block = 2 /\ store[0].mode = "dir"
      /\ store[1] = [mode |-> "file", ino |-> 2, dead |-> 0, block |-> 3, size |-> 1]
      /\ dir[2] = [r \in 0 .. DirCap - 1 |-> IF r = 0 THEN [name |-> Welcome, ino |-> 2]
                                             ELSE NoRecord]
      /\ \A p \in Paths \ {Root} : core[p] = NoInode
      /\ proc = [i \in Procs |-> Idle]
  BY SizeAssumption DEF Init, Slots
<1>2. 0 \in Places /\ 0 \in Slots /\ 1 \in Slots
  BY SizeAssumption DEF Places, Slots
<1>3. \A i \in Procs : \A p : ~Growing(i, p)
  BY <1>1 DEF Growing, Idle
<1>4. ASSUME NEW k \in Slots, NEW p, NEW n, HasEntry(k, p, n) PROVE p = Welcome /\ n = 2
  <2>1. PICK r \in Places : Entry(k, r) /\ Rec(k, r).name = p /\ Rec(k, r).ino = n
    BY <1>4 DEF HasEntry
  <2>2. k < 2 /\ store[k].mode = "dir" /\ r < store[k].size
    BY <1>1, <2>1 DEF Entry, IsDir
  <2>3. k = 0
    BY <1>1, <2>2 DEF Slots
  <2>4. r = 0
    BY <1>1, <2>2, <2>3 DEF Places
  <2>5. Rec(k, r) = [name |-> Welcome, ino |-> 2]
    BY <1>1, <1>2, <2>3, <2>4 DEF Rec, Places
  <2> QED
    BY <2>1, <2>5
<1>5. HasEntry(0, Welcome, 2)
  <2>1. Rec(0, 0) = [name |-> Welcome, ino |-> 2]
    BY <1>1, <1>2 DEF Rec, Places
  <2>2. store[0].ino # 0
    BY DEF TreeInv, NamesGround, Ground, StoreOK, ROOTDIR_INODE
  <2>3. Entry(0, 0)
    BY <1>1, <2>1, <2>2 DEF Entry, IsDir
  <2> QED
    BY <1>2, <2>1, <2>3 DEF HasEntry
<1>6. \A p, n : Called(p, n) <=> p = Welcome /\ n = 2
  BY <1>2, <1>3, <1>4, <1>5 DEF Called
<1>7. Tree = {Root, Welcome}
  <2>1. \A p : p \in Tree <=> p \in {Root, Welcome}
    BY <1>6 DEF Seen
  <2>2. PICK s : s = Tree
    OBVIOUS
  <2>3. s = {Root, Welcome}
    BY <2>1, <2>2
  <2> QED
    BY <2>2, <2>3
<1>8. ASSUME NEW p \in Paths PROVE SizeSeen(p) = IF p = Welcome THEN 1 ELSE 0
  <2>1. CASE p = Welcome
    <3>1. Shows(p) = GetInode(store, 2)
      <4>1. Called(p, 2)
        BY <1>6, <2>1
      <4>2. p \in Paths \ {Root}
        BY <4>1 DEF Seen
      <4>3. core[p] = NoInode
        BY <1>1, <4>2
      <4> QED
        BY <4>1, <4>3 DEF Seen
    <3>2. GetInode(store, 2) = store[1]
      BY <1>1, <1>2 DEF Seen
    <3> QED
      BY <1>1, <2>1, <3>1, <3>2 DEF SizeSeen
  <2>2. CASE p # Welcome /\ p # Root
    <3>1. Shows(p) = NoInode
      BY <1>1, <1>6, <2>2 DEF Shows
    <3> QED
      BY <2>2, <3>1 DEF SizeSeen, NoInode
  <2>3. CASE p = Root
    BY <2>3 DEF SizeSeen
  <2> QED
    BY <2>1, <2>2, <2>3
<1>9. FileSize = [p \in Paths |-> IF p = Welcome THEN 1 ELSE 0]
  <2>1. FileSize = [p \in Paths |-> SizeSeen(p)]
    BY DEF Seen
  <2> QED
    BY <1>8, <2>1
<1>10. Pending = [i \in Procs |-> Names!None("none")]
  BY <1>1 DEF Pending, Names!None, Idle
<1> QED
  BY <1>7, <1>9, <1>10 DEF Names!NInit

\* Every step is one of the name space or a stutter.
LEMMA NextRefines ==
  ASSUME Signalled = {}, NobodyCreatesBeside, MaxCrashes = 0, Both, [Next]_vars
  PROVE  [Names!NNext]_(Names!nsvars)
<1>0. Ground
  BY DEF Both, TreeInv, NamesGround
<1>1. ASSUME Calm PROVE UNCHANGED Names!nsvars
  BY <1>1 DEF Calm, Names!nsvars
<1>2. ASSUME NEW i \in Procs, Step(i) PROVE Names!NNext \/ UNCHANGED Names!nsvars
  <2>1. ~Interrupted(i)
    BY <1>0 DEF Interrupted, Ground, OwnInv
  <2>2. \/ Calm \/ Names!Appear(i) \/ Names!Vanish(i)
        \/ Names!SetSize(i) \/ Names!Answer(i)
    BY <1>2, <2>1, AcquireCalm, CountRefines, SearchRefines, TakeBlockRefines, AddCalm,
       RecordCalm, ChildrenRefines, SaveRefines, ForgetRefines, ResizeRefines DEF Step
  <2> QED
    BY <1>1, <2>2 DEF Names!NNext
<1>3. ASSUME NEW i \in Procs, NEW p \in Paths, Create(i, p) \/ Unlink(i, p) \/ Write(i, p)
      PROVE  Names!NNext
  <2>1. \E op \in {"create", "unlink", "write"} : Names!Call(i, op, p)
    BY <1>3, CreateRefines, UnlinkRefines, WriteRefines
  <2> QED
    BY <2>1 DEF Names!NNext
<1>4. ASSUME NEW p \in Paths, Lookup(p) \/ Evict(p) PROVE UNCHANGED Names!nsvars
  BY <1>1, <1>4, LookupCalm, EvictCalm
<1>5. ASSUME NEW i \in Procs, Signal(i) PROVE FALSE
  BY <1>5 DEF Signal
<1>6. ~CrashAndMount
  BY <1>0 DEF CrashAndMount, Ground, FsInv, TypeOK
<1>7. CASE Writeback \/ UNCHANGED vars
  <2>1. UNCHANGED <<sb, store, dir, core, proc>>
    BY <1>7 DEF Writeback, vars
  <2> QED
    BY <1>1, <2>1, StillCalm
<1> QED
  BY <1>2, <1>3, <1>4, <1>5, <1>6, <1>7 DEF Next

\* ImplementsNameSpace: what the callers see of simplefs is a name space; a
\* create or an unlink that returns 0 has had its whole effect, one that fails
\* none, and no lookup, eviction, write-back or call of another process changes
\* a name or a size; without signals and crashes, when whoever unlinks is the
\* only one who creates.
THEOREM IsNameSpace ==
  ASSUME Signalled = {}, NobodyCreatesBeside, MaxCrashes = 0
  PROVE  Spec => ImplementsNameSpace
<1>1. FsInv => crashes = 0
  BY DEF FsInv, TypeOK
<1>2. TreeInv => Seen
  BY TreeSeen
<1>3. Init /\ TreeInv /\ Seen => Names!NInit
  BY InitRefines
<1>4. TreeInv /\ Seen /\ TreeInv' /\ Seen' /\ [Next]_vars => [Names!NNext]_(Names!nsvars)
  BY NextRefines DEF Both
<1> QED
  BY <1>1, <1>2, <1>3, <1>4, Inductive, TreeInductive, PTL
     DEF Spec, ImplementsNameSpace, Names!NSpec
=============================================================================
