------------------------------- MODULE SimpleFs -------------------------------
(***************************************************************************)
(* simplefs (io/fs/simplefs): create, mkdir, unlink, lookup and the size   *)
(* update of write, over a super block, an inode store block and one block *)
(* of records per directory.                                               *)
(*                                                                         *)
(* Processes interleave at every mutex and at every unlocked access to a   *)
(* block that another process may be changing.  The disk is kept apart     *)
(* from the buffer cache: the super block is written through, a directory  *)
(* block by the sync that ends its operation, the inode store by           *)
(* inode_save or by write-back at any time.                                *)
(*                                                                         *)
(* External: the VFS holds the i_mutex of a directory across lookup,       *)
(* create, mkdir and unlink in it (Busy), creates only what lookup does    *)
(* not find, keeps the inodes of open files and of their directories, and  *)
(* evicts others.  Not modelled: unlinking a file that is open.  A file is *)
(* its inode and name; the bytes it holds are left out.                    *)
(***************************************************************************)
EXTENDS Naturals, FiniteSets, FiniteSetsExt

CONSTANTS Procs,
          Paths,       \* the names a file or directory may have
          Root,        \* the root directory
          Welcome,     \* the file mkfs-simplefs creates
          Parent,      \* Parent[p]: the directory of p
          Kind,        \* Kind[p]: "dir" or "file", what p is created as
          Blocks,      \* the bits of free_blocks that the search covers
          IntBits,     \* the width of an int, 32
          MaxObjects,  \* SIMPLEFS_MAX_FILESYSTEM_OBJECTS_SUPPORTED
          DirCap,      \* bound: the records of a directory.  The code has none
                       \* (a full block is written past its end): Create stops
          FileSizes,   \* the values of *ppos after a write
          Stale,       \* dead_inode_no in memory fresh from kmem_cache_alloc
          May,         \* May[i]: the operations i issues
          Signalled,   \* the processes that others may send signals to
          MaxCrashes,  \* bound: the crashes of a behaviour
          NoProc, NoName

ASSUME ProcAssumption == NoProc \notin Procs
ASSUME PathAssumption ==
         /\ Root \in Paths /\ Welcome \in Paths \ {Root} /\ NoName \notin Paths
         /\ Parent \in [Paths \ {Root} -> Paths] /\ Parent[Welcome] = Root
         /\ Kind \in [Paths -> {"dir", "file"}]
         /\ Kind[Root] = "dir" /\ Kind[Welcome] = "file"
ASSUME SizeAssumption ==
         /\ Blocks \subseteq Nat /\ {0, 1, 2, 3} \subseteq Blocks
         /\ IntBits \in Nat /\ IntBits > 4
         /\ MaxObjects \in Nat /\ MaxObjects > 1
         /\ DirCap \in Nat \ {0} /\ MaxCrashes \in Nat
         /\ FileSizes \subseteq Nat /\ Stale \subseteq Nat
\* A path is longer than that of its directory: following Parent ends at Root.
ASSUME TreeAssumption ==
         \A S \in SUBSET (Paths \ {Root}) : (\A p \in S : Parent[p] \in S) => S = {}
\* The search starts at block 3 and leaves out none up to its limit.
ASSUME RangeAssumption == \A b \in Blocks : 0 .. b \subseteq Blocks

VARIABLES sb,      \* the super block: inodes_count and free_blocks
          store,   \* the inode store block in the buffer cache
          dstore,  \* the same on disk
          dir,     \* the directory blocks in the buffer cache
          ddir,    \* the same on disk
          core,    \* core[p]: the simplefs_inode of p's dentry, or NoInode
          lock,    \* the three global mutexes: a process or NoProc
          proc,    \* each process: step, operation, path and locals
          sig,     \* signal_pending() of each process
          crashes

disk == <<dstore, ddir>>
vars == <<sb, store, dstore, dir, ddir, core, lock, proc, sig, crashes>>

ROOTDIR_INODE == 1
FirstIno == 8           \* START_INO - RESERVED_INODES + 1, added to count
FirstBlock == 3
Slots == 0 .. MaxObjects
Locks == {"dir", "ino", "sb"}
NoInode == [mode |-> "none", ino |-> 0, dead |-> 0, block |-> 0, size |-> 0]
NoRecord == [name |-> NoName, ino |-> 0]
Idle == [pc |-> "idle", op |-> "none", path |-> Root, new |-> NoInode,
         found |-> "none", slot |-> 0, ret |-> "none"]

\* The mutex_lock_interruptible calls: the mutex and the step that follows.
LockOf == [lock_dir |-> "dir", lock_count |-> "ino", lock_free |-> "sb",
           lock_add |-> "ino", lock_add_sb |-> "sb",
           lock_children |-> "ino", lock_size |-> "ino", lock_save |-> "sb"]
Then == [lock_dir |-> "lock_count", lock_count |-> "count",
         lock_free |-> "take_block", lock_add |-> "lock_add_sb",
         lock_add_sb |-> "add", lock_children |-> "children",
         lock_size |-> "resize", lock_save |-> "save"]

\* The inodes in use in a store s, and the slot of number n: the first one,
\* as get_inode finds it.  A slot past inodes_count is never looked at.
Used(s)     == {k \in Slots : k < sb.count /\ s[k].ino # 0}
SlotsOf(s, n) == {k \in Slots : k < sb.count /\ s[k].ino = n}
GetInode(s, n) == LET slots == SlotsOf(s, n)
                  IN  IF slots = {} THEN NoInode ELSE s[Min(slots)]

\* The records of directory d that count, and the ones that lookup matches.
Records(d)  == {r \in 0 .. DirCap - 1 : r < core[d].size}
RecordOf(d, r) == dir[core[d].block][r]
Named(p) == {r \in Records(Parent[p]) : /\ RecordOf(Parent[p], r).name = p
                                        /\ RecordOf(Parent[p], r).ino # 0}
Holes(d) == {r \in Records(d) : RecordOf(d, r).ino = 0}

\* An operation holds the i_mutex of directory d; p is used by a call.
Busy(d)  == \E i \in Procs : /\ proc[i].op \in {"create", "unlink"}
                             /\ Parent[proc[i].path] = d
InUse(p) == \E i \in Procs : proc[i].op # "none" /\ p = proc[i].path

At(i, label)  == proc[i].pc = label
Go(i, label)  == proc' = [proc EXCEPT ![i].pc = label]
Unlocked(ls)  == [l \in Locks |-> IF l \in ls THEN NoProc ELSE lock[l]]
\* The call returns to user space, where a pending signal is delivered.
Return(i, code) ==
  /\ proc' = [proc EXCEPT ![i] = [Idle EXCEPT !.ret = code]]
  /\ sig' = [sig EXCEPT ![i] = FALSE]

\* An image as dd and mkfs-simplefs leave it, mounted.  free_blocks keeps the
\* bits of blocks 0, 1 and 2 set.
Init ==
  LET welcome == [mode |-> "file", ino |-> 2, dead |-> 0, block |-> 3, size |-> 1]
      root == [mode |-> "dir", ino |-> ROOTDIR_INODE, dead |-> 0, block |-> 2,
               size |-> 1]
  IN /\ sb = [count |-> 2, free |-> Blocks \ {3}]
     /\ store = [k \in Slots |-> IF k = 0 THEN root
                                 ELSE IF k = 1 THEN welcome ELSE NoInode]
     /\ dir = [b \in Blocks |-> [r \in 0 .. DirCap - 1 |->
                 IF b = 2 /\ r = 0 THEN [name |-> Welcome, ino |-> 2]
                 ELSE NoRecord]]
     /\ dstore = store /\ ddir = dir
     /\ core = [p \in Paths |-> IF p = Root THEN root ELSE NoInode]
     /\ lock = [l \in Locks |-> NoProc]
     /\ proc = [i \in Procs |-> Idle]
     /\ sig = [i \in Procs |-> FALSE]
     /\ crashes = 0
-----------------------------------------------------------------------------
(* The mutexes.                                                            *)

\* mutex_lock_interruptible succeeds at once on a free mutex, signal or not.
Acquire(i) ==
  /\ proc[i].pc \in DOMAIN LockOf
  /\ LET l == LockOf[proc[i].pc] IN
       /\ lock[l] = NoProc
       /\ lock' = [lock EXCEPT ![l] = i]
  /\ Go(i, Then[proc[i].pc])
  /\ UNCHANGED <<sb, store, disk, dir, core, sig, crashes>>

\* What follows inode_save: the success of a create adds the dentry.  unlink
\* ignores the result, and holds no mutex of its own.
Saved(i, held, code) ==
  /\ IF proc[i].op = "unlink"
     THEN /\ Go(i, "forget")
          /\ lock' = Unlocked(held)
          /\ UNCHANGED <<core, sig>>
     ELSE /\ Return(i, code)
          /\ lock' = Unlocked(held \cup {"ino"} \cup
                              IF proc[i].op = "create" THEN {"dir"} ELSE {})
          /\ core' = IF code = "ok" /\ proc[i].op = "create"
                     THEN [core EXCEPT ![proc[i].path] = proc[i].new] ELSE core

\* A mutex that another process holds, and a signal: -EINTR.  inode_add
\* returns void, so create goes on; its second exit keeps the first mutex,
\* and get_a_freeblock jumps to the unlock of the mutex it did not get.
Interrupted(i) ==
  /\ proc[i].pc \in DOMAIN LockOf /\ sig[i]
  /\ lock[LockOf[proc[i].pc]] # NoProc
  /\ \/ /\ proc[i].pc \in {"lock_dir", "lock_size"}
        /\ Return(i, "EINTR")
        /\ UNCHANGED <<core, lock>>
     \/ /\ proc[i].pc \in {"lock_count", "lock_children"}
        /\ lock' = Unlocked({"dir"})
        /\ Return(i, "EINTR")
        /\ UNCHANGED core
     \/ /\ At(i, "lock_free")
        /\ lock' = Unlocked({"sb", "dir"})
        /\ Return(i, "EINTR")
        /\ UNCHANGED core
     \/ /\ proc[i].pc \in {"lock_add", "lock_add_sb"}
        /\ Go(i, "record")
        /\ UNCHANGED <<core, lock, sig>>
     \/ /\ At(i, "lock_save")
        /\ Saved(i, {}, "EINTR")
  /\ UNCHANGED <<sb, store, disk, dir, crashes>>

Signal(i) == /\ i \in Signalled /\ ~At(i, "idle") /\ ~sig[i]
             /\ sig' = [sig EXCEPT ![i] = TRUE]
             /\ UNCHANGED <<sb, store, disk, dir, core, lock, proc, crashes>>
-----------------------------------------------------------------------------
(* simplefs_create_fs_object, for create and mkdir.                        *)

Enter(i, op, p, label) ==
  /\ At(i, "idle") /\ op \in May[i]
  /\ proc' = [proc EXCEPT ![i].pc = label, ![i].op = op, ![i].path = p,
                          ![i].ret = "none"]
  /\ UNCHANGED <<sb, store, disk, dir, core, lock, sig, crashes>>

Create(i, p) ==
  /\ p # Root /\ core[p] = NoInode
  /\ core[Parent[p]].mode = "dir" /\ ~Busy(Parent[p])
  /\ Named(p) = {}
  /\ core[Parent[p]].size < DirCap
  /\ Enter(i, "create", p, "lock_dir")

\* Mutant: no unlock of simplefs_inodes_mgmt_lock after the count is read.
Count_Locked(i) ==
  /\ At(i, "count") /\ sb.count < MaxObjects
  /\ \E d \in Stale :
       proc' = [proc EXCEPT ![i].pc = "search",
                  ![i].new = [mode |-> Kind[proc[i].path],
                              ino |-> sb.count + FirstIno,
                              dead |-> d, block |-> 0, size |-> 0]]
  /\ UNCHANGED <<sb, store, disk, dir, core, lock, sig, crashes>>

\* Mutant: > for >= in the test of the object count.
Count_OffByOne(i) ==
  /\ At(i, "count") /\ sb.count <= MaxObjects
  /\ \E d \in Stale :
       proc' = [proc EXCEPT ![i].pc = "search",
                  ![i].new = [mode |-> Kind[proc[i].path],
                              ino |-> sb.count + FirstIno,
                              dead |-> d, block |-> 0, size |-> 0]]
  /\ lock' = Unlocked({"ino"})
  /\ UNCHANGED <<sb, store, disk, dir, core, sig, crashes>>

\* Mutant: the directory mutex covers only the reading of the count.
Count_ReleasesDir(i) ==
  /\ At(i, "count") /\ sb.count < MaxObjects
  /\ \E d \in Stale :
       proc' = [proc EXCEPT ![i].pc = "search",
                  ![i].new = [mode |-> Kind[proc[i].path],
                              ino |-> sb.count + FirstIno,
                              dead |-> d, block |-> 0, size |-> 0]]
  /\ lock' = Unlocked({"ino", "dir"})
  /\ UNCHANGED <<sb, store, disk, dir, core, sig, crashes>>

\* The object count decides whether there is room and the inode number.
Count(i) ==
  /\ At(i, "count")
  /\ \/ /\ sb.count >= MaxObjects
        /\ lock' = Unlocked({"ino", "dir"})
        /\ Return(i, "ENOSPC")
     \/ /\ sb.count < MaxObjects
        /\ lock' = Unlocked({"ino"})
        /\ \E d \in Stale :
             proc' = [proc EXCEPT ![i].pc = "search",
                        ![i].new = [mode |-> Kind[proc[i].path],
                                    ino |-> sb.count + FirstIno,
                                    dead |-> d, block |-> 0, size |-> 0]]
        /\ UNCHANGED sig
  /\ UNCHANGED <<sb, store, disk, dir, core, crashes>>

\* Mutant: the data block of the dead inode is not taken over.
Search_NoBlock(i) ==
  LET p == proc[i].path
      d == Parent[p]
      dead == SlotsOf(store, 0)
      s == store[Min(dead)]
  IN /\ At(i, "search")
     /\ \/ /\ dead = {}
           /\ Go(i, "lock_free")
           /\ UNCHANGED dir
        \/ /\ dead # {}
           /\ dir' = IF Holes(d) = {} THEN dir
                     ELSE [dir EXCEPT ![core[d].block][Min(Holes(d))] =
                                        [name |-> p, ino |-> s.dead]]
           /\ proc' = [proc EXCEPT ![i].pc = "lock_add", ![i].new.ino = s.dead,
                         ![i].found = IF Holes(d) = {} THEN "elsewhere"
                                      ELSE "samedir"]
     /\ UNCHANGED <<sb, store, disk, core, lock, sig, crashes>>

\* get_dead_inode_no takes the first dead slot, without a lock, and the first
\* empty record of the directory gets the name at once.
Search(i) ==
  LET p == proc[i].path
      d == Parent[p]
      dead == SlotsOf(store, 0)
      s == store[Min(dead)]
  IN /\ At(i, "search")
     /\ \/ /\ dead = {}
           /\ Go(i, "lock_free")
           /\ UNCHANGED dir
        \/ /\ dead # {}
           /\ dir' = IF Holes(d) = {} THEN dir
                     ELSE [dir EXCEPT ![core[d].block][Min(Holes(d))] =
                                        [name |-> p, ino |-> s.dead]]
           /\ proc' = [proc EXCEPT ![i].pc = "lock_add",
                         ![i].new = [@ EXCEPT !.ino = s.dead, !.block = s.block],
                         ![i].found = IF Holes(d) = {} THEN "elsewhere"
                                      ELSE "samedir"]
     /\ UNCHANGED <<sb, store, disk, core, lock, sig, crashes>>

\* The bits of 1 << b, an int that is sign-extended to 64 bits.  A shift by
\* more than its width is undefined: x86 takes it modulo the width, ARM's
\* result is 0.
Bits(b)  == IF b = IntBits - 1 THEN {c \in Blocks : c >= b} ELSE {b}
Shift(b) == IF b < IntBits THEN {Bits(b)} ELSE {Bits(b % IntBits), {}}
Passed(b) == \E m \in Shift(b) : m \cap sb.free = {}

\* Mutant: the bit of the block stays set.
TakeBlock_KeepsBit(i) ==
  LET free == {b \in sb.free : b >= FirstBlock} IN
  /\ At(i, "take_block") /\ free # {}
  /\ lock' = Unlocked({"sb"})
  /\ proc' = [proc EXCEPT ![i].pc = "lock_add", ![i].new.block = Min(free)]
  /\ UNCHANGED <<sb, store, disk, dir, core, sig, crashes>>

\* simplefs_sb_get_a_freeblock, holding the super block lock: the first b
\* that has a bit of 1 << b set.
TakeBlock(i) ==
  LET searched == {b \in Blocks : b >= FirstBlock} IN
  /\ At(i, "take_block")
  /\ \/ /\ \A b \in searched : Passed(b)
        /\ lock' = Unlocked({"sb", "dir"})
        /\ Return(i, "ENOSPC")
        /\ UNCHANGED sb
     \/ /\ \E b \in searched : \E m \in Shift(b) :
             /\ m \cap sb.free # {}
             /\ \A c \in searched : c < b => Passed(c)
             /\ sb' = [sb EXCEPT !.free = @ \ m]
             /\ proc' = [proc EXCEPT ![i].pc = "lock_add",
                                     ![i].new = [@ EXCEPT !.block = b]]
        /\ lock' = Unlocked({"sb"})
        /\ UNCHANGED sig
  /\ UNCHANGED <<store, disk, dir, core, crashes>>

\* Mutant: the object count is raised before it says where the inode goes.
Add_CountFirst(i) ==
  /\ At(i, "add")
  /\ store' = IF proc[i].found # "none" \/ sb.count >= MaxObjects THEN store
              ELSE [store EXCEPT ![sb.count + 1] = proc[i].new]
  /\ sb' = IF proc[i].found = "none" THEN [sb EXCEPT !.count = @ + 1] ELSE sb
  /\ lock' = Unlocked({"ino", "sb"})
  /\ Go(i, "record")
  /\ UNCHANGED <<disk, dir, core, sig, crashes>>

\* simplefs_inode_add: over the dead slot of this number, if it is there, or
\* after the last slot.  The super block is written, the store only marked.
Add(i) ==
  LET new == proc[i].new
      slots == {k \in SlotsOf(store, 0) : store[k].dead = new.ino}
  IN /\ At(i, "add")
     /\ \/ /\ proc[i].found = "none"
           /\ store' = [store EXCEPT ![sb.count] = new]
           /\ sb' = [sb EXCEPT !.count = @ + 1]
        \/ /\ proc[i].found # "none"
           /\ store' = IF slots = {} THEN store
                       ELSE [store EXCEPT ![Min(slots)] = new]
           /\ UNCHANGED sb
     /\ lock' = Unlocked({"ino", "sb"})
     /\ Go(i, "record")
     /\ UNCHANGED <<disk, dir, core, sig, crashes>>

\* Mutant: the name is appended although it has a place.
Record_Append(i) ==
  LET p == proc[i].path
      b == core[Parent[p]].block
  IN /\ At(i, "record")
     /\ dir' = [dir EXCEPT ![b][core[Parent[p]].size] =
                             [name |-> p, ino |-> proc[i].new.ino]]
     /\ ddir' = [ddir EXCEPT ![b] = dir'[b]]
     /\ proc' = [proc EXCEPT ![i].pc = "lock_children", ![i].found = "elsewhere"]
     /\ UNCHANGED <<sb, store, dstore, core, lock, sig, crashes>>

\* Mutant: the directory block is marked dirty but not synced.
Record_NoSync(i) ==
  LET p == proc[i].path
      b == core[Parent[p]].block
  IN /\ At(i, "record")
     /\ dir' = IF proc[i].found = "samedir" THEN dir
               ELSE [dir EXCEPT ![b][core[Parent[p]].size] =
                                  [name |-> p, ino |-> proc[i].new.ino]]
     /\ Go(i, "lock_children")
     /\ UNCHANGED <<sb, store, disk, core, lock, sig, crashes>>

\* The record goes after the last one, unless it has a place, and the block
\* is synced.
Record(i) ==
  LET p == proc[i].path
      b == core[Parent[p]].block
  IN /\ At(i, "record")
     /\ dir' = IF proc[i].found = "samedir" THEN dir
               ELSE [dir EXCEPT ![b][core[Parent[p]].size] =
                                  [name |-> p, ino |-> proc[i].new.ino]]
     /\ ddir' = [ddir EXCEPT ![b] = dir'[b]]
     /\ Go(i, "lock_children")
     /\ UNCHANGED <<sb, store, dstore, core, lock, sig, crashes>>

\* Mutant: only a new inode makes the directory longer (!exist alone).
Children_NewOnly(i) ==
  /\ At(i, "children")
  /\ \/ /\ proc[i].found # "none"
        /\ Saved(i, {}, "ok")
     \/ /\ proc[i].found = "none"
        /\ core' = [core EXCEPT ![Parent[proc[i].path]].size = @ + 1]
        /\ Go(i, "lock_save")
        /\ UNCHANGED <<lock, sig>>
  /\ UNCHANGED <<sb, store, disk, dir, crashes>>

\* A new record makes the directory longer and its inode is saved; then, or
\* at once, the dentry gets the new inode.
Children(i) ==
  /\ At(i, "children")
  /\ \/ /\ proc[i].found = "samedir"
        /\ Saved(i, {}, "ok")
     \/ /\ proc[i].found # "samedir"
        /\ core' = [core EXCEPT ![Parent[proc[i].path]].size = @ + 1]
        /\ Go(i, "lock_save")
        /\ UNCHANGED <<lock, sig>>
  /\ UNCHANGED <<sb, store, disk, dir, crashes>>

\* simplefs_inode_save, holding the super block lock: of the directory after
\* a create, of the file itself after write or unlink.  inode_search looks
\* one slot past the count.  The copy of a dead inode into its slot shows
\* inode_no = 0 before dead_inode_no to get_dead_inode_no.
Save(i) ==
  LET p == proc[i].path
      inode == core[IF proc[i].op = "create" THEN Parent[p] ELSE p]
      n == IF inode.ino = 0 THEN inode.dead ELSE inode.ino
      slots == {k \in Slots : k <= sb.count /\ store[k].ino = n}
      copied(k) == [store EXCEPT ![k] = inode]
  IN /\ \/ /\ At(i, "save") /\ slots = {}
           /\ Saved(i, {"sb"}, "EIO")
           /\ UNCHANGED <<store, dstore>>
        \/ /\ At(i, "save") /\ slots # {} /\ inode.ino # 0
           /\ store' = copied(Min(slots)) /\ dstore' = store'
           /\ Saved(i, {"sb"}, "ok")
        \/ /\ At(i, "save") /\ slots # {} /\ inode.ino = 0
           /\ store' = [store EXCEPT ![Min(slots)].ino = 0]
           /\ proc' = [proc EXCEPT ![i].pc = "save_rest", ![i].slot = Min(slots)]
           /\ UNCHANGED <<dstore, core, lock, sig>>
        \/ /\ At(i, "save_rest")
           /\ store' = copied(proc[i].slot) /\ dstore' = store'
           /\ Saved(i, {"sb"}, "ok")
     /\ UNCHANGED <<sb, dir, ddir, crashes>>
-----------------------------------------------------------------------------
(* unlink, write, lookup, and what the VFS and the machine do.             *)

\* simplefs_unlink up to inode_save.  A directory is not unlinked, and there
\* is no rmdir.
Unlink(i, p) ==
  LET found == {r \in Records(Parent[p]) : RecordOf(Parent[p], r).ino = core[p].ino}
  IN /\ At(i, "idle") /\ "unlink" \in May[i]
     /\ p # Root /\ core[p].mode = "file" /\ ~Busy(Parent[p]) /\ ~InUse(p)
     /\ core' = IF found = {} THEN [core EXCEPT ![p] = NoInode]
                ELSE [core EXCEPT ![p].dead = core[p].ino, ![p].ino = 0]
     /\ proc' = IF found = {} THEN proc
                ELSE [proc EXCEPT ![i].pc = "lock_save", ![i].op = "unlink",
                                  ![i].path = p, ![i].ret = "none"]
     /\ UNCHANGED <<sb, store, disk, dir, lock, sig, crashes>>

\* The record is emptied and synced, and d_delete drops the dentry.
Forget(i) ==
  LET p == proc[i].path
      b == core[Parent[p]].block
      r == Min({q \in Records(Parent[p]) : dir[b][q].ino = core[p].dead})
  IN /\ At(i, "forget")
     /\ dir' = [dir EXCEPT ![b][r].ino = 0]
     /\ ddir' = [ddir EXCEPT ![b] = dir'[b]]
     /\ core' = [core EXCEPT ![p] = NoInode]
     /\ Return(i, "ok")
     /\ UNCHANGED <<sb, store, dstore, lock, crashes>>

\* simplefs_write, once the data is in the block.
Write(i, p) ==
  /\ core[p].mode = "file"
  /\ ~\E j \in Procs : proc[j].op = "unlink" /\ proc[j].path = p
  /\ Enter(i, "write", p, "lock_size")

Resize(i) ==
  /\ At(i, "resize")
  /\ \E n \in FileSizes : core' = [core EXCEPT ![proc[i].path].size = n]
  /\ Go(i, "lock_save")
  /\ UNCHANGED <<sb, store, disk, dir, lock, sig, crashes>>

\* simplefs_lookup: the first record of that name, and a copy of its slot.
\* (If there is no such slot the code dereferences NULL: NamesResolve.)
Lookup(p) ==
  /\ p # Root /\ core[p] = NoInode
  /\ core[Parent[p]].mode = "dir" /\ ~Busy(Parent[p])
  /\ Named(p) # {}
  /\ LET inode == GetInode(store, RecordOf(Parent[p], Min(Named(p))).ino) IN
       /\ inode # NoInode
       /\ core' = [core EXCEPT ![p] = inode]
  /\ UNCHANGED <<sb, store, disk, dir, lock, proc, sig, crashes>>

Evict(p) ==
  /\ p # Root /\ core[p] # NoInode /\ ~InUse(p) /\ ~Busy(p)
  /\ \A q \in Paths \ {Root} : Parent[q] = p => core[q] = NoInode
  /\ core' = [core EXCEPT ![p] = NoInode]
  /\ UNCHANGED <<sb, store, disk, dir, lock, proc, sig, crashes>>

\* The inode store block is marked dirty by get_dead_inode_no and inode_add.
Writeback ==
  /\ dstore # store
  /\ dstore' = store
  /\ UNCHANGED <<sb, store, dir, ddir, core, lock, proc, sig, crashes>>

\* The machine stops, restarts and mounts the image: simplefs_fill_super.
CrashAndMount ==
  /\ crashes < MaxCrashes
  /\ crashes' = crashes + 1
  /\ store' = dstore /\ dir' = ddir
  /\ core' = [p \in Paths |-> IF p = Root THEN GetInode(dstore, ROOTDIR_INODE)
                              ELSE NoInode]
  /\ lock' = [l \in Locks |-> NoProc]
  /\ proc' = [i \in Procs |-> Idle]
  /\ sig' = [i \in Procs |-> FALSE]
  /\ UNCHANGED <<sb, disk>>

\* The steps of a call that is under way.
Step(i) == \/ Acquire(i) \/ Interrupted(i) \/ Count(i) \/ Search(i)
           \/ TakeBlock(i) \/ Add(i) \/ Record(i) \/ Children(i)
           \/ Save(i) \/ Forget(i) \/ Resize(i)

Next == \/ \E i \in Procs : Step(i) \/ Signal(i)
        \/ \E i \in Procs, p \in Paths :
             Create(i, p) \/ Unlink(i, p) \/ Write(i, p)
        \/ \E p \in Paths : Lookup(p) \/ Evict(p)
        \/ Writeback \/ CrashAndMount

Spec == Init /\ [][Next]_vars

\* The scheduler runs every process that can run, and a mutex that is free
\* again and again is granted to each of those who wait for it.
FairSpec == Spec /\ \A i \in Procs : WF_vars(Step(i)) /\ SF_vars(Acquire(i))
=============================================================================
