---------------------------- MODULE SimpleFsProps ----------------------------
(* What simplefs should guarantee.                                         *)
EXTENDS SimpleFs

Inode == [mode : {"none", "dir", "file"}, ino : Nat, dead : Nat, block : Blocks,
          size : Nat]
Label == {"idle", "count", "search", "take_block", "add", "record",
          "children", "resize", "save", "save_rest", "forget"}
           \cup DOMAIN LockOf
Call == [pc : Label, op : {"none", "create", "unlink", "write"}, path : Paths,
         new : Inode, found : {"none", "samedir", "elsewhere"}, slot : Slots,
         ret : {"none", "ok", "EINTR", "ENOSPC", "EIO"}]
DirBlock == [0 .. DirCap - 1 -> [name : Paths \cup {NoName}, ino : Nat]]

\* Types.  The object count stays within the inode store: two creators do not
\* both take the last place.  (That a directory stays within its block says
\* nothing of the code, which makes no such test: DirCap bounds the model.)
TypeOK ==
  /\ sb \in [count : 0 .. MaxObjects, free : SUBSET Blocks]
  /\ store \in [Slots -> Inode] /\ dstore \in [Slots -> Inode]
  /\ dir \in [Blocks -> DirBlock] /\ ddir \in [Blocks -> DirBlock]
  /\ core \in [Paths -> Inode]
  /\ \A p \in Paths : core[p].mode = "dir" => core[p].size \in 0 .. DirCap
  /\ lock \in [Locks -> Procs \cup {NoProc}]
  /\ proc \in [Procs -> Call]
  /\ sig \in [Procs -> BOOLEAN]
  /\ crashes \in 0 .. MaxCrashes

\* The steps of create: up to the change of the directory's length, and
\* those between the reading of the object count and its use.
Creating == {"lock_dir", "lock_count", "count", "search", "lock_free",
             "take_block", "lock_add", "lock_add_sb", "add", "record",
             "lock_children", "children"}
Counted  == {"search", "lock_free", "take_block", "lock_add", "lock_add_sb", "add"}

\* What a call c of process i relies on from its first step to its last.
CallOK(i, c) ==
  /\ c.pc = "idle" <=> c.op = "none"
  /\ c.pc \in Creating => c.op = "create"
  /\ c.pc \in {"lock_size", "resize"} => c.op = "write"
  /\ c.pc = "forget" => c.op = "unlink"
  /\ c.op \in {"create", "unlink"} => c.path # Root
  /\ c.op = "create" => /\ core[c.path] = NoInode
                        /\ core[Parent[c.path]].mode = "dir"
  /\ c.op \in {"unlink", "write"} => core[c.path].mode = "file"
  /\ c.pc \in Creating => core[Parent[c.path]].size < DirCap
  /\ c.pc \in Counted /\ c.found = "none" => sb.count < MaxObjects
  /\ c.op = "create" /\ c.pc # "lock_dir" <=> lock["dir"] = i
  /\ c.new.size = 0

\* Two calls never change one directory, and nobody uses a file that is
\* being unlinked.
CallsApart ==
  \A i, j \in Procs : i # j =>
    /\ proc[i].op \in {"create", "unlink"} /\ proc[j].op \in {"create", "unlink"}
         => Parent[proc[i].path] # Parent[proc[j].path]
    /\ proc[i].op = "unlink" /\ proc[j].op # "none"
         => proc[i].path # proc[j].path

DirsFit(s) == \A k \in Slots : s[k].mode = "dir" => s[k].size <= DirCap

\* The directory that a call changes, its length and the room that was found
\* stay what the call has seen, whatever signals and crashes there are:
\* with it TypeOK is inductive.
CallsInv == /\ \A i \in Procs : CallOK(i, proc[i])
            /\ CallsApart
            /\ DirsFit(store) /\ DirsFit(dstore)

\* The mutexes held at each step of a call c.
HeldBy(c) ==
  (IF c.op = "create" /\ c.pc # "lock_dir" THEN {"dir"} ELSE {})
  \cup (IF \/ c.pc \in {"count", "lock_add_sb", "add", "children", "resize"}
           \/ c.pc \in {"lock_save", "save", "save_rest"} /\ c.op # "unlink"
        THEN {"ino"} ELSE {})
  \cup (IF c.pc \in {"take_block", "add", "save", "save_rest"}
        THEN {"sb"} ELSE {})
Holds(i) == HeldBy(proc[i])

\* A process inside a section of a mutex is the holder of that mutex: nobody
\* else unlocked it in between, and no exit kept it.
LocksAreOwned ==
  \A l \in Locks : {i \in Procs : l \in Holds(i)} =
                     IF lock[l] = NoProc THEN {} ELSE {lock[l]}

\* "A super block lock that must be used for any critical section operation
\* on the sb": whoever searches or changes free_blocks, or adds, searches or
\* copies into the inode store after a lock_free, lock_add_sb or lock_save,
\* holds simplefs_sb_lock.  (inodes_count is also read without it.)
SuperBlockIsLocked == \A i \in Procs : "sb" \in Holds(i) => lock["sb"] = i

\* No two objects of the inode store, in use or dead, have the same data
\* block, and no block of an object is free or one of the metadata blocks.
BlocksDisjointIn(s) ==
  \A k \in Slots : k < sb.count /\ s[k] # NoInode =>
    /\ IF s[k].ino = ROOTDIR_INODE THEN s[k].block = 2
       ELSE s[k].block \in Blocks \ (sb.free \cup {0, 1, 2})
    /\ \A m \in Slots : m < sb.count /\ m # k => s[m].block # s[k].block
BlocksDisjoint == BlocksDisjointIn(store)

\* Inode numbers in use are distinct.
InodesDistinct ==
  \A k, m \in Used(store) : k # m => store[k].ino # store[m].ino

\* Whenever a directory is not being changed, each name lookup can match is
\* that of an inode in use, of the kind the name was created with; otherwise
\* lookup dereferences NULL.
NamesResolve ==
  \A p \in Paths \ {Root} : core[Parent[p]].mode = "dir" /\ ~Busy(Parent[p]) =>
    \A r \in Named(p) :
      GetInode(store, RecordOf(Parent[p], r).ino).mode = Kind[p]

\* No inode has two names: neither two records of one directory nor one in
\* each of two directories.
OneName ==
  LET quiet == {p \in Paths \ {Root} : /\ core[Parent[p]].mode = "dir"
                                       /\ ~Busy(Parent[p])}
      named == UNION {{<<p, r>> : r \in Named(p)} : p \in quiet}
      inoOf(e) == RecordOf(Parent[e[1]], e[2]).ino
  IN  \A e, f \in named : inoOf(e) = inoOf(f) => e = f

\* Every name is that of an inode, and every inode has one name at most.
NamesSound == NamesResolve /\ OneName

\* What an idle file or directory has in core is what the store and its
\* directory say: evicting and looking it up again changes nothing.
Coherent ==
  \A p \in Paths :
    (core[p] # NoInode /\ ~InUse(p) /\ ~Busy(p)) =>
      /\ core[p] = GetInode(store, core[p].ino)
      /\ p # Root /\ ~Busy(Parent[p]) =>
           {RecordOf(Parent[p], r).ino : r \in Named(p)} = {core[p].ino}

\* The image on disk at any moment, that is after a crash at that moment:
\* blocks are not shared, and free_blocks is not behind the inode store.
DiskBlocksDisjoint == BlocksDisjointIn(dstore)

\* No block and no inode number is handed out twice, in memory or on disk.
GivenOutOnce == BlocksDisjoint /\ DiskBlocksDisjoint /\ InodesDistinct

\* A record of any directory on disk is that of an inode on disk, while nothing
\* is being unlinked.
DiskNamesResolve ==
  (\A i \in Procs : proc[i].op # "unlink") =>
    \A k \in Used(dstore) : dstore[k].mode = "dir" =>
      \A r \in 0 .. dstore[k].size - 1 :
        LET n == ddir[dstore[k].block][r].ino IN n # 0 => SlotsOf(dstore, n) # {}

\* A name that create has returned for, and whose inode is in core, is found
\* after a crash: its directory's inode and block and its own inode are on
\* disk.  Two kinds of create are excepted, to which the code does not keep
\* this.  Where a dead inode is reused, the inode store is only marked dirty.
\* And a crash after the sync of the super block (the new object count) and
\* before that of the inode store leaves a slot of zeros, which the next create
\* takes for a dead inode: it returns 0 and leaves a record of inode 0, which
\* no lookup finds.  Before a crash there is no inode 0.
CreatedIsDurable ==
  \A p \in Paths \ {Root} : core[p] # NoInode /\ (crashes = 0 \/ core[p].ino # 0) =>
    LET d == GetInode(dstore, core[Parent[p]].ino) IN
      /\ \E r \in 0 .. d.size - 1 :
           ddir[d.block][r] = [name |-> p, ino |-> core[p].ino]
      /\ GetInode(dstore, core[p].ino).block = core[p].block

-----------------------------------------------------------------------------
(* The tree that its callers see, whatever is in core.                     *)

\* What lookup would find for each path, walking from the root.
FoundIn(d, p) == {r \in 0 .. DirCap - 1 : /\ d.mode = "dir" /\ r < d.size
                                          /\ dir[d.block][r].name = p
                                          /\ dir[d.block][r].ino # 0}
InodeOf[p \in Paths] ==
  IF p = Root \/ core[p] # NoInode THEN core[p]
  ELSE LET d == InodeOf[Parent[p]] IN
       IF FoundIn(d, p) = {} THEN NoInode
       ELSE GetInode(store, dir[d.block][Min(FoundIn(d, p))].ino)

Tree == {Root} \cup {p \in Paths \ {Root} : FoundIn(InodeOf[Parent[p]], p) # {}}
FileSize == [p \in Paths |-> IF Kind[p] = "file" THEN InodeOf[p].size ELSE 0]
Pending == [i \in Procs |->
  [op |-> proc[i].op, path |-> proc[i].path, ret |-> proc[i].ret,
   done |-> \/ proc[i].op = "create" /\ proc[i].found = "samedir"
            \/ proc[i].op \in {"create", "write"} /\ proc[i].pc \in {"lock_save", "save"}]]

Names == INSTANCE NameSpace WITH tree <- Tree, size <- FileSize, pending <- Pending

\* simplefs is a name space: a create or an unlink that returns 0 has had its
\* whole effect, one that fails none, and nothing else (another process, a
\* lookup, an eviction, write-back) changes a name or a size.
ImplementsNameSpace == Names!NSpec

\* Liveness, under FairSpec: every call returns; the mutexes are taken in one
\* order (directory, inodes, super block) and every exit releases them.
CallReturns == \A i \in Procs : proc[i].pc # "idle" ~> proc[i].pc = "idle"
=============================================================================
