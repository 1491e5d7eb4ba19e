--------------------------- MODULE SimpleFs_proofs ---------------------------
(***************************************************************************)
(* Four results about simplefs, for any processes, names, sizes and room.  *)
(*                                                                         *)
(* TypeOK /\ CallsInv is inductive, with signals and crashes: the object   *)
(* count never passes the inode store.  What makes it so is the directory  *)
(* mutex, which survives every -EINTR exit, and the i_mutex of the VFS.    *)
(* (That a directory stays within its block is a bound of the model.)      *)
(*                                                                         *)
(* Without signals the three mutexes exclude: Owned is inductive on top.   *)
(*                                                                         *)
(* No block and no inode number is given out twice, with signals, up to    *)
(* the first crash, when whoever unlinks is the only one who creates:      *)
(* Allocated, which says who was given each block, is inductive on top.    *)
(*                                                                         *)
(* Under the same assumption and without signals names lead to inodes in   *)
(* use and what is in core is what the store says: NamesInv, which relates *)
(* records, slots and in-core inodes during a call, is inductive on top.   *)
(***************************************************************************)
EXTENDS SimpleFsProps, WellFoundedInduction, TLAPS

USE ProcAssumption, PathAssumption, SizeAssumption
USE DEF disk, At, Go

\* Each mutex_lock_interruptible call names a mutex and a next step.
LEMMA LabelFacts ==
  /\ DOMAIN LockOf = {"lock_dir", "lock_count", "lock_free", "lock_add",
                      "lock_add_sb", "lock_children", "lock_size", "lock_save"}
  /\ \A l \in DOMAIN LockOf : LockOf[l] \in Locks /\ Then[l] \in Label
BY DEF LockOf, Then, Locks, Label

\* The least element of a set of numbers is one of them.
LEMMA MinFacts ==
  ASSUME NEW S \in SUBSET Nat, S # {}
  PROVE  Min(S) \in S
<1> DEFINE less == OpToRel(<, Nat)
<1>1. \A a, b \in Nat : a < b => <<a, b>> \in {ss \in Nat \X Nat : ss[1] < ss[2]}
  OBVIOUS
<1>2. \A a, b \in Nat : a < b => <<a, b>> \in less
  BY <1>1, Zenon DEF OpToRel
<1>3. IsWellFoundedOn(less, Nat)
  BY NatLessThanWellFounded
<1> HIDE DEF less
<1>4. PICK x \in S : \A y \in S : ~(<<y, x>> \in less)
  BY <1>3, WFMin, Zenon
<1>5. \A y \in S : x <= y
  <2>1. \A y \in S : ~(y < x)
    BY <1>2, <1>4, Zenon
  <2> QED
    BY <2>1
<1>6. (CHOOSE m \in S : \A y \in S : m <= y) \in S
  BY <1>5, Zenon
<1> QED
  BY <1>6, Zenon DEF Min

\* The inductive invariant.
FsInv == TypeOK /\ CallsInv

\* The empty slot is an inode.
LEMMA InodeFacts ==
  /\ NoInode \in Inode /\ NoInode.size = 0 /\ NoInode.mode = "none"
  /\ \A r \in 0 .. DirCap - 1 : r \in Nat
BY DEF NoInode, Inode

\* simplefs_get_inode returns a slot, or nothing.
LEMMA GetInodeFacts ==
  ASSUME sb.count \in Nat, NEW s \in [Slots -> Inode], DirsFit(s), NEW n
  PROVE  /\ GetInode(s, n) \in Inode
         /\ GetInode(s, n).mode = "dir" => GetInode(s, n).size <= DirCap
<1>1. CASE SlotsOf(s, n) = {}
  BY <1>1, InodeFacts DEF GetInode
<1>2. CASE SlotsOf(s, n) # {}
  <2>1. SlotsOf(s, n) \in SUBSET Nat /\ SlotsOf(s, n) \subseteq Slots
    BY DEF SlotsOf, Slots
  <2>2. Min(SlotsOf(s, n)) \in Slots
    BY <1>2, <2>1, MinFacts
  <2> QED
    BY <1>2, <2>2 DEF GetInode, DirsFit
<1> QED
  BY <1>1, <1>2

\* The image of mkfs-simplefs satisfies the invariant.
LEMMA InitOK ==
  Init => FsInv
<1> SUFFICES ASSUME Init PROVE TypeOK /\ CallsInv
  BY DEF FsInv
<1> USE DEF Init, Idle, NoInode, Inode, Slots, NoRecord
<1>1. TypeOK
  BY DEF TypeOK, Call, DirBlock, Label, Locks, ROOTDIR_INODE
<1>2. CallsInv
  BY DEF CallsInv, CallOK, CallsApart, DirsFit, Creating, Counted, Locks
<1> QED
  BY <1>1, <1>2

\* The fields of a call.
LEMMA CallFacts ==
  ASSUME NEW c \in Call
  PROVE  /\ c.pc \in Label /\ c.op \in {"none", "create", "unlink", "write"}
         /\ c.path \in Paths /\ c.new \in Inode
         /\ c.slot \in Slots
BY DEF Call

\* The changes to the in-core inodes that a call of i may make.
CoreFrame(i) == \A p \in Paths :
  \/ core'[p] = core[p]
  \/ p = proc[i].path /\ proc[i].op \in {"create", "unlink"}
  \/ /\ p = proc[i].path /\ proc[i].op = "write"
     /\ core'[p].mode = core[p].mode
  \/ /\ proc[i].op = "create" /\ p = Parent[proc[i].path]
     /\ core'[p].mode = core[p].mode

\* A step of i keeps the other calls if it touches only what CoreFrame says,
\* changes the object count under the directory mutex, and hands that mutex
\* to or from i alone.
LEMMA Frame ==
  ASSUME TypeOK, CallsInv, NEW i \in Procs, NEW c \in Call,
         proc' = [proc EXCEPT ![i] = c],
         c.op = "none" \/ (c.op = proc[i].op /\ c.path = proc[i].path),
         sb'.count = sb.count \/ lock["dir"] = i,
         \/ lock'["dir"] = lock["dir"]
         \/ lock["dir"] = i /\ lock'["dir"] = NoProc
         \/ lock["dir"] = NoProc /\ lock'["dir"] = i,
         CoreFrame(i),
         CallOK(i, c)', DirsFit(store)', DirsFit(dstore)'
  PROVE  CallsInv'
<1>1. proc \in [Procs -> Call] /\ proc'[i] = c
  BY DEF TypeOK
<1>2. ASSUME NEW j \in Procs, j # i PROVE CallOK(j, proc[j])'
  <2>1. proc'[j] = proc[j] /\ proc[j].path \in Paths /\ proc[i].path \in Paths
    BY <1>1, <1>2, CallFacts
  <2>2. CallOK(j, proc[j]) /\ CallOK(i, proc[i])
    BY DEF CallsInv
  <2>3. /\ proc[i].op \in {"create", "unlink"} /\ proc[j].op \in {"create", "unlink"}
              => Parent[proc[i].path] # Parent[proc[j].path]
        /\ proc[i].op = "unlink" /\ proc[j].op # "none"
              => proc[i].path # proc[j].path
    BY <1>2 DEF CallsInv, CallsApart
  <2>4. proc[j].op = "create" => /\ core'[proc[j].path] = NoInode
                                 /\ core'[Parent[proc[j].path]] = core[Parent[proc[j].path]]
    BY <2>1, <2>2, <2>3, InodeFacts DEF CallOK, CoreFrame
  <2>5. proc[j].op \in {"unlink", "write"} => core'[proc[j].path].mode = "file"
    BY <2>1, <2>2, <2>3, InodeFacts DEF CallOK, CoreFrame
  <2>6. proc[j].op = "create" /\ proc[j].pc # "lock_dir" <=> lock'["dir"] = j
    BY <1>2, <2>2 DEF CallOK
  <2>7. proc[j].pc \in Counted /\ proc[j].found = "none" => sb'.count < MaxObjects
    BY <1>2, <2>2 DEF CallOK, Counted, Creating
  <2> QED
    BY <2>1, <2>2, <2>4, <2>5, <2>6, <2>7 DEF CallOK, Creating
<1>3. CallsApart'
  BY <1>1, CallFacts DEF CallsInv, CallsApart
<1>4. \A j \in Procs : CallOK(j, proc[j])'
  BY <1>1, <1>2
<1> QED
  BY <1>3, <1>4 DEF CallsInv

\* A step that only moves i to another label.
LEMMA AdvanceFacts ==
  ASSUME TypeOK, NEW i \in Procs, NEW l \in Label, Go(i, l)
  PROVE  \E c \in Call :
           /\ proc' = [proc EXCEPT ![i] = c]
           /\ c.pc = l /\ c.op = proc[i].op /\ c.path = proc[i].path
           /\ c.new = proc[i].new /\ c.found = proc[i].found
<1>1. proc[i] \in Call /\ proc \in [Procs -> Call]
  BY DEF TypeOK
<1> DEFINE c == [proc[i] EXCEPT !.pc = l]
<1>2. /\ c \in Call /\ c.pc = l /\ c.op = proc[i].op /\ c.path = proc[i].path
      /\ c.new = proc[i].new /\ c.found = proc[i].found
  BY <1>1 DEF Call
<1>3. proc' = [proc EXCEPT ![i] = c]
  BY <1>1
<1> QED
  BY <1>2, <1>3

\* A return leaves i idle.
LEMMA ReturnFacts ==
  ASSUME TypeOK, NEW i \in Procs,
         NEW code \in {"ok", "EINTR", "ENOSPC", "EIO"}, Return(i, code)
  PROVE  /\ sig' \in [Procs -> BOOLEAN]
         /\ \E c \in Call : /\ proc' = [proc EXCEPT ![i] = c]
                            /\ c.pc = "idle" /\ c.op = "none" /\ c.new = NoInode
<1>1. [Idle EXCEPT !.ret = code] \in Call
  BY InodeFacts DEF Idle, Call, Label, Slots
<1>2. [Idle EXCEPT !.ret = code].pc = "idle" /\ [Idle EXCEPT !.ret = code].op = "none"
      /\ [Idle EXCEPT !.ret = code].new = NoInode
  BY DEF Idle
<1> QED
  BY <1>1, <1>2 DEF TypeOK, Return

\* mutex_unlock of the mutexes ls.
LEMMA UnlockedFacts ==
  ASSUME TypeOK, NEW ls
  PROVE  /\ Unlocked(ls) \in [Locks -> Procs \cup {NoProc}]
         /\ "dir" \notin ls => Unlocked(ls)["dir"] = lock["dir"]
         /\ "dir" \in ls => Unlocked(ls)["dir"] = NoProc
BY DEF Unlocked, TypeOK, Locks

\* Acquire keeps the invariant.
LEMMA AcquireStep ==
  ASSUME FsInv, NEW i \in Procs, Acquire(i)
  PROVE  FsInv'
<1> USE DEF FsInv, Acquire
<1>1. Then[proc[i].pc] \in Label /\ LockOf[proc[i].pc] \in Locks
  BY LabelFacts
<1>2. PICK c \in Call :
        /\ proc' = [proc EXCEPT ![i] = c]
        /\ c.pc = Then[proc[i].pc] /\ c.op = proc[i].op /\ c.path = proc[i].path
        /\ c.new = proc[i].new /\ c.found = proc[i].found
  BY <1>1, AdvanceFacts
<1>3. TypeOK'
  BY <1>1, <1>2 DEF TypeOK
<1>4. CallOK(i, proc[i]) /\ proc[i] \in Call
  BY DEF CallsInv, TypeOK
<1>6. (lock["dir"] = NoProc /\ lock'["dir"] = i) \/ lock'["dir"] = lock["dir"]
  BY <1>1 DEF TypeOK, Locks
<1>7. CallOK(i, c)'
  BY <1>1, <1>2, <1>4, <1>6, LabelFacts DEF CallOK, Creating, Counted, LockOf, Then, Locks, TypeOK
<1>8. DirsFit(store)' /\ DirsFit(dstore)'
  BY DEF CallsInv, DirsFit
<1>9. CoreFrame(i)
  BY DEF CoreFrame
<1> QED
  BY <1>2, <1>3, <1>6, <1>7, <1>8, <1>9, Frame

\* A record written to a directory block leaves it one.
LEMMA EntryFacts ==
  ASSUME NEW f \in [Blocks -> DirBlock], NEW b, NEW r, NEW p \in Paths, NEW n \in Nat
  PROVE  [f EXCEPT ![b][r] = [name |-> p, ino |-> n]] \in [Blocks -> DirBlock]
BY DEF DirBlock

\* So does emptying a record.
LEMMA ClearFacts ==
  ASSUME NEW f \in [Blocks -> DirBlock], NEW b \in Blocks, NEW r
  PROVE  [f EXCEPT ![b][r].ino = 0] \in [Blocks -> DirBlock]
<1> DEFINE row == f[b]
<1>1. row \in [0 .. DirCap - 1 -> [name : Paths \cup {NoName}, ino : Nat]]
  BY DEF DirBlock
<1> HIDE DEF row
<1>2. [row EXCEPT ![r].ino = 0] \in [0 .. DirCap - 1 -> [name : Paths \cup {NoName}, ino : Nat]]
  BY <1>1
<1>3. [f EXCEPT ![b][r].ino = 0] = [f EXCEPT ![b] = [row EXCEPT ![r].ino = 0]]
  BY DEF row
<1> QED
  BY <1>2, <1>3 DEF DirBlock

\* The end of a call that saves an inode, whatever happened to it.
LEMMA SavedStep ==
  ASSUME TypeOK, CallsInv, NEW i \in Procs, NEW held \in {{}, {"sb"}},
         NEW code \in {"ok", "EINTR", "EIO"}, Saved(i, held, code),
         proc[i].pc \in {"children", "lock_save", "save", "save_rest"},
         sb' = sb, DirsFit(store)', DirsFit(dstore)'
  PROVE  /\ CallsInv'
         /\ core' \in [Paths -> Inode]
         /\ \A p \in Paths : core'[p].mode = "dir" => core'[p].size \in 0 .. DirCap
         /\ lock' \in [Locks -> Procs \cup {NoProc}]
         /\ proc' \in [Procs -> Call] /\ sig' \in [Procs -> BOOLEAN]
<1>1. /\ CallOK(i, proc[i]) /\ proc[i] \in Call /\ proc \in [Procs -> Call]
      /\ core \in [Paths -> Inode] /\ sig \in [Procs -> BOOLEAN]
      /\ \A p \in Paths : core[p].mode = "dir" => core[p].size \in 0 .. DirCap
  BY DEF CallsInv, TypeOK
<1>2. CASE proc[i].op = "unlink"
  <2>1. PICK c \in Call :
          /\ proc' = [proc EXCEPT ![i] = c]
          /\ c.pc = "forget" /\ c.op = proc[i].op /\ c.path = proc[i].path
          /\ c.new = proc[i].new /\ c.found = proc[i].found
    BY <1>2, AdvanceFacts DEF Saved, Label
  <2>2. /\ lock' \in [Locks -> Procs \cup {NoProc}] /\ lock'["dir"] = lock["dir"]
        /\ core' = core /\ sig' = sig
    BY <1>2, UnlockedFacts DEF Saved
  <2>3. CallOK(i, c)'
    BY <1>1, <1>2, <2>1, <2>2 DEF CallOK, Creating, Counted
  <2>4. CoreFrame(i)
    BY <2>2 DEF CoreFrame
  <2>5. CallsInv'
    BY <2>1, <2>2, <2>3, <2>4, Frame
  <2> QED
    BY <1>1, <2>1, <2>2, <2>5
<1>3. CASE proc[i].op # "unlink"
  <2>1. sig' \in [Procs -> BOOLEAN]
    BY <1>3, ReturnFacts DEF Saved
  <2>2. PICK c \in Call : /\ proc' = [proc EXCEPT ![i] = c]
                          /\ c.pc = "idle" /\ c.op = "none" /\ c.new = NoInode
    BY <1>3, ReturnFacts DEF Saved
  <2>3. /\ lock' \in [Locks -> Procs \cup {NoProc}]
        /\ proc[i].op = "create" => lock["dir"] = i /\ lock'["dir"] = NoProc
        /\ proc[i].op # "create" => lock["dir"] # i /\ lock'["dir"] = lock["dir"]
    BY <1>1, <1>3, UnlockedFacts DEF Saved, CallOK
  <2>4. \/ core' = core
        \/ /\ proc[i].op = "create"
           /\ core' = [core EXCEPT ![proc[i].path] = proc[i].new]
    BY <1>3 DEF Saved
  <2>5. CoreFrame(i)
    BY <1>1, <2>4, CallFacts DEF CoreFrame
  <2>6. CallOK(i, c)'
    BY <1>1, <2>2, <2>3, InodeFacts DEF CallOK, Creating, Counted
  <2>7. CallsInv'
    <3>1. \/ lock'["dir"] = lock["dir"]
          \/ lock["dir"] = i /\ lock'["dir"] = NoProc
          \/ lock["dir"] = NoProc /\ lock'["dir"] = i
      BY <2>3
    <3> QED
      BY <2>2, <2>5, <2>6, <3>1, Frame
  <2>8. /\ core' \in [Paths -> Inode]
        /\ \A p \in Paths : core'[p].mode = "dir" => core'[p].size \in 0 .. DirCap
    BY <1>1, <2>4, CallFacts DEF CallOK
  <2> QED
    BY <1>1, <2>1, <2>2, <2>3, <2>7, <2>8
<1> QED
  BY <1>2, <1>3

\* A call that ends early, without the directory mutex or releasing it.
LEMMA EarlyReturn ==
  ASSUME TypeOK, CallsInv, NEW i \in Procs,
         NEW code \in {"ok", "EINTR", "ENOSPC", "EIO"}, Return(i, code),
         \/ lock["dir"] # i /\ lock'["dir"] = lock["dir"]
         \/ lock["dir"] = i /\ lock'["dir"] = NoProc,
         sb'.count = sb.count, CoreFrame(i),
         DirsFit(store)', DirsFit(dstore)'
  PROVE  CallsInv' /\ proc' \in [Procs -> Call] /\ sig' \in [Procs -> BOOLEAN]
<1>1. PICK c \in Call : /\ proc' = [proc EXCEPT ![i] = c]
                        /\ c.pc = "idle" /\ c.op = "none" /\ c.new = NoInode
  BY ReturnFacts
<1>2. CallOK(i, c)'
  BY <1>1, InodeFacts DEF CallOK, Creating, Counted
<1>3. CallsInv'
  BY <1>1, <1>2, Frame
<1> QED
  BY <1>1, <1>3, ReturnFacts DEF TypeOK

\* Interrupted keeps the invariant, each exit for a reason of its own.
LEMMA InterruptedStep ==
  ASSUME FsInv, NEW i \in Procs, Interrupted(i)
  PROVE  FsInv'
<1> USE DEF FsInv
<1>1. /\ CallOK(i, proc[i]) /\ proc[i] \in Call /\ sb' = sb
      /\ UNCHANGED <<store, dstore, dir, ddir, crashes>>
      /\ DirsFit(store)' /\ DirsFit(dstore)'
  BY DEF Interrupted, CallsInv, TypeOK, DirsFit
<1>2. CASE /\ proc[i].pc \in {"lock_dir", "lock_size"}
           /\ Return(i, "EINTR") /\ UNCHANGED <<core, lock>>
  <2>1. lock["dir"] # i /\ CoreFrame(i)
    BY <1>1, <1>2 DEF CallOK, CoreFrame
  <2> QED
    BY <1>1, <1>2, <2>1, EarlyReturn DEF TypeOK
<1>3. CASE /\ proc[i].pc \in {"lock_count", "lock_children", "lock_free"}
           /\ \/ lock' = Unlocked({"dir"})
              \/ lock' = Unlocked({"sb", "dir"})
           /\ Return(i, "EINTR") /\ UNCHANGED core
  <2>1. /\ lock["dir"] = i /\ lock'["dir"] = NoProc /\ CoreFrame(i)
        /\ lock' \in [Locks -> Procs \cup {NoProc}]
    BY <1>1, <1>3, UnlockedFacts DEF CallOK, Creating, CoreFrame
  <2> QED
    BY <1>1, <1>3, <2>1, EarlyReturn DEF TypeOK
<1>4. CASE /\ proc[i].pc \in {"lock_add", "lock_add_sb"}
           /\ Go(i, "record") /\ UNCHANGED <<core, lock, sig>>
  <2>1. PICK c \in Call :
          /\ proc' = [proc EXCEPT ![i] = c]
          /\ c.pc = "record" /\ c.op = proc[i].op /\ c.path = proc[i].path
          /\ c.new = proc[i].new /\ c.found = proc[i].found
    <3>1. "record" \in Label
      BY DEF Label
    <3> QED
      BY <1>4, <3>1, AdvanceFacts
  <2>2. CallOK(i, c)' /\ CoreFrame(i)
    BY <1>1, <1>4, <2>1 DEF CallOK, Creating, Counted, CoreFrame
  <2>3. CallsInv'
    BY <1>1, <1>4, <2>1, <2>2, Frame
  <2> QED
    BY <1>1, <1>4, <2>1, <2>3 DEF TypeOK
<1>5. CASE At(i, "lock_save") /\ Saved(i, {}, "EINTR")
  BY <1>1, <1>5, SavedStep DEF TypeOK
<1> QED
  BY <1>2, <1>3, <1>4, <1>5 DEF Interrupted

\* Count keeps the invariant.
LEMMA CountStep ==
  ASSUME FsInv, NEW i \in Procs, Count(i)
  PROVE  FsInv'
<1> USE DEF FsInv
<1>1. /\ CallOK(i, proc[i]) /\ proc[i] \in Call /\ sb' = sb /\ sb.count \in Nat
      /\ UNCHANGED <<store, dstore, dir, ddir, core, crashes>>
      /\ DirsFit(store)' /\ DirsFit(dstore)' /\ CoreFrame(i)
      /\ proc[i].op = "create" /\ proc[i].path \in Paths
  BY CallFacts DEF Count, CallsInv, TypeOK, DirsFit, CoreFrame, CallOK, Creating
<1>2. CASE lock' = Unlocked({"ino", "dir"}) /\ Return(i, "ENOSPC")
  <2>1. /\ lock["dir"] = i /\ lock'["dir"] = NoProc
        /\ lock' \in [Locks -> Procs \cup {NoProc}]
    BY <1>1, <1>2, UnlockedFacts DEF CallOK, Count
  <2> QED
    BY <1>1, <1>2, <2>1, EarlyReturn DEF TypeOK
<1>3. ASSUME NEW d \in Stale, sb.count < MaxObjects, lock' = Unlocked({"ino"}),
             proc' = [proc EXCEPT ![i].pc = "search",
                        ![i].new = [mode |-> Kind[proc[i].path],
                                    ino |-> sb.count + FirstIno,
                                    dead |-> d, block |-> 0, size |-> 0]],
             sig' = sig
      PROVE  FsInv'
  <2> DEFINE new == [mode |-> Kind[proc[i].path], ino |-> sb.count + FirstIno,
                     dead |-> d, block |-> 0, size |-> 0]
             c0 == [proc[i] EXCEPT !.pc = "search", !.new = new]
  <2>1. new \in Inode /\ new.size = 0
    BY <1>1, <1>3 DEF Inode, FirstIno
  <2> HIDE DEF new
  <2>2. /\ c0 \in Call /\ c0.pc = "search" /\ c0.op = proc[i].op
        /\ c0.path = proc[i].path /\ c0.new.size = 0
    BY <1>1, <2>1 DEF Call, Label
  <2>3. proc' = [proc EXCEPT ![i] = c0]
    BY <1>3 DEF TypeOK, new
  <2>4. PICK c \in Call :
          /\ proc' = [proc EXCEPT ![i] = c]
          /\ c.pc = "search" /\ c.op = proc[i].op
          /\ c.path = proc[i].path /\ c.new.size = 0
    BY <2>2, <2>3
  <2>5. /\ lock' \in [Locks -> Procs \cup {NoProc}] /\ lock'["dir"] = lock["dir"]
        /\ sig' = sig
    BY <1>3, UnlockedFacts
  <2>6. CallOK(i, c)'
    BY <1>1, <1>3, <2>4, <2>5 DEF CallOK, Creating, Counted, Count
  <2>7. CallsInv'
    BY <1>1, <2>4, <2>5, <2>6, Frame
  <2> QED
    BY <1>1, <2>4, <2>5, <2>7 DEF TypeOK
<1> QED
  BY <1>2, <1>3 DEF Count

\* Search keeps the invariant.
LEMMA SearchStep ==
  ASSUME FsInv, NEW i \in Procs, Search(i)
  PROVE  FsInv'
<1> USE DEF FsInv
<1> DEFINE p == proc[i].path
           d == Parent[p]
           dead == SlotsOf(store, 0)
           s == store[Min(dead)]
<1>1. /\ CallOK(i, proc[i]) /\ proc[i] \in Call /\ sb' = sb /\ lock' = lock
      /\ UNCHANGED <<store, dstore, ddir, core, crashes, sig>>
      /\ DirsFit(store)' /\ DirsFit(dstore)' /\ CoreFrame(i)
      /\ proc[i].op = "create" /\ p \in Paths /\ p # Root /\ d \in Paths
      /\ proc[i].pc = "search"
  BY CallFacts DEF Search, CallsInv, TypeOK, DirsFit, CoreFrame, CallOK, Creating
<1>2. CASE dead = {} /\ Go(i, "lock_free") /\ UNCHANGED dir
  <2>1. PICK c \in Call :
          /\ proc' = [proc EXCEPT ![i] = c]
          /\ c.pc = "lock_free" /\ c.op = proc[i].op /\ c.path = proc[i].path
          /\ c.new = proc[i].new /\ c.found = proc[i].found
    <3>1. "lock_free" \in Label
      BY LabelFacts DEF Label
    <3> QED
      BY <1>2, <3>1, AdvanceFacts
  <2>2. CallOK(i, c)'
    BY <1>1, <2>1 DEF CallOK, Creating, Counted
  <2>3. CallsInv'
    BY <1>1, <2>1, <2>2, Frame
  <2> QED
    BY <1>1, <1>2, <2>1, <2>3 DEF TypeOK
<1>3. CASE /\ dead # {}
           /\ dir' = IF Holes(d) = {} THEN dir
                     ELSE [dir EXCEPT ![core[d].block][Min(Holes(d))] =
                                        [name |-> p, ino |-> s.dead]]
           /\ proc' = [proc EXCEPT ![i].pc = "lock_add",
                         ![i].new = [@ EXCEPT !.ino = s.dead, !.block = s.block],
                         ![i].found = IF Holes(d) = {} THEN "elsewhere"
                                      ELSE "samedir"]
  <2>1. s \in Inode
    <3>1. dead \in SUBSET Nat /\ dead \subseteq Slots
      BY DEF SlotsOf, Slots
    <3>2. Min(dead) \in Slots
      BY <1>3, <3>1, MinFacts
    <3> QED
      BY <3>2 DEF TypeOK
  <2>2. dir' \in [Blocks -> DirBlock]
    BY <1>1, <1>3, <2>1, EntryFacts DEF TypeOK, Inode
  <2>3. PICK c \in Call :
          /\ proc' = [proc EXCEPT ![i] = c]
          /\ c.pc = "lock_add" /\ c.op = proc[i].op /\ c.path = proc[i].path
          /\ c.new.size = proc[i].new.size /\ c.found # "none"
    <3> DEFINE fd == IF Holes(d) = {} THEN "elsewhere" ELSE "samedir"
               nw == [proc[i].new EXCEPT !.ino = s.dead, !.block = s.block]
               c0 == [proc[i] EXCEPT !.pc = "lock_add", !.new = nw, !.found = fd]
    <3>1. nw \in Inode /\ nw.size = proc[i].new.size
      BY <1>1, <2>1, CallFacts DEF Inode
    <3>2. fd \in {"samedir", "elsewhere"}
      OBVIOUS
    <3>3. proc' = [proc EXCEPT ![i] = c0]
      BY <1>1, <1>3 DEF TypeOK, Call, Inode
    <3> HIDE DEF nw, fd
    <3>4. /\ c0 \in Call /\ c0.pc = "lock_add" /\ c0.op = proc[i].op
          /\ c0.path = proc[i].path /\ c0.new = nw /\ c0.found = fd
      BY <1>1, <3>1, <3>2, LabelFacts DEF Call, Label
    <3> QED
      BY <3>1, <3>2, <3>3, <3>4
  <2>4. CallOK(i, c)'
    BY <1>1, <2>3 DEF CallOK, Creating, Counted
  <2>5. CallsInv'
    BY <1>1, <2>3, <2>4, Frame
  <2> QED
    BY <1>1, <2>2, <2>3, <2>5 DEF TypeOK
<1> QED
  BY <1>2, <1>3 DEF Search

\* TakeBlock keeps the invariant.
LEMMA TakeBlockStep ==
  ASSUME FsInv, NEW i \in Procs, TakeBlock(i)
  PROVE  FsInv'
<1> USE DEF FsInv
<1>1. /\ CallOK(i, proc[i]) /\ proc[i] \in Call /\ proc[i].op = "create"
      /\ proc[i].pc = "take_block"
      /\ UNCHANGED <<store, dstore, dir, ddir, core, crashes>>
      /\ DirsFit(store)' /\ DirsFit(dstore)' /\ CoreFrame(i)
      /\ sb \in [count : 0 .. MaxObjects, free : SUBSET Blocks]
  BY DEF TakeBlock, CallsInv, TypeOK, DirsFit, CoreFrame, CallOK, Creating
<1>2. CASE lock' = Unlocked({"sb", "dir"}) /\ Return(i, "ENOSPC") /\ UNCHANGED sb
  <2>1. /\ lock["dir"] = i /\ lock'["dir"] = NoProc
        /\ lock' \in [Locks -> Procs \cup {NoProc}]
    BY <1>1, <1>2, UnlockedFacts DEF CallOK
  <2> QED
    BY <1>1, <1>2, <2>1, EarlyReturn DEF TypeOK
<1>3. ASSUME NEW b \in Blocks, NEW m, sb' = [sb EXCEPT !.free = @ \ m],
             proc' = [proc EXCEPT ![i].pc = "lock_add",
                                  ![i].new = [@ EXCEPT !.block = b]],
             lock' = Unlocked({"sb"}), sig' = sig
      PROVE  FsInv'
  <2>1. /\ sb' \in [count : 0 .. MaxObjects, free : SUBSET Blocks]
        /\ sb'.count = sb.count
    BY <1>1, <1>3
  <2>2. PICK c \in Call :
          /\ proc' = [proc EXCEPT ![i] = c]
          /\ c.pc = "lock_add" /\ c.op = proc[i].op /\ c.path = proc[i].path
          /\ c.new.size = proc[i].new.size /\ c.found = proc[i].found
    <3> DEFINE nw == [proc[i].new EXCEPT !.block = b]
               c0 == [proc[i] EXCEPT !.pc = "lock_add", !.new = nw]
    <3>1. nw \in Inode /\ nw.size = proc[i].new.size
      BY <1>1, <1>3, CallFacts DEF Inode
    <3>2. proc' = [proc EXCEPT ![i] = c0]
      BY <1>1, <1>3 DEF TypeOK
    <3> HIDE DEF nw
    <3>3. /\ c0 \in Call /\ c0.pc = "lock_add" /\ c0.op = proc[i].op
          /\ c0.path = proc[i].path /\ c0.new = nw /\ c0.found = proc[i].found
      BY <1>1, <3>1, LabelFacts DEF Call, Label
    <3> QED
      BY <3>1, <3>2, <3>3
  <2>3. /\ lock' \in [Locks -> Procs \cup {NoProc}] /\ lock'["dir"] = lock["dir"]
        /\ sig' = sig
    BY <1>3, UnlockedFacts
  <2>4. CallOK(i, c)'
    BY <1>1, <2>1, <2>2, <2>3 DEF CallOK, Creating, Counted
  <2>5. CallsInv'
    BY <1>1, <2>1, <2>2, <2>3, <2>4, Frame
  <2> QED
    BY <1>1, <2>1, <2>2, <2>3, <2>5 DEF TypeOK
<1> QED
  BY <1>2, <1>3 DEF TakeBlock

\* Add keeps the invariant.
LEMMA AddStep ==
  ASSUME FsInv, NEW i \in Procs, Add(i)
  PROVE  FsInv'
<1> USE DEF FsInv
<1> DEFINE new == proc[i].new
           slots == {k \in SlotsOf(store, 0) : store[k].dead = new.ino}
<1>1. /\ CallOK(i, proc[i]) /\ proc[i] \in Call /\ proc[i].op = "create"
      /\ proc[i].pc = "add" /\ new \in Inode /\ new.size = 0
      /\ UNCHANGED <<dstore, dir, ddir, core, sig, crashes>>
      /\ DirsFit(store) /\ DirsFit(dstore)' /\ CoreFrame(i)
      /\ sb \in [count : 0 .. MaxObjects, free : SUBSET Blocks]
      /\ store \in [Slots -> Inode] /\ lock["dir"] = i
  BY CallFacts DEF Add, CallsInv, TypeOK, DirsFit, CoreFrame, CallOK, Creating
<1>2. PICK c \in Call :
        /\ proc' = [proc EXCEPT ![i] = c]
        /\ c.pc = "record" /\ c.op = proc[i].op /\ c.path = proc[i].path
        /\ c.new = proc[i].new /\ c.found = proc[i].found
  <2>1. "record" \in Label
    BY DEF Label
  <2> QED
    BY <2>1, AdvanceFacts DEF Add
<1>3. lock' \in [Locks -> Procs \cup {NoProc}] /\ lock'["dir"] = lock["dir"]
  BY UnlockedFacts DEF Add
<1>4. \/ store' = store
      \/ \E k : store' = [store EXCEPT ![k] = new]
  BY DEF Add
<1>5. store' \in [Slots -> Inode] /\ DirsFit(store)'
  BY <1>1, <1>4 DEF DirsFit
<1>6. sb' \in [count : 0 .. MaxObjects, free : SUBSET Blocks]
  <2>1. CASE proc[i].found = "none"
    BY <1>1, <2>1 DEF Add, CallOK, Counted
  <2>2. CASE proc[i].found # "none"
    BY <1>1, <2>2 DEF Add
  <2> QED
    BY <2>1, <2>2
<1>7. CallOK(i, c)'
  BY <1>1, <1>2, <1>3 DEF CallOK, Creating, Counted
<1>8. CallsInv'
  BY <1>1, <1>2, <1>3, <1>5, <1>7, Frame
<1> QED
  BY <1>1, <1>2, <1>3, <1>5, <1>6, <1>8 DEF TypeOK

\* Record keeps the invariant.
LEMMA RecordStep ==
  ASSUME FsInv, NEW i \in Procs, Record(i)
  PROVE  FsInv'
<1> USE DEF FsInv
<1> DEFINE p == proc[i].path
           b == core[Parent[p]].block
<1>1. /\ CallOK(i, proc[i]) /\ proc[i] \in Call /\ proc[i].op = "create"
      /\ p \in Paths \ {Root} /\ proc[i].new.ino \in Nat /\ b \in Blocks
      /\ proc[i].pc = "record" /\ sb' = sb /\ lock' = lock /\ store' = store
      /\ UNCHANGED <<dstore, core, sig, crashes>>
      /\ DirsFit(store)' /\ DirsFit(dstore)' /\ CoreFrame(i)
      /\ dir \in [Blocks -> DirBlock] /\ ddir \in [Blocks -> DirBlock]
  BY CallFacts DEF Record, CallsInv, TypeOK, DirsFit, CoreFrame, CallOK, Creating, Inode
<1>2. PICK c \in Call :
        /\ proc' = [proc EXCEPT ![i] = c]
        /\ c.pc = "lock_children" /\ c.op = proc[i].op /\ c.path = proc[i].path
        /\ c.new = proc[i].new /\ c.found = proc[i].found
  <2>1. "lock_children" \in Label
    BY LabelFacts DEF Label
  <2> QED
    BY <2>1, AdvanceFacts DEF Record
<1>3. dir' \in [Blocks -> DirBlock]
  BY <1>1, EntryFacts DEF Record
<1>4. ddir' = [ddir EXCEPT ![b] = dir'[b]]
  BY DEF Record
<1>5. ddir' \in [Blocks -> DirBlock]
  BY <1>1, <1>3, <1>4
<1>6. CallOK(i, c)'
  BY <1>1, <1>2 DEF CallOK, Creating, Counted
<1>7. CallsInv'
  BY <1>1, <1>2, <1>6, Frame
<1> QED
  BY <1>1, <1>2, <1>3, <1>5, <1>7 DEF TypeOK

\* Children keeps the invariant.
LEMMA ChildrenStep ==
  ASSUME FsInv, NEW i \in Procs, Children(i)
  PROVE  FsInv'
<1> USE DEF FsInv
<1> DEFINE d == Parent[proc[i].path]
<1>1. /\ CallOK(i, proc[i]) /\ proc[i] \in Call /\ proc[i].op = "create"
      /\ proc[i].path \in Paths \ {Root} /\ d \in Paths
      /\ proc[i].pc = "children" /\ sb' = sb
      /\ UNCHANGED <<store, dstore, dir, ddir, crashes>>
      /\ DirsFit(store)' /\ DirsFit(dstore)'
      /\ core \in [Paths -> Inode]
      /\ \A p \in Paths : core[p].mode = "dir" => core[p].size \in 0 .. DirCap
  BY CallFacts DEF Children, CallsInv, TypeOK, DirsFit, CallOK, Creating
<1>2. CASE Saved(i, {}, "ok")
  BY <1>1, <1>2, SavedStep DEF TypeOK
<1>3. CASE /\ core' = [core EXCEPT ![d].size = @ + 1]
           /\ Go(i, "lock_save")
           /\ UNCHANGED <<lock, sig>>
  <2>1. PICK c \in Call :
          /\ proc' = [proc EXCEPT ![i] = c]
          /\ c.pc = "lock_save" /\ c.op = proc[i].op /\ c.path = proc[i].path
          /\ c.new = proc[i].new /\ c.found = proc[i].found
    <3>1. "lock_save" \in Label
      BY LabelFacts DEF Label
    <3> QED
      BY <1>3, <3>1, AdvanceFacts
  <2>2. /\ core' \in [Paths -> Inode] /\ core'[d].mode = core[d].mode
        /\ core'[d].size = core[d].size + 1
        /\ \A p \in Paths : p # d => core'[p] = core[p]
    BY <1>1, <1>3 DEF Inode
  <2>3. core[d].mode = "dir" /\ core[d].size < DirCap /\ core[proc[i].path] = NoInode
        /\ d # proc[i].path /\ core[d].size \in Nat
    BY <1>1, InodeFacts DEF CallOK, Creating, Inode
  <2>4. \A p \in Paths : core'[p].mode = "dir" => core'[p].size \in 0 .. DirCap
    BY <1>1, <2>2, <2>3
  <2>5. CoreFrame(i)
    BY <1>1, <2>2 DEF CoreFrame
  <2>6. CallOK(i, c)'
    BY <1>1, <1>3, <2>1, <2>2, <2>3 DEF CallOK, Creating, Counted
  <2>7. CallsInv'
    BY <1>1, <1>3, <2>1, <2>5, <2>6, Frame
  <2>8. lock' = lock /\ sig' = sig
    BY <1>3
  <2> QED
    BY <1>1, <2>1, <2>2, <2>4, <2>7, <2>8 DEF TypeOK
<1> QED
  BY <1>2, <1>3 DEF Children

\* Save keeps the invariant.
LEMMA SaveStep ==
  ASSUME FsInv, NEW i \in Procs, Save(i)
  PROVE  FsInv'
<1> USE DEF FsInv
<1> DEFINE p == proc[i].path
           inode == core[IF proc[i].op = "create" THEN Parent[p] ELSE p]
           n == IF inode.ino = 0 THEN inode.dead ELSE inode.ino
           slots == {k \in Slots : k <= sb.count /\ store[k].ino = n}
<1>1. /\ CallOK(i, proc[i]) /\ proc[i] \in Call /\ sb' = sb
      /\ proc[i].pc \in {"save", "save_rest"} /\ p \in Paths
      /\ UNCHANGED <<dir, ddir, crashes>>
      /\ store \in [Slots -> Inode] /\ dstore \in [Slots -> Inode]
      /\ core \in [Paths -> Inode]
      /\ \A q \in Paths : core[q].mode = "dir" => core[q].size \in 0 .. DirCap
      /\ DirsFit(store) /\ DirsFit(dstore)
  BY CallFacts DEF Save, CallsInv, TypeOK
<1>2. inode \in Inode /\ (inode.mode = "dir" => inode.size <= DirCap)
  <2>1. (IF proc[i].op = "create" THEN Parent[p] ELSE p) \in Paths
    BY <1>1 DEF CallOK
  <2> QED
    BY <1>1, <2>1
<1>3. ASSUME NEW k, store' = [store EXCEPT ![k] = inode], dstore' = store'
      PROVE  /\ store' \in [Slots -> Inode] /\ DirsFit(store)'
             /\ dstore' \in [Slots -> Inode] /\ DirsFit(dstore)'
  BY <1>1, <1>2, <1>3 DEF DirsFit
<1>4. CASE slots = {} /\ Saved(i, {"sb"}, "EIO") /\ UNCHANGED <<store, dstore>>
  <2>1. DirsFit(store)' /\ DirsFit(dstore)'
    BY <1>1, <1>4 DEF DirsFit
  <2> QED
    BY <1>1, <1>4, <2>1, SavedStep DEF TypeOK
<1>5. ASSUME NEW k, store' = [store EXCEPT ![k] = inode], dstore' = store',
             Saved(i, {"sb"}, "ok")
      PROVE  FsInv'
  BY <1>1, <1>3, <1>5, SavedStep DEF TypeOK
<1>6. ASSUME NEW k \in Slots, store' = [store EXCEPT ![k].ino = 0],
             proc' = [proc EXCEPT ![i].pc = "save_rest", ![i].slot = k],
             UNCHANGED <<dstore, core, lock, sig>>
      PROVE  FsInv'
  <2>1. /\ store' \in [Slots -> Inode]
        /\ \A m \in Slots : store'[m].mode = store[m].mode /\ store'[m].size = store[m].size
    BY <1>1, <1>6 DEF Inode
  <2>2. DirsFit(store)' /\ DirsFit(dstore)' /\ CoreFrame(i)
    BY <1>1, <1>6, <2>1 DEF DirsFit, CoreFrame
  <2>3. PICK c \in Call :
          /\ proc' = [proc EXCEPT ![i] = c]
          /\ c.pc = "save_rest" /\ c.op = proc[i].op /\ c.path = proc[i].path
          /\ c.new = proc[i].new /\ c.found = proc[i].found
    <3> DEFINE c0 == [proc[i] EXCEPT !.pc = "save_rest", !.slot = k]
    <3>1. proc' = [proc EXCEPT ![i] = c0]
      BY <1>6 DEF TypeOK
    <3>2. /\ c0 \in Call /\ c0.pc = "save_rest" /\ c0.op = proc[i].op
          /\ c0.path = proc[i].path /\ c0.new = proc[i].new
          /\ c0.found = proc[i].found
      BY <1>1, <1>6 DEF Call, Label
    <3> QED
      BY <3>1, <3>2
  <2>4. CallOK(i, c)'
    BY <1>1, <1>6, <2>3 DEF CallOK, Creating, Counted
  <2>5. CallsInv'
    BY <1>1, <1>6, <2>2, <2>3, <2>4, Frame
  <2>6. lock' = lock /\ sig' = sig /\ core' = core /\ dstore' = dstore
    BY <1>6
  <2> QED
    BY <1>1, <2>1, <2>3, <2>5, <2>6 DEF TypeOK
<1>7. slots # {} => Min(slots) \in Slots
  <2>1. slots \in SUBSET Nat /\ slots \subseteq Slots
    BY DEF Slots
  <2> QED
    BY <2>1, MinFacts
<1> QED
  BY <1>4, <1>5, <1>6, <1>7 DEF Save

\* Forget keeps the invariant.
LEMMA ForgetStep ==
  ASSUME FsInv, NEW i \in Procs, Forget(i)
  PROVE  FsInv'
<1> USE DEF FsInv
<1> DEFINE p == proc[i].path
           b == core[Parent[p]].block
           r == Min({q \in Records(Parent[p]) : dir[b][q].ino = core[p].dead})
<1>1. /\ CallOK(i, proc[i]) /\ proc[i] \in Call /\ proc[i].op = "unlink"
      /\ p \in Paths \ {Root} /\ b \in Blocks
      /\ UNCHANGED <<sb, store, dstore, lock, crashes>>
      /\ DirsFit(store)' /\ DirsFit(dstore)'
      /\ dir \in [Blocks -> DirBlock] /\ ddir \in [Blocks -> DirBlock]
      /\ core \in [Paths -> Inode] /\ lock["dir"] # i
      /\ \A q \in Paths : core[q].mode = "dir" => core[q].size \in 0 .. DirCap
  BY CallFacts DEF Forget, CallsInv, TypeOK, DirsFit, CallOK, Inode
<1>2. dir' \in [Blocks -> DirBlock]
  <2> HIDE DEF r, b
  <2>1. dir' = [dir EXCEPT ![b][r].ino = 0]
    BY DEF Forget, r, b
  <2> QED
    BY <1>1, <2>1, ClearFacts
<1>3. ddir' \in [Blocks -> DirBlock]
  BY <1>1, <1>2 DEF Forget
<1>4. /\ core' \in [Paths -> Inode] /\ CoreFrame(i)
      /\ \A q \in Paths : core'[q].mode = "dir" => core'[q].size \in 0 .. DirCap
  BY <1>1, InodeFacts DEF Forget, CoreFrame
<1>5. CallsInv' /\ proc' \in [Procs -> Call] /\ sig' \in [Procs -> BOOLEAN]
  BY <1>1, <1>4, EarlyReturn DEF Forget
<1> QED
  BY <1>1, <1>2, <1>3, <1>4, <1>5 DEF TypeOK

\* Resize keeps the invariant.
LEMMA ResizeStep ==
  ASSUME FsInv, NEW i \in Procs, Resize(i)
  PROVE  FsInv'
<1> USE DEF FsInv
<1> DEFINE p == proc[i].path
<1>1. /\ CallOK(i, proc[i]) /\ proc[i] \in Call /\ proc[i].op = "write"
      /\ p \in Paths /\ core[p].mode = "file" /\ proc[i].pc = "resize"
      /\ UNCHANGED <<sb, store, dstore, dir, ddir, lock, sig, crashes>>
      /\ DirsFit(store)' /\ DirsFit(dstore)'
      /\ core \in [Paths -> Inode]
      /\ \A q \in Paths : core[q].mode = "dir" => core[q].size \in 0 .. DirCap
  BY CallFacts DEF Resize, CallsInv, TypeOK, DirsFit, CallOK
<1>2. PICK c \in Call :
        /\ proc' = [proc EXCEPT ![i] = c]
        /\ c.pc = "lock_save" /\ c.op = proc[i].op /\ c.path = proc[i].path
        /\ c.new = proc[i].new /\ c.found = proc[i].found
  <2>1. "lock_save" \in Label
    BY LabelFacts DEF Label
  <2> QED
    BY <2>1, AdvanceFacts DEF Resize
<1>3. PICK n \in Nat : core' = [core EXCEPT ![p].size = n]
  BY DEF Resize
<1>4. /\ core' \in [Paths -> Inode] /\ core'[p].mode = "file"
      /\ \A q \in Paths : q # p => core'[q] = core[q]
  BY <1>1, <1>3 DEF Inode
<1>5. CoreFrame(i) /\ \A q \in Paths : core'[q].mode = "dir" => core'[q].size \in 0 .. DirCap
  BY <1>1, <1>4 DEF CoreFrame
<1>6. CallOK(i, c)'
  BY <1>1, <1>2, <1>4 DEF CallOK, Creating, Counted
<1>7. CallsInv'
  BY <1>1, <1>2, <1>5, <1>6, Frame
<1> QED
  BY <1>1, <1>2, <1>4, <1>5, <1>7 DEF TypeOK

\* A change of one in-core inode that no call relies on.
LEMMA QuietStep ==
  ASSUME TypeOK, CallsInv, NEW p \in Paths, NEW x,
         core' = [core EXCEPT ![p] = x],
         \A j \in Procs :
           /\ proc[j].op = "create" => p # proc[j].path /\ p # Parent[proc[j].path]
           /\ proc[j].op \in {"unlink", "write"} => p # proc[j].path,
         sb' = sb, lock' = lock
  PROVE  \A j \in Procs, c \in Call : c = proc[j] => CallOK(j, c)'
<1> SUFFICES ASSUME NEW j \in Procs, NEW c \in Call, c = proc[j]
             PROVE  CallOK(j, c)'
  OBVIOUS
<1>1. CallOK(j, c) /\ c.path \in Paths
  BY CallFacts DEF CallsInv
<1>2. /\ c.op = "create" => /\ core'[c.path] = core[c.path]
                            /\ core'[Parent[c.path]] = core[Parent[c.path]]
      /\ c.op \in {"unlink", "write"} => core'[c.path] = core[c.path]
  BY <1>1 DEF TypeOK, CallOK
<1> QED
  BY <1>1, <1>2 DEF CallOK, Creating

\* The same, with no call beginning or moving.
LEMMA QuietInv ==
  ASSUME TypeOK, CallsInv, NEW p \in Paths, NEW x,
         core' = [core EXCEPT ![p] = x],
         \A j \in Procs :
           /\ proc[j].op = "create" => p # proc[j].path /\ p # Parent[proc[j].path]
           /\ proc[j].op \in {"unlink", "write"} => p # proc[j].path,
         sb' = sb, lock' = lock, proc' = proc, store' = store, dstore' = dstore
  PROVE  CallsInv'
<1>1. proc \in [Procs -> Call]
  BY DEF TypeOK
<1>2. \A j \in Procs, c \in Call : c = proc[j] => CallOK(j, c)'
  BY QuietStep
<1>3. \A j \in Procs : CallOK(j, proc[j])'
  BY <1>1, <1>2
<1>4. CallsApart' /\ DirsFit(store)' /\ DirsFit(dstore)'
  BY DEF CallsInv, CallsApart, DirsFit
<1> QED
  BY <1>3, <1>4 DEF CallsInv

\* A call begins.
LEMMA BeginInv ==
  ASSUME TypeOK, CallsInv, NEW i \in Procs, NEW c \in Call,
         proc' = [proc EXCEPT ![i] = c], proc[i].op = "none",
         CallOK(i, c)',
         \A j \in Procs, d \in Call : j # i /\ d = proc[j] => CallOK(j, d)',
         \A j \in Procs : j # i =>
           /\ c.op \in {"create", "unlink"} /\ proc[j].op \in {"create", "unlink"}
                => Parent[c.path] # Parent[proc[j].path]
           /\ (c.op = "unlink" /\ proc[j].op # "none") \/ proc[j].op = "unlink"
                => c.path # proc[j].path,
         store' = store, dstore' = dstore
  PROVE  CallsInv'
<1>1. proc \in [Procs -> Call] /\ proc'[i] = c
  BY DEF TypeOK
<1>2. \A j \in Procs : j # i => proc'[j] = proc[j]
  BY <1>1
<1>3. \A j \in Procs : CallOK(j, proc[j])'
  BY <1>1, <1>2
<1>4. CallsApart'
  <2> SUFFICES ASSUME NEW j \in Procs, NEW k \in Procs, j # k
               PROVE  /\ proc'[j].op \in {"create", "unlink"} /\ proc'[k].op \in {"create", "unlink"}
                           => Parent[proc'[j].path] # Parent[proc'[k].path]
                      /\ proc'[j].op = "unlink" /\ proc'[k].op # "none"
                           => proc'[j].path # proc'[k].path
    BY DEF CallsApart
  <2> QED
    BY <1>1, <1>2 DEF CallsInv, CallsApart
<1>5. DirsFit(store)' /\ DirsFit(dstore)'
  BY DEF CallsInv, DirsFit
<1> QED
  BY <1>3, <1>4, <1>5 DEF CallsInv

\* Create keeps the invariant: the VFS lets in one change of a directory.
LEMMA CreateStep ==
  ASSUME FsInv, NEW i \in Procs, NEW p \in Paths, Create(i, p)
  PROVE  FsInv'
<1> USE DEF FsInv
<1>1. /\ proc \in [Procs -> Call] /\ proc[i] \in Call
      /\ \A j \in Procs : CallOK(j, proc[j])
      /\ UNCHANGED <<sb, store, dstore, dir, ddir, core, lock, sig, crashes>>
  BY DEF TypeOK, CallsInv, Create, Enter
<1>2. PICK c \in Call :
        /\ proc' = [proc EXCEPT ![i] = c]
        /\ c.pc = "lock_dir" /\ c.op = "create" /\ c.path = p
        /\ c.new = proc[i].new /\ c.found = proc[i].found
  <2> DEFINE c0 == [proc[i] EXCEPT !.pc = "lock_dir", !.op = "create",
                                   !.path = p, !.ret = "none"]
  <2>1. proc' = [proc EXCEPT ![i] = c0]
    BY <1>1 DEF Create, Enter
  <2>2. /\ c0 \in Call /\ c0.pc = "lock_dir" /\ c0.op = "create" /\ c0.path = p
        /\ c0.new = proc[i].new /\ c0.found = proc[i].found
    BY <1>1, LabelFacts DEF Call, Label
  <2> QED
    BY <2>1, <2>2
<1>3. proc[i].op = "none"
  BY <1>1 DEF CallOK, Create, Enter
<1>4. CallOK(i, c)'
  BY <1>1, <1>2, <1>3 DEF CallOK, Creating, Counted, Create
<1>5. \A j \in Procs, d \in Call : j # i /\ d = proc[j] => CallOK(j, d)'
  BY <1>1, <1>3 DEF CallOK
<1>6. \A j \in Procs : j # i =>
           /\ c.op \in {"create", "unlink"} /\ proc[j].op \in {"create", "unlink"}
                => Parent[c.path] # Parent[proc[j].path]
           /\ (c.op = "unlink" /\ proc[j].op # "none") \/ proc[j].op = "unlink"
                => c.path # proc[j].path
  BY <1>1, <1>2, InodeFacts DEF Busy, CallOK, Create
<1>7. CallsInv'
  BY <1>1, <1>2, <1>3, <1>4, <1>5, <1>6, BeginInv
<1> QED
  BY <1>1, <1>2, <1>7 DEF TypeOK

\* Write keeps the invariant.
LEMMA WriteStep ==
  ASSUME FsInv, NEW i \in Procs, NEW p \in Paths, Write(i, p)
  PROVE  FsInv'
<1> USE DEF FsInv
<1>1. /\ proc \in [Procs -> Call] /\ proc[i] \in Call
      /\ \A j \in Procs : CallOK(j, proc[j])
      /\ UNCHANGED <<sb, store, dstore, dir, ddir, core, lock, sig, crashes>>
  BY DEF TypeOK, CallsInv, Write, Enter
<1>2. PICK c \in Call :
        /\ proc' = [proc EXCEPT ![i] = c]
        /\ c.pc = "lock_size" /\ c.op = "write" /\ c.path = p
        /\ c.new = proc[i].new /\ c.found = proc[i].found
  <2> DEFINE c0 == [proc[i] EXCEPT !.pc = "lock_size", !.op = "write",
                                   !.path = p, !.ret = "none"]
  <2>1. proc' = [proc EXCEPT ![i] = c0]
    BY <1>1 DEF Write, Enter
  <2>2. /\ c0 \in Call /\ c0.pc = "lock_size" /\ c0.op = "write" /\ c0.path = p
        /\ c0.new = proc[i].new /\ c0.found = proc[i].found
    BY <1>1, LabelFacts DEF Call, Label
  <2> QED
    BY <2>1, <2>2
<1>3. proc[i].op = "none"
  BY <1>1 DEF CallOK, Write, Enter
<1>4. CallOK(i, c)'
  BY <1>1, <1>2, <1>3 DEF CallOK, Creating, Counted, Write
<1>5. \A j \in Procs, d \in Call : j # i /\ d = proc[j] => CallOK(j, d)'
  BY <1>1, <1>3 DEF CallOK
<1>6. \A j \in Procs : j # i =>
           /\ c.op \in {"create", "unlink"} /\ proc[j].op \in {"create", "unlink"}
                => Parent[c.path] # Parent[proc[j].path]
           /\ (c.op = "unlink" /\ proc[j].op # "none") \/ proc[j].op = "unlink"
                => c.path # proc[j].path
  BY <1>1, <1>2 DEF CallOK, Write
<1>7. CallsInv'
  BY <1>1, <1>2, <1>3, <1>4, <1>5, <1>6, BeginInv
<1> QED
  BY <1>1, <1>2, <1>7 DEF TypeOK

\* Unlink keeps the invariant.
LEMMA UnlinkStep ==
  ASSUME FsInv, NEW i \in Procs, NEW p \in Paths, Unlink(i, p)
  PROVE  FsInv'
<1> USE DEF FsInv
<1>1. /\ proc \in [Procs -> Call] /\ proc[i] \in Call /\ core \in [Paths -> Inode]
      /\ \A j \in Procs : CallOK(j, proc[j])
      /\ \A q \in Paths : core[q].mode = "dir" => core[q].size \in 0 .. DirCap
      /\ UNCHANGED <<sb, store, dstore, dir, ddir, lock, sig, crashes>>
      /\ proc[i].pc = "idle" /\ p # Root /\ core[p].mode = "file"
      /\ ~Busy(Parent[p]) /\ ~InUse(p)
  BY DEF TypeOK, CallsInv, Unlink
<1>2. \A j \in Procs :
        /\ proc[j].op = "create" => p # proc[j].path /\ p # Parent[proc[j].path]
        /\ proc[j].op \in {"unlink", "write"} => p # proc[j].path
  BY <1>1, InodeFacts DEF InUse, CallOK
<1>3. PICK x \in Inode : core' = [core EXCEPT ![p] = x] /\ x.mode \in {"none", "file"}
                         /\ (proc' # proc => x.mode = "file")
  <2> DEFINE x0 == [core[p] EXCEPT !.dead = core[p].ino, !.ino = 0]
  <2>1. x0 \in Inode /\ x0.mode = "file"
    <3>1. \A r \in Inode : LET x == [r EXCEPT !.dead = r.ino, !.ino = 0]
                           IN x \in Inode /\ x.mode = r.mode
      BY DEF Inode
    <3> QED
      BY <1>1, <3>1
  <2>2. \/ core' = [core EXCEPT ![p] = NoInode] /\ proc' = proc
        \/ core' = [core EXCEPT ![p] = x0]
    BY <1>1 DEF Unlink
  <2> QED
    BY <2>1, <2>2, InodeFacts
<1>4. /\ core' \in [Paths -> Inode]
      /\ \A q \in Paths : core'[q].mode = "dir" => core'[q].size \in 0 .. DirCap
  BY <1>1, <1>3
<1>5. CASE proc' = proc
  <2>1. CallsInv'
    BY <1>1, <1>2, <1>3, <1>5, QuietInv
  <2> QED
    BY <1>1, <1>4, <1>5, <2>1 DEF TypeOK
<1>6. CASE proc' = [proc EXCEPT ![i].pc = "lock_save", ![i].op = "unlink",
                                ![i].path = p, ![i].ret = "none"]
  <2> DEFINE c0 == [proc[i] EXCEPT !.pc = "lock_save", !.op = "unlink",
                                   !.path = p, !.ret = "none"]
  <2>1. proc' = [proc EXCEPT ![i] = c0]
    BY <1>1, <1>6
  <2>2. /\ c0 \in Call /\ c0.pc = "lock_save" /\ c0.op = "unlink" /\ c0.path = p
        /\ c0.new = proc[i].new /\ c0.found = proc[i].found
    BY <1>1, LabelFacts DEF Call, Label
  <2>3. PICK c \in Call :
          /\ proc' = [proc EXCEPT ![i] = c]
          /\ c.pc = "lock_save" /\ c.op = "unlink" /\ c.path = p
          /\ c.new = proc[i].new /\ c.found = proc[i].found
    BY <2>1, <2>2
  <2>4. proc[i].op = "none" /\ proc' # proc
    BY <1>1, <2>3 DEF CallOK
  <2>5. CallOK(i, c)'
    BY <1>1, <1>3, <2>3, <2>4 DEF CallOK, Creating, Counted
  <2>6. \A j \in Procs, d \in Call : d = proc[j] => CallOK(j, d)'
    BY <1>1, <1>2, <1>3, QuietStep
  <2>7. \A j \in Procs : j # i =>
           /\ c.op \in {"create", "unlink"} /\ proc[j].op \in {"create", "unlink"}
                => Parent[c.path] # Parent[proc[j].path]
           /\ (c.op = "unlink" /\ proc[j].op # "none") \/ proc[j].op = "unlink"
                => c.path # proc[j].path
    BY <1>1, <2>3 DEF Busy, InUse
  <2>8. CallsInv'
    BY <1>1, <2>3, <2>4, <2>5, <2>6, <2>7, BeginInv
  <2> QED
    BY <1>1, <1>4, <2>3, <2>8 DEF TypeOK
<1> QED
  BY <1>5, <1>6 DEF Unlink

\* Lookup and Evict keep the invariant.
LEMMA LookupStep ==
  ASSUME FsInv, NEW p \in Paths, Lookup(p) \/ Evict(p)
  PROVE  FsInv'
<1> USE DEF FsInv
<1>1. /\ core \in [Paths -> Inode] /\ \A j \in Procs : CallOK(j, proc[j])
      /\ \A q \in Paths : core[q].mode = "dir" => core[q].size \in 0 .. DirCap
      /\ store \in [Slots -> Inode] /\ DirsFit(store) /\ sb.count \in Nat
      /\ UNCHANGED <<sb, store, dstore, dir, ddir, lock, proc, sig, crashes>>
  BY DEF TypeOK, CallsInv, Lookup, Evict
<1>2. PICK x \in Inode : /\ core' = [core EXCEPT ![p] = x]
                         /\ x.mode = "dir" => x.size <= DirCap
  <2>1. CASE Lookup(p)
    BY <1>1, <2>1, GetInodeFacts DEF Lookup
  <2>2. CASE Evict(p)
    BY <2>2, InodeFacts DEF Evict
  <2> QED
    BY <2>1, <2>2
<1>3. \A j \in Procs :
        /\ proc[j].op = "create" => p # proc[j].path /\ p # Parent[proc[j].path]
        /\ proc[j].op \in {"unlink", "write"} => p # proc[j].path
  <2>1. CASE Lookup(p)
    BY <1>1, <2>1, InodeFacts DEF Lookup, Busy, CallOK
  <2>2. CASE Evict(p)
    BY <1>1, <2>2, InodeFacts DEF Evict, Busy, InUse, CallOK
  <2> QED
    BY <2>1, <2>2
<1>4. CallsInv'
  BY <1>1, <1>2, <1>3, QuietInv
<1>5. /\ core' \in [Paths -> Inode]
      /\ \A q \in Paths : core'[q].mode = "dir" => core'[q].size \in 0 .. DirCap
  BY <1>1, <1>2 DEF Inode
<1> QED
  BY <1>1, <1>4, <1>5 DEF TypeOK

\* Signals, write-back and crashes.
LEMMA MachineStep ==
  ASSUME FsInv, (\E i \in Procs : Signal(i)) \/ Writeback \/ CrashAndMount
  PROVE  FsInv'
<1> USE DEF FsInv
<1>1. CASE \E i \in Procs : Signal(i)
  BY <1>1 DEF Signal, TypeOK, CallsInv, CallOK, CallsApart, DirsFit
<1>2. CASE Writeback
  BY <1>2 DEF Writeback, TypeOK, CallsInv, CallOK, CallsApart, DirsFit
<1>3. CASE CrashAndMount
  <2>1. /\ dstore \in [Slots -> Inode] /\ DirsFit(dstore) /\ sb.count \in Nat
        /\ crashes' \in 0 .. MaxCrashes
    BY <1>3 DEF TypeOK, CallsInv, CrashAndMount
  <2>2. /\ core' \in [Paths -> Inode]
        /\ \A q \in Paths : core'[q].mode = "dir" => core'[q].size \in 0 .. DirCap
    BY <1>3, <2>1, GetInodeFacts, InodeFacts DEF CrashAndMount, Inode
  <2>3. Idle \in Call
    BY InodeFacts DEF Idle, Call, Label, Slots
  <2>4. Idle.pc = "idle" /\ Idle.op = "none" /\ Idle.new = NoInode
    BY DEF Idle
  <2>5. /\ proc' = [i \in Procs |-> Idle] /\ lock' = [l \in Locks |-> NoProc]
        /\ sig' = [i \in Procs |-> FALSE] /\ sb' = sb
        /\ store' = dstore /\ dir' = ddir /\ dstore' = dstore /\ ddir' = ddir
    BY <1>3 DEF CrashAndMount
  <2>6. TypeOK'
    BY <2>1, <2>2, <2>3, <2>5 DEF TypeOK
  <2>7. \A i \in Procs : CallOK(i, proc[i])'
    BY <2>4, <2>5, InodeFacts DEF CallOK, Creating, Counted, Locks
  <2>8. CallsApart' /\ DirsFit(store)' /\ DirsFit(dstore)'
    BY <2>1, <2>4, <2>5 DEF CallsApart, DirsFit
  <2> QED
    BY <2>6, <2>7, <2>8 DEF CallsInv
<1> QED
  BY <1>1, <1>2, <1>3

\* Every step of the system keeps the invariant.
LEMMA NextInv ==
  ASSUME FsInv, [Next]_vars
  PROVE  FsInv'
<1>1. CASE UNCHANGED vars
  BY <1>1 DEF vars, FsInv, TypeOK, CallsInv, CallOK, CallsApart, DirsFit
<1>2. ASSUME NEW i \in Procs, Step(i) PROVE FsInv'
  BY <1>2, AcquireStep, InterruptedStep, CountStep, SearchStep, TakeBlockStep,
     AddStep, RecordStep, ChildrenStep, SaveStep, ForgetStep, ResizeStep DEF Step
<1>3. ASSUME NEW i \in Procs, NEW p \in Paths,
             Create(i, p) \/ Unlink(i, p) \/ Write(i, p)
      PROVE  FsInv'
  BY <1>3, CreateStep, UnlinkStep, WriteStep
<1>4. ASSUME NEW p \in Paths, Lookup(p) \/ Evict(p) PROVE FsInv'
  BY <1>4, LookupStep
<1>5. CASE (\E i \in Procs : Signal(i)) \/ Writeback \/ CrashAndMount
  BY <1>5, MachineStep
<1> QED
  BY <1>1, <1>2, <1>3, <1>4, <1>5 DEF Next

\* FsInv holds in every state, whatever processes, names, sizes, signals and
\* crashes there are.
THEOREM Inductive == Spec => []FsInv
<1>1. Init => FsInv
  BY InitOK
<1>2. FsInv /\ [Next]_vars => FsInv'
  BY NextInv
<1> QED
  BY <1>1, <1>2, PTL DEF Spec

\* Type correctness: sb.count stays within SIMPLEFS_MAX_FILESYSTEM_OBJECTS,
\* although it is tested in create and raised only later, in inode_add.  Of
\* directories the theorem says nothing: simple.c:641 writes past a full block
\* without a test, and it is the model that stops creating at DirCap.
THEOREM TypeCorrect == Spec => []TypeOK
<1>1. FsInv => TypeOK
  BY DEF FsInv
<1> QED
  BY <1>1, Inductive, PTL

\* A call keeps what it relies on: its directory, the room found in it and the
\* count it took its inode number from, over every unlocked gap.
THEOREM CallsAreKept == Spec => []CallsInv
<1>1. FsInv => CallsInv
  BY DEF FsInv
<1> QED
  BY <1>1, Inductive, PTL

-----------------------------------------------------------------------------
(* The mutexes, where nobody sends signals.                                *)

\* Without signals each mutex is held by the process whose step says so.
Owned == \A l \in Locks, i \in Procs : l \in Holds(i) <=> lock[l] = i
OwnInv == Owned /\ \A i \in Procs : ~sig[i]

\* The three kinds of change to the mutexes: release, none, acquire.
LEMMA ReleaseOwned ==
  ASSUME TypeOK, Owned, NEW i \in Procs, NEW c \in Call,
         proc' = [proc EXCEPT ![i] = c],
         NEW ls, ls \subseteq HeldBy(proc[i]), HeldBy(c) = HeldBy(proc[i]) \ ls,
         lock' = Unlocked(ls)
  PROVE  Owned'
<1>1. \A j \in Procs : j # i => proc'[j] = proc[j]
  BY DEF TypeOK
<1>2. proc'[i] = c
  BY DEF TypeOK
<1>3. ASSUME NEW l \in Locks, NEW j \in Procs
      PROVE  l \in HeldBy(proc'[j]) <=> lock'[l] = j
  <2>1. lock'[l] = IF l \in ls THEN NoProc ELSE lock[l]
    BY DEF Unlocked
  <2>2. l \in ls => lock[l] = i
    BY DEF Owned, Holds
  <2> QED
    BY <1>1, <1>2, <2>1, <2>2 DEF Owned, Holds
<1> QED
  BY <1>3 DEF Owned, Holds

\* A step that leaves the mutexes alone.
LEMMA KeepOwned ==
  ASSUME TypeOK, Owned, NEW i \in Procs, NEW c \in Call,
         proc' = [proc EXCEPT ![i] = c], HeldBy(c) = HeldBy(proc[i]),
         lock' = lock
  PROVE  Owned'
<1>1. /\ \A j \in Procs : j # i => proc'[j] = proc[j]
      /\ proc'[i] = c
  BY DEF TypeOK
<1> QED
  BY <1>1 DEF Owned, Holds

\* mutex_lock_interruptible that succeeds.
LEMMA AcquireOwned ==
  ASSUME FsInv, Owned, NEW i \in Procs, Acquire(i)
  PROVE  Owned'
<1> DEFINE l == LockOf[proc[i].pc]
<1>1. /\ proc[i].pc \in DOMAIN LockOf /\ l \in Locks /\ lock[l] = NoProc
      /\ lock' = [lock EXCEPT ![l] = i] /\ Then[proc[i].pc] \in Label
  BY LabelFacts DEF Acquire
<1>2. PICK c \in Call :
        /\ proc' = [proc EXCEPT ![i] = c]
        /\ c.pc = Then[proc[i].pc] /\ c.op = proc[i].op /\ c.path = proc[i].path
        /\ c.new = proc[i].new /\ c.found = proc[i].found
  BY <1>1, AdvanceFacts DEF Acquire, FsInv
<1>3. CallOK(i, proc[i])
  BY DEF FsInv, CallsInv
<1>4. HeldBy(c) = HeldBy(proc[i]) \cup {l}
  BY <1>1, <1>2, <1>3, LabelFacts
  DEF HeldBy, LockOf, Then, CallOK, Creating
<1>5. /\ \A j \in Procs : j # i => proc'[j] = proc[j]
      /\ proc'[i] = c /\ \A m \in Locks : lock'[m] = IF m = l THEN i ELSE lock[m]
  BY <1>1, <1>2 DEF FsInv, TypeOK
<1> QED
  BY <1>1, <1>4, <1>5 DEF Owned, Holds

\* The exits after inode_save unlock just what the call holds.
LEMMA SavedOwned ==
  ASSUME FsInv, OwnInv, NEW i \in Procs,
         NEW held \in {{}, {"sb"}}, NEW code \in {"ok", "EIO"}, Saved(i, held, code),
         \/ proc[i].pc = "children" /\ held = {} /\ proc[i].op = "create"
         \/ proc[i].pc \in {"save", "save_rest"} /\ held = {"sb"}
  PROVE  OwnInv'
<1>1. CallOK(i, proc[i]) /\ proc[i].op \in {"create", "unlink", "write"}
  BY CallFacts DEF FsInv, CallsInv, CallOK, TypeOK
<1>2. CASE proc[i].op = "unlink"
  <2>1. PICK c \in Call :
          /\ proc' = [proc EXCEPT ![i] = c]
          /\ c.pc = "forget" /\ c.op = proc[i].op /\ c.path = proc[i].path
          /\ c.new = proc[i].new /\ c.found = proc[i].found
    BY <1>2, AdvanceFacts DEF Saved, Label, FsInv
  <2>2. lock' = Unlocked(held) /\ sig' = sig
    BY <1>2 DEF Saved
  <2>3. held \subseteq HeldBy(proc[i]) /\ HeldBy(c) = HeldBy(proc[i]) \ held
    BY <1>2, <2>1 DEF HeldBy
  <2> QED
    BY <2>1, <2>2, <2>3, ReleaseOwned DEF FsInv, OwnInv
<1>3. CASE proc[i].op # "unlink"
  <2> DEFINE ls == held \cup {"ino"} \cup
                     IF proc[i].op = "create" THEN {"dir"} ELSE {}
  <2>1. PICK c \in Call : /\ proc' = [proc EXCEPT ![i] = c]
                          /\ c.pc = "idle" /\ c.op = "none" /\ c.new = NoInode
    BY <1>3, ReturnFacts DEF Saved, FsInv
  <2>2. lock' = Unlocked(ls) /\ sig' = [sig EXCEPT ![i] = FALSE]
    BY <1>3 DEF Saved, Return
  <2>3. ls \subseteq HeldBy(proc[i]) /\ HeldBy(c) = HeldBy(proc[i]) \ ls
    BY <1>1, <1>3, <2>1 DEF HeldBy
  <2>4. Owned'
    BY <2>1, <2>2, <2>3, ReleaseOwned DEF FsInv, OwnInv
  <2> QED
    BY <2>2, <2>4 DEF FsInv, TypeOK, OwnInv
<1> QED
  BY <1>2, <1>3

\* A call that returns and releases the mutexes ls.
LEMMA ReturnOwned ==
  ASSUME FsInv, OwnInv, NEW i \in Procs,
         NEW code \in {"ok", "EINTR", "ENOSPC", "EIO"}, Return(i, code),
         lock' = Unlocked(HeldBy(proc[i]))
  PROVE  OwnInv'
<1>1. PICK c \in Call : /\ proc' = [proc EXCEPT ![i] = c]
                        /\ c.pc = "idle" /\ c.op = "none" /\ c.new = NoInode
  BY ReturnFacts DEF FsInv
<1>2. HeldBy(c) = HeldBy(proc[i]) \ HeldBy(proc[i])
  BY <1>1 DEF HeldBy
<1>3. Owned'
  BY <1>1, <1>2, ReleaseOwned DEF FsInv, OwnInv
<1> QED
  BY <1>3 DEF FsInv, TypeOK, OwnInv, Return

\* A step to label l that releases the mutexes ls.
LEMMA AdvanceOwned ==
  ASSUME FsInv, OwnInv, NEW i \in Procs, NEW c \in Call,
         proc' = [proc EXCEPT ![i] = c], c.op = proc[i].op,
         NEW ls, ls \subseteq HeldBy(proc[i]), HeldBy(c) = HeldBy(proc[i]) \ ls,
         lock' = Unlocked(ls) \/ (ls = {} /\ lock' = lock), sig' = sig
  PROVE  OwnInv'
<1>1. CASE lock' = Unlocked(ls)
  BY <1>1, ReleaseOwned DEF FsInv, OwnInv
<1>2. CASE ls = {} /\ lock' = lock
  BY <1>2, KeepOwned DEF FsInv, OwnInv
<1> QED
  BY <1>1, <1>2

\* Every step of a call keeps the ownership.
LEMMA OwnedStep ==
  ASSUME Signalled = {}, FsInv, FsInv', OwnInv, NEW i \in Procs, Step(i)
  PROVE  OwnInv'
<1>1. /\ CallOK(i, proc[i]) /\ proc \in [Procs -> Call] /\ proc' \in [Procs -> Call]
      /\ proc[i] \in Call /\ proc'[i] \in Call /\ ~sig[i]
  BY DEF FsInv, CallsInv, TypeOK, OwnInv
<1>2. CASE Acquire(i)
  BY <1>2, AcquireOwned DEF OwnInv, Acquire
<1>3. CASE Interrupted(i)
  BY <1>1, <1>3 DEF Interrupted
<1>4. ASSUME NEW l, proc'[i].pc = l, proc'[i].op = proc[i].op,
             \A j \in Procs : j # i => proc'[j] = proc[j],
             NEW ls, ls \subseteq HeldBy(proc[i]),
             HeldBy([pc |-> l, op |-> proc[i].op]) = HeldBy(proc[i]) \ ls,
             lock' = Unlocked(ls) \/ (ls = {} /\ lock' = lock), sig' = sig
      PROVE  OwnInv'
  <2>1. PICK c \in Call : c = proc'[i]
    BY <1>1
  <2>2. proc' = [proc EXCEPT ![i] = c]
    BY <1>1, <1>4, <2>1
  <2>3. HeldBy(c) = HeldBy(proc[i]) \ ls
    BY <1>4, <2>1 DEF HeldBy
  <2> QED
    BY <1>4, <2>1, <2>2, <2>3, AdvanceOwned
<1>5. CASE Count(i)
  <2>1. proc[i].pc = "count" /\ proc[i].op = "create"
    BY <1>1, <1>5 DEF Count, CallOK, Creating
  <2>2. HeldBy(proc[i]) = {"dir", "ino"}
    BY <2>1 DEF HeldBy
  <2>3. CASE lock' = Unlocked({"ino", "dir"}) /\ Return(i, "ENOSPC")
    <3>1. {"dir", "ino"} = {"ino", "dir"}
      OBVIOUS
    <3> QED
      BY <2>2, <2>3, <3>1, ReturnOwned
  <2>4. ASSUME NEW new, proc' = [proc EXCEPT ![i].pc = "search", ![i].new = new],
               lock' = Unlocked({"ino"}), sig' = sig
        PROVE  OwnInv'
    <3>1. /\ proc'[i].pc = "search" /\ proc'[i].op = proc[i].op
          /\ \A j \in Procs : j # i => proc'[j] = proc[j]
          /\ lock' = Unlocked({"ino"}) /\ sig' = sig
      BY <1>1, <2>4 DEF Call
    <3>2. HeldBy([pc |-> "search", op |-> proc[i].op]) = HeldBy(proc[i]) \ {"ino"}
      BY <2>1 DEF HeldBy
    <3> QED
      BY <1>4, <2>2, <3>1, <3>2
  <2> QED
    BY <1>5, <2>3, <2>4 DEF Count
<1>6. CASE Search(i)
  <2>1. proc[i].pc = "search" /\ proc[i].op = "create"
    BY <1>1, <1>6 DEF Search, CallOK, Creating
  <2>2. /\ proc'[i].pc \in {"lock_free", "lock_add"} /\ proc'[i].op = proc[i].op
        /\ \A j \in Procs : j # i => proc'[j] = proc[j]
        /\ lock' = lock /\ sig' = sig
    <3>1. lock' = lock /\ sig' = sig
      BY <1>6 DEF Search
    <3> DEFINE s0 == store[Min(SlotsOf(store, 0))]
               fd0 == IF Holes(Parent[proc[i].path]) = {} THEN "elsewhere"
                      ELSE "samedir"
    <3>2. \/ Go(i, "lock_free")
          \/ proc' = [proc EXCEPT
               ![i].pc = "lock_add",
               ![i].new = [@ EXCEPT !.ino = s0.dead, !.block = s0.block],
               ![i].found = fd0]
      BY <1>6 DEF Search
    <3> HIDE DEF s0, fd0
    <3>3. ASSUME NEW s, NEW fd, proc' = [proc EXCEPT
                   ![i].pc = "lock_add",
                   ![i].new = [@ EXCEPT !.ino = s.dead, !.block = s.block],
                   ![i].found = fd]
          PROVE  /\ proc'[i].pc = "lock_add" /\ proc'[i].op = proc[i].op
                 /\ \A j \in Procs : j # i => proc'[j] = proc[j]
      BY <1>1, <3>3 DEF Call
    <3>4. ASSUME Go(i, "lock_free")
          PROVE  /\ proc'[i].pc = "lock_free" /\ proc'[i].op = proc[i].op
                 /\ \A j \in Procs : j # i => proc'[j] = proc[j]
      BY <1>1, <3>4 DEF Call
    <3> QED
      BY <3>1, <3>2, <3>3, <3>4
  <2>3. \A l \in {"lock_free", "lock_add"} :
          HeldBy([pc |-> l, op |-> proc[i].op]) = HeldBy(proc[i]) \ {}
    BY <2>1 DEF HeldBy
  <2> QED
    BY <1>4, <2>2, <2>3
<1>7. CASE TakeBlock(i)
  <2>1. proc[i].pc = "take_block" /\ proc[i].op = "create"
    BY <1>1, <1>7 DEF TakeBlock, CallOK, Creating
  <2>2. HeldBy(proc[i]) = {"sb", "dir"}
    BY <2>1 DEF HeldBy
  <2>3. CASE lock' = Unlocked({"sb", "dir"}) /\ Return(i, "ENOSPC")
    BY <2>2, <2>3, ReturnOwned
  <2>4. ASSUME NEW b, proc' = [proc EXCEPT ![i].pc = "lock_add",
                                           ![i].new = [@ EXCEPT !.block = b]],
               lock' = Unlocked({"sb"}), sig' = sig
        PROVE  OwnInv'
    <3>1. /\ proc'[i].pc = "lock_add" /\ proc'[i].op = proc[i].op
          /\ \A j \in Procs : j # i => proc'[j] = proc[j]
          /\ lock' = Unlocked({"sb"}) /\ sig' = sig
      BY <1>1, <2>4 DEF Call
    <3>2. HeldBy([pc |-> "lock_add", op |-> proc[i].op]) = HeldBy(proc[i]) \ {"sb"}
      BY <2>1 DEF HeldBy
    <3> QED
      BY <1>4, <2>2, <3>1, <3>2
  <2> QED
    BY <1>7, <2>3, <2>4 DEF TakeBlock
<1>8. CASE Add(i)
  <2>1. proc[i].pc = "add" /\ proc[i].op = "create"
    BY <1>1, <1>8 DEF Add, CallOK, Creating
  <2>2. /\ proc'[i].pc = "record" /\ proc'[i].op = proc[i].op
        /\ \A j \in Procs : j # i => proc'[j] = proc[j]
        /\ lock' = Unlocked({"ino", "sb"}) /\ sig' = sig
    BY <1>1, <1>8 DEF Add
  <2>3. /\ {"ino", "sb"} \subseteq HeldBy(proc[i])
        /\ HeldBy([pc |-> "record", op |-> proc[i].op]) = HeldBy(proc[i]) \ {"ino", "sb"}
    BY <2>1 DEF HeldBy
  <2> QED
    BY <1>4, <2>2, <2>3
<1>9. CASE Record(i)
  <2>1. proc[i].pc = "record" /\ proc[i].op = "create"
    BY <1>1, <1>9 DEF Record, CallOK, Creating
  <2>2. /\ proc'[i].pc = "lock_children" /\ proc'[i].op = proc[i].op
        /\ \A j \in Procs : j # i => proc'[j] = proc[j]
        /\ lock' = lock /\ sig' = sig
    BY <1>1, <1>9 DEF Record
  <2>3. HeldBy([pc |-> "lock_children", op |-> proc[i].op]) = HeldBy(proc[i]) \ {}
    BY <2>1 DEF HeldBy
  <2> QED
    BY <1>4, <2>2, <2>3
<1>10. CASE Children(i)
  <2>1. proc[i].pc = "children" /\ proc[i].op = "create"
    BY <1>1, <1>10 DEF Children, CallOK, Creating
  <2>2. CASE Saved(i, {}, "ok")
    BY <2>1, <2>2, SavedOwned
  <2>3. CASE Go(i, "lock_save") /\ UNCHANGED <<lock, sig>>
    <3>1. /\ proc'[i].pc = "lock_save" /\ proc'[i].op = proc[i].op
          /\ \A j \in Procs : j # i => proc'[j] = proc[j]
          /\ lock' = lock /\ sig' = sig
      BY <1>1, <2>3
    <3>2. HeldBy([pc |-> "lock_save", op |-> proc[i].op]) = HeldBy(proc[i]) \ {}
      BY <2>1 DEF HeldBy
    <3> QED
      BY <1>4, <3>1, <3>2
  <2> QED
    BY <1>10, <2>2, <2>3 DEF Children
<1>11. CASE Save(i)
  <2>1. proc[i].pc \in {"save", "save_rest"}
    BY <1>11 DEF Save
  <2>2. CASE Saved(i, {"sb"}, "EIO") \/ Saved(i, {"sb"}, "ok")
    BY <2>1, <2>2, SavedOwned
  <2>3. CASE /\ proc[i].pc = "save" /\ UNCHANGED <<dstore, core, lock, sig>>
             /\ \E k \in Slots : proc' = [proc EXCEPT ![i].pc = "save_rest", ![i].slot = k]
    <3>1. /\ proc'[i].pc = "save_rest" /\ proc'[i].op = proc[i].op
          /\ \A j \in Procs : j # i => proc'[j] = proc[j]
          /\ lock' = lock /\ sig' = sig
      BY <1>1, <2>3
    <3>2. HeldBy([pc |-> "save_rest", op |-> proc[i].op]) = HeldBy(proc[i]) \ {}
      BY <2>3 DEF HeldBy
    <3> QED
      BY <1>4, <3>1, <3>2
  <2>4. \A s \in SUBSET Slots : s # {} => Min(s) \in Slots
    <3> SUFFICES ASSUME NEW s \in SUBSET Slots, s # {} PROVE Min(s) \in Slots
      OBVIOUS
    <3>1. s \in SUBSET Nat
      BY DEF Slots
    <3> QED
      BY <3>1, MinFacts
  <2> QED
    BY <1>11, <2>2, <2>3, <2>4 DEF Save
<1>12. CASE Forget(i)
  <2>1. proc[i].pc = "forget" /\ proc[i].op = "unlink"
    BY <1>1, <1>12 DEF Forget, CallOK
  <2>2. HeldBy(proc[i]) = {} /\ lock' = lock /\ Return(i, "ok")
    BY <1>12, <2>1 DEF Forget, HeldBy
  <2>3. lock' = Unlocked(HeldBy(proc[i]))
    BY <2>2 DEF Unlocked, FsInv, TypeOK
  <2> QED
    BY <2>2, <2>3, ReturnOwned
<1>13. CASE Resize(i)
  <2>1. proc[i].pc = "resize" /\ proc[i].op = "write"
    BY <1>1, <1>13 DEF Resize, CallOK
  <2>2. /\ proc'[i].pc = "lock_save" /\ proc'[i].op = proc[i].op
        /\ \A j \in Procs : j # i => proc'[j] = proc[j]
        /\ lock' = lock /\ sig' = sig
    BY <1>1, <1>13 DEF Resize
  <2>3. HeldBy([pc |-> "lock_save", op |-> proc[i].op]) = HeldBy(proc[i]) \ {}
    BY <2>1 DEF HeldBy
  <2> QED
    BY <1>4, <2>2, <2>3
<1> QED
  BY <1>2, <1>3, <1>5, <1>6, <1>7, <1>8, <1>9, <1>10, <1>11, <1>12, <1>13 DEF Step

\* And so does every step of the system.
LEMMA OwnedNext ==
  ASSUME Signalled = {}, FsInv, FsInv', OwnInv, [Next]_vars
  PROVE  OwnInv'
<1>1. CASE UNCHANGED vars
  BY <1>1 DEF vars, OwnInv, Owned, Holds
<1>2. ASSUME NEW i \in Procs, Step(i) PROVE OwnInv'
  BY <1>2, OwnedStep
<1>3. ASSUME NEW i \in Procs, Signal(i) PROVE OwnInv'
  BY <1>3 DEF Signal
<1>4. ASSUME NEW i \in Procs, NEW p \in Paths,
             Create(i, p) \/ Unlink(i, p) \/ Write(i, p)
      PROVE  OwnInv'
  <2>1. /\ CallOK(i, proc[i]) /\ proc \in [Procs -> Call] /\ proc[i].pc = "idle"
        /\ lock' = lock /\ sig' = sig
    BY <1>4 DEF Create, Unlink, Write, Enter, FsInv, TypeOK, CallsInv
  <2>2. \/ proc' = proc
        \/ \E l \in {"lock_dir", "lock_size"}, o \in {"create", "write"} :
             proc' = [proc EXCEPT ![i].pc = l, ![i].op = o, ![i].path = p,
                                  ![i].ret = "none"]
               /\ (l = "lock_size" => o = "write")
        \/ proc' = [proc EXCEPT ![i].pc = "lock_save", ![i].op = "unlink",
                                ![i].path = p, ![i].ret = "none"]
    BY <1>4 DEF Create, Unlink, Write, Enter
  <2>3. /\ \A j \in Procs : j # i => proc'[j] = proc[j]
        /\ proc'[i].pc \in {"idle", "lock_dir", "lock_save", "lock_size"}
        /\ proc'[i].pc = "idle" => proc'[i] = proc[i]
        /\ proc'[i].pc = "lock_save" => proc'[i].op = "unlink"
        /\ proc'[i].pc = "lock_size" => proc'[i].op = "write"
    BY <2>1, <2>2 DEF Call
  <2>4. HeldBy(proc[i]) = {} /\ HeldBy(proc'[i]) = {}
    BY <2>1, <2>3 DEF HeldBy, CallOK
  <2> QED
    BY <2>1, <2>3, <2>4 DEF OwnInv, Owned, Holds
<1>5. ASSUME NEW p \in Paths, Lookup(p) \/ Evict(p) PROVE OwnInv'
  BY <1>5 DEF Lookup, Evict, OwnInv, Owned, Holds
<1>6. CASE Writeback
  BY <1>6 DEF Writeback, OwnInv, Owned, Holds
<1>7. CASE CrashAndMount
  <2>1. HeldBy(Idle) = {}
    BY DEF HeldBy, Idle
  <2> QED
    BY <1>7, <2>1 DEF CrashAndMount, OwnInv, Owned, Holds
<1> QED
  BY <1>1, <1>2, <1>3, <1>4, <1>5, <1>6, <1>7 DEF Next

\* Where nobody sends signals, the three mutexes really exclude: whoever is in
\* a section of a mutex holds it, alone, on every path of create, mkdir,
\* unlink and write, and whoever holds it is in one.
THEOREM LocksExclude ==
  ASSUME Signalled = {}
  PROVE  Spec => []LocksAreOwned
<1>1. Init => OwnInv
  <2>1. HeldBy(Idle) = {}
    BY DEF HeldBy, Idle
  <2> QED
    BY <2>1 DEF Init, OwnInv, Owned, Holds
<1>2. FsInv /\ FsInv' /\ OwnInv /\ [Next]_vars => OwnInv'
  BY OwnedNext
<1>3. FsInv /\ OwnInv => LocksAreOwned
  BY DEF FsInv, TypeOK, OwnInv, Owned, LocksAreOwned
<1> QED
  BY <1>1, <1>2, <1>3, Inductive, PTL DEF Spec

\* The super block mutex among them: as long as no signal arrives, whoever is
\* between a lock and an unlock of simplefs_sb_lock holds it, on every path:
\* the search and the update of free_blocks, inode_add and inode_save.  The
\* comment at simple.c:21-22 asks for more: get_dead_inode_no,
\* simplefs_sb_get_objects_count and simplefs_get_inode read inodes_count
\* without the mutex (simple.c:85, 197, 295), and of these the corollary says
\* nothing.
COROLLARY SuperBlockExclusive ==
  ASSUME Signalled = {}
  PROVE  Spec => []SuperBlockIsLocked
<1>1. FsInv /\ LocksAreOwned => SuperBlockIsLocked
  BY DEF FsInv, TypeOK, LocksAreOwned, SuperBlockIsLocked, Locks
<1> QED
  BY <1>1, LocksExclude, Inductive, PTL
-----------------------------------------------------------------------------
(* No block and no inode number is given out twice.                        *)

\* Whoever unlinks is the only one who creates: get_dead_inode_no reads the
\* store without a lock.
NobodyCreatesBeside ==
  \A i, j \in Procs : i # j /\ "unlink" \in May[i] => "create" \notin May[j]

\* What holds until the machine first stops is looked at up to then: a crash
\* separates the object count, which is written through, from the store.
LEMMA StillUp ==
  ASSUME FsInv, [Next]_vars, crashes' = 0
  PROVE  crashes = 0 /\ ~CrashAndMount
<1>1. crashes \in Nat
  BY DEF FsInv, TypeOK
<1>2. ASSUME NEW i \in Procs, Step(i) PROVE crashes' = crashes
  <2>1. CASE Acquire(i) \/ Interrupted(i)
    BY <2>1 DEF Acquire, Interrupted
  <2>2. CASE Count(i) \/ Search(i)
    BY <2>2 DEF Count, Search
  <2>3. CASE TakeBlock(i) \/ Add(i)
    BY <2>3 DEF TakeBlock, Add
  <2>4. CASE Record(i) \/ Children(i) \/ Resize(i)
    BY <2>4 DEF Record, Children, Resize
  <2>5. CASE Save(i) \/ Forget(i)
    BY <2>5 DEF Save, Forget
  <2> QED
    BY <1>2, <2>1, <2>2, <2>3, <2>4, <2>5 DEF Step
<1>3. ASSUME NEW i \in Procs, NEW p \in Paths, Create(i, p) \/ Unlink(i, p) \/ Write(i, p)
      PROVE  crashes' = crashes
  BY <1>3 DEF Create, Unlink, Write, Enter
<1>4. ASSUME NEW p \in Paths, Lookup(p) \/ Evict(p) PROVE crashes' = crashes
  <2>1. Lookup(p) => crashes' = crashes
    BY DEF Lookup
  <2>2. Evict(p) => crashes' = crashes
    BY DEF Evict
  <2> QED
    BY <1>4, <2>1, <2>2
<1>5. ASSUME NEW i \in Procs, Signal(i) PROVE crashes' = crashes
  BY <1>5 DEF Signal
<1>6. Writeback => crashes' = crashes
  BY DEF Writeback
<1>7. UNCHANGED vars => crashes' = crashes
  BY DEF vars
<1>8. ~CrashAndMount
  BY <1>1 DEF CrashAndMount
<1> QED
  BY <1>2, <1>3, <1>4, <1>5, <1>6, <1>7, <1>8 DEF Next

\* The number an inode has or, when it is dead, had; and the number that every
\* inode of slot k has, since only the object count decides it.
Number(o) == IF o.ino = 0 THEN o.dead ELSE o.ino
SlotNo(k) == IF k = 0 THEN ROOTDIR_INODE ELSE IF k = 1 THEN 2 ELSE k + FirstIno

\* Block b is given to inode number n, for good: owner says who got each block.
\* The search may reach b past the width of an int by a bit that is then clear.
Given(owner, b, n) ==
  /\ b \in Blocks /\ owner[b] = n /\ n # 0
  /\ IF n = ROOTDIR_INODE THEN b = 2 ELSE b \notin sb.free \cup {0, 1, 2}
  /\ b >= IntBits => b % IntBits \notin sb.free

\* What a copy of the inode store says agrees with owner.
SlotsGiven(owner, s) ==
  \A k \in Slots : s[k] # NoInode =>
    /\ k < sb.count /\ Given(owner, s[k].block, SlotNo(k))
    /\ s[k].ino # 0 => s[k].ino = SlotNo(k)
    /\ k = 0 => s[k].ino = ROOTDIR_INODE /\ s[k].mode = "dir"

\* A dead slot remembers its number, but for the moment in which the copy of
\* the dead inode is half done.
Copying(k) == \E i \in Procs : proc[i].pc = "save_rest" /\ proc[i].slot = k
StoreFull ==
  /\ sb.count > 1
  /\ \A k \in Slots : k < sb.count =>
       /\ store[k] # NoInode
       /\ store[k].ino = 0 /\ ~Copying(k) => store[k].dead = SlotNo(k)

\* The in-core inode of a path, and the path of an unlink.
CoreGiven(owner, o) == /\ Given(owner, o.block, Number(o))
                       /\ Number(o) = ROOTDIR_INODE => o.mode = "dir"
Unlinking(p) == \E i \in Procs : proc[i].op = "unlink" /\ proc[i].path = p
CoresGiven(owner) ==
  \A p \in Paths : core[p] # NoInode =>
    CoreGiven(owner, core[p]) /\ (core[p].ino = 0 => Unlinking(p))

\* What call c of i holds in hand: a number to come, or a number and a block.
Placed == {"lock_add", "lock_add_sb", "add", "record", "lock_children",
           "children", "lock_save", "save"}
CallGiven(owner, i, c) ==
  /\ c.op \in May[i] \cup {"none"}
  /\ c.op = "unlink" => core[c.path].ino = 0
  /\ c.pc = "save_rest" => /\ c.op = "unlink" /\ c.slot < sb.count
                           /\ core[c.path].dead = SlotNo(c.slot)
  /\ c.pc \in Counted /\ c.found = "none" => c.new.ino = sb.count + FirstIno
  /\ c.pc \in {"idle", "lock_dir", "lock_count", "count", "search", "lock_free",
               "take_block"} => c.found = "none"
  /\ c.op = "create" /\ c.pc \in Placed =>
       Given(owner, c.new.block, c.new.ino) /\ c.new.ino # ROOTDIR_INODE

\* The bits past the width of an int go all together.
WideTogether == \A c \in sb.free : c >= IntBits => IntBits - 1 \in sb.free

AllocInv(owner) ==
  /\ SlotsGiven(owner, store) /\ SlotsGiven(owner, dstore) /\ StoreFull
  /\ CoresGiven(owner) /\ WideTogether
  /\ \A i \in Procs : CallGiven(owner, i, proc[i])
Allocated == \E owner \in [Blocks -> Nat] : AllocInv(owner)

\* Slots have different numbers.
LEMMA SlotNoFacts ==
  /\ \A k, m \in Slots : SlotNo(k) = SlotNo(m) => k = m
  /\ \A k \in Slots : /\ SlotNo(k) \in Nat \ {0}
                      /\ SlotNo(k) = ROOTDIR_INODE <=> k = 0
                      /\ k > 1 => SlotNo(k) = k + FirstIno
BY DEF Slots, SlotNo, ROOTDIR_INODE, FirstIno

\* What is given is given once.
LEMMA GivenOnce ==
  ASSUME FsInv, NEW owner, AllocInv(owner)
  PROVE  GivenOutOnce
<1>1. ASSUME NEW s \in [Slots -> Inode], SlotsGiven(owner, s)
      PROVE  BlocksDisjointIn(s)
  <2> SUFFICES ASSUME NEW k \in Slots, k < sb.count, s[k] # NoInode
               PROVE  /\ IF s[k].ino = ROOTDIR_INODE THEN s[k].block = 2
                         ELSE s[k].block \in Blocks \ (sb.free \cup {0, 1, 2})
                      /\ \A m \in Slots : m < sb.count /\ m # k =>
                                            s[m].block # s[k].block
    BY DEF BlocksDisjointIn
  <2>1. /\ Given(owner, s[k].block, SlotNo(k))
        /\ s[k].ino # 0 => s[k].ino = SlotNo(k)
        /\ k = 0 => s[k].ino = ROOTDIR_INODE
    BY <1>1 DEF SlotsGiven
  <2>2. s[k].ino = ROOTDIR_INODE <=> SlotNo(k) = ROOTDIR_INODE
    BY <2>1, SlotNoFacts DEF ROOTDIR_INODE
  <2>3. s[k].block # 0
    BY <2>1 DEF Given
  <2>4. ASSUME NEW m \in Slots, m < sb.count, m # k
        PROVE  s[m].block # s[k].block
    <3>1. CASE s[m] = NoInode
      BY <2>3, <3>1 DEF NoInode
    <3>2. CASE s[m] # NoInode
      <4>1. Given(owner, s[m].block, SlotNo(m))
        BY <1>1, <3>2 DEF SlotsGiven
      <4> QED
        BY <2>1, <2>4, <4>1, SlotNoFacts DEF Given
    <3> QED
      BY <3>1, <3>2
  <2> QED
    BY <2>1, <2>2, <2>4 DEF Given
<1>2. InodesDistinct
  <2> SUFFICES ASSUME NEW k \in Used(store), NEW m \in Used(store), k # m
               PROVE  store[k].ino # store[m].ino
    BY DEF InodesDistinct
  <2>1. k \in Slots /\ m \in Slots /\ store[k].ino # 0 /\ store[m].ino # 0
    BY DEF Used
  <2>2. store[k].ino = SlotNo(k) /\ store[m].ino = SlotNo(m)
    BY <2>1, InodeFacts DEF AllocInv, SlotsGiven, NoInode
  <2> QED
    BY <2>1, <2>2, SlotNoFacts
<1> QED
  BY <1>1, <1>2 DEF FsInv, TypeOK, AllocInv, GivenOutOnce, BlocksDisjoint,
                    DiskBlocksDisjoint

\* The image of mkfs-simplefs gives block 2 to the root and block 3 to the
\* welcome file.
LEMMA AllocInit ==
  Init => Allocated
<1> SUFFICES ASSUME Init PROVE Allocated
  OBVIOUS
<1> DEFINE root == [mode |-> "dir", ino |-> ROOTDIR_INODE, dead |-> 0, block |-> 2,
                    size |-> 1]
           welcome == [mode |-> "file", ino |-> 2, dead |-> 0, block |-> 3,
                       size |-> 1]
           owner == [b \in Blocks |-> IF b = 2 THEN 1 ELSE IF b = 3 THEN 2 ELSE 0]
<1>1. /\ sb.count = 2 /\ sb.free = Blocks \ {3}
      /\ store = [k \in Slots |-> IF k = 0 THEN root
                                  ELSE IF k = 1 THEN welcome ELSE NoInode]
      /\ dstore = store
      /\ core = [p \in Paths |-> IF p = Root THEN root ELSE NoInode]
      /\ \A i \in Procs : proc[i] = Idle
  BY DEF Init
<1>2. /\ Given(owner, 2, 1) /\ Given(owner, 3, 2)
  BY <1>1 DEF Given, ROOTDIR_INODE
<1>3. /\ root.block = 2 /\ root.ino = 1 /\ root # NoInode /\ root.mode = "dir"
      /\ welcome.block = 3 /\ welcome.ino = 2 /\ welcome # NoInode
  BY DEF NoInode, ROOTDIR_INODE
<1>4. /\ Idle.pc = "idle" /\ Idle.op = "none" /\ Idle.found = "none"
  BY DEF Idle
<1>5. owner \in [Blocks -> Nat]
  OBVIOUS
<1> HIDE DEF root, welcome, owner
<1>6. SlotsGiven(owner, store) /\ SlotsGiven(owner, dstore)
  BY <1>1, <1>2, <1>3 DEF SlotsGiven, SlotNo, ROOTDIR_INODE, Slots
<1>7. StoreFull
  BY <1>1, <1>3 DEF StoreFull, Slots
<1>8. CoresGiven(owner)
  BY <1>1, <1>2, <1>3 DEF CoresGiven, CoreGiven, Number, ROOTDIR_INODE
<1>9. WideTogether
  <2> SUFFICES ASSUME NEW c \in Blocks, c >= IntBits
               PROVE  IntBits - 1 \in Blocks \ {3}
    BY <1>1 DEF WideTogether
  <2>1. c \in Nat /\ IntBits - 1 \in 0 .. c /\ 0 .. c \subseteq Blocks
    BY RangeAssumption
  <2> QED
    BY <2>1
<1>10. \A i \in Procs : CallGiven(owner, i, proc[i])
  BY <1>1, <1>4 DEF CallGiven, Counted, Placed
<1> QED
  BY <1>5, <1>6, <1>7, <1>8, <1>9, <1>10 DEF Allocated, AllocInv

\* A step of the processes I leaves the other calls alone; the in-core inodes
\* that it touches are given, and no unlink loses its inode.
Gentle(owner, I) ==
  /\ \A j \in Procs \ I :
       /\ proc'[j] = proc[j]
       /\ proc[j].op = "unlink" => core'[proc[j].path] = core[proc[j].path]
  /\ \A i \in I : proc[i].op = "unlink" =>
       \/ core'[proc[i].path] = NoInode
       \/ proc'[i].op = "unlink" /\ proc'[i].path = proc[i].path
  /\ \A p \in Paths :
       \/ core'[p] = NoInode \/ core'[p] = core[p]
       \/ CoreGiven(owner, core'[p]) /\ core'[p].ino # 0
       \/ /\ core'[p].block = core[p].block /\ core'[p].mode = core[p].mode
          /\ Number(core'[p]) = Number(core[p]) /\ core[p] # NoInode
          /\ core'[p].ino = 0 =>
               \/ core[p].ino = 0
               \/ \E i \in I : proc'[i].op = "unlink" /\ proc'[i].path = p

\* Such a step keeps the calls and the in-core inodes given, when what was
\* given stays so and nobody else has read an object count that changes.
LEMMA GentleAlloc ==
  ASSUME FsInv, NEW owner, NEW after, AllocInv(owner), NEW I \in SUBSET Procs,
         \A b, n : Given(owner, b, n) => Given(after, b, n)',
         sb'.count \in Nat, sb'.count >= sb.count,
         \A j \in Procs \ I : proc[j].pc \in Counted /\ proc[j].found = "none"
                                => sb'.count = sb.count,
         Gentle(owner, I),
         \A i \in I : CallGiven(after, i, proc[i])'
  PROVE  CoresGiven(after)' /\ \A i \in Procs : CallGiven(after, i, proc[i])'
<1>1. \A o : CoreGiven(owner, o) => CoreGiven(after, o)'
  BY DEF CoreGiven
<1>2. CoresGiven(after)'
  <2> SUFFICES ASSUME NEW p \in Paths, core'[p] # NoInode
               PROVE  /\ CoreGiven(after, core[p])'
                      /\ core'[p].ino = 0 => Unlinking(p)'
    BY DEF CoresGiven
  <2>1. core[p] # NoInode => /\ CoreGiven(owner, core[p])
                             /\ core[p].ino = 0 => Unlinking(p)
    BY DEF AllocInv, CoresGiven
  <2>2. Unlinking(p) => Unlinking(p)'
    <3> SUFFICES ASSUME NEW j \in Procs, proc[j].op = "unlink", proc[j].path = p
                 PROVE  \E h \in Procs : proc'[h].op = "unlink" /\ proc'[h].path = p
      BY DEF Unlinking
    <3> QED
      BY DEF Gentle
  <2>3. (\E i \in I : proc'[i].op = "unlink" /\ proc'[i].path = p) => Unlinking(p)'
    BY DEF Unlinking
  <2>4. CoreGiven(owner, core'[p]) => CoreGiven(after, core[p])'
    BY DEF CoreGiven
  <2>5. CASE core'[p] = core[p]
    BY <2>1, <2>2, <2>4, <2>5
  <2>6. CASE CoreGiven(owner, core'[p]) /\ core'[p].ino # 0
    BY <2>4, <2>6
  <2>7. CASE /\ core'[p].block = core[p].block /\ core'[p].mode = core[p].mode
             /\ Number(core'[p]) = Number(core[p]) /\ core[p] # NoInode
             /\ core'[p].ino = 0 =>
                  \/ core[p].ino = 0
                  \/ \E i \in I : proc'[i].op = "unlink" /\ proc'[i].path = p
    <3>1. CoreGiven(owner, core'[p])
      BY <2>1, <2>7 DEF CoreGiven
    <3> QED
      BY <2>1, <2>2, <2>3, <2>4, <2>7, <3>1
  <2> QED
    BY <2>5, <2>6, <2>7 DEF Gentle
<1>3. ASSUME NEW j \in Procs, j \notin I PROVE CallGiven(after, j, proc[j])'
  <2>1. CallGiven(owner, j, proc[j]) /\ proc'[j] = proc[j]
    BY <1>3 DEF AllocInv, Gentle
  <2>2. proc[j].op = "unlink" => core'[proc[j].path] = core[proc[j].path]
    BY <1>3 DEF Gentle
  <2>3. proc[j].pc \in Counted /\ proc[j].found = "none" => sb'.count = sb.count
    BY <1>3
  <2>4. proc[j].slot \in Nat /\ sb.count \in Nat
    BY CallFacts DEF FsInv, TypeOK, Slots
  <2>5. proc[j].slot < sb.count => proc[j].slot < sb'.count
    BY <2>4
  <2> QED
    BY <2>1, <2>2, <2>3, <2>5 DEF CallGiven
<1> QED
  BY <1>2, <1>3

\* A gentle step that leaves the super block and the store alone.
LEMMA QuietAlloc ==
  ASSUME FsInv, NEW owner, AllocInv(owner), NEW I \in SUBSET Procs,
         \A i \in I : proc[i].pc # "save_rest" /\ proc'[i].pc # "save_rest",
         sb' = sb, store' = store, dstore' \in {dstore, store},
         Gentle(owner, I),
         \A i \in I : CallGiven(owner, i, proc[i])'
  PROVE  AllocInv(owner)'
<1>1. \A b, n : Given(owner, b, n)' <=> Given(owner, b, n)
  BY DEF Given
<1>2. SlotsGiven(owner, store)' /\ SlotsGiven(owner, dstore)'
  BY <1>1 DEF AllocInv, SlotsGiven
<1>3. \A k : Copying(k) => Copying(k)'
  BY DEF Copying, Gentle
<1>4. StoreFull'
  BY <1>3 DEF AllocInv, StoreFull
<1>5. WideTogether'
  BY DEF AllocInv, WideTogether
<1>6. sb.count \in Nat
  BY DEF FsInv, TypeOK
<1>7. CoresGiven(owner)' /\ \A i \in Procs : CallGiven(owner, i, proc[i])'
  BY <1>1, <1>6, GentleAlloc
<1> QED
  BY <1>2, <1>4, <1>5, <1>7 DEF AllocInv

\* The call of i after a step that only moves it, and after its return.
LEMMA MovedCall ==
  ASSUME FsInv, NEW i \in Procs, NEW l, Go(i, l)
  PROVE  /\ proc'[i].pc = l /\ proc'[i].op = proc[i].op
         /\ proc'[i].path = proc[i].path /\ proc'[i].new = proc[i].new
         /\ proc'[i].found = proc[i].found /\ proc'[i].slot = proc[i].slot
         /\ \A j \in Procs \ {i} : proc'[j] = proc[j]
BY DEF FsInv, TypeOK, Call

\* A call that returns has nothing in hand.
LEMMA ReturnedCall ==
  ASSUME FsInv, NEW owner, NEW i \in Procs, NEW code, Return(i, code)
  PROVE  /\ proc'[i].pc = "idle" /\ proc'[i].op = "none"
         /\ \A j \in Procs \ {i} : proc'[j] = proc[j]
         /\ CallGiven(owner, i, proc[i])'
<1>1. proc'[i] = [Idle EXCEPT !.ret = code] /\ \A j \in Procs \ {i} : proc'[j] = proc[j]
  BY DEF FsInv, TypeOK, Return
<1>2. /\ [Idle EXCEPT !.ret = code].pc = "idle" /\ [Idle EXCEPT !.ret = code].op = "none"
      /\ [Idle EXCEPT !.ret = code].found = "none"
  BY DEF Idle
<1> QED
  BY <1>1, <1>2 DEF CallGiven, Counted, Placed

\* A call that returns, and touches no inode in core.
LEMMA ReturnAlloc ==
  ASSUME FsInv, NEW owner, AllocInv(owner), NEW i \in Procs, NEW code,
         Return(i, code), proc[i].pc # "save_rest", proc[i].op # "unlink",
         UNCHANGED <<sb, store, dstore, core>>
  PROVE  AllocInv(owner)'
<1>1. Gentle(owner, {i})
  BY ReturnedCall DEF Gentle
<1>2. proc'[i].pc = "idle" /\ CallGiven(owner, i, proc[i])'
  BY ReturnedCall
<1> QED
  BY <1>1, <1>2, QuietAlloc

\* A call that moves on to label l, and touches no inode in core.
LEMMA MoveAlloc ==
  ASSUME FsInv, NEW owner, AllocInv(owner), NEW i \in Procs, NEW l, Go(i, l),
         proc[i].pc # "save_rest", l # "save_rest",
         l \in Counted => proc[i].pc \in Counted,
         l \in {"idle", "lock_dir", "lock_count", "count", "search", "lock_free",
                "take_block"} => proc[i].found = "none",
         proc[i].op = "create" /\ l \in Placed => proc[i].pc \in Placed,
         UNCHANGED <<sb, store, dstore, core>>
  PROVE  AllocInv(owner)'
<1>1. Gentle(owner, {i})
  BY MovedCall DEF Gentle
<1>2. CallGiven(owner, i, proc[i])
  BY DEF AllocInv
<1>3. CallGiven(owner, i, proc[i])'
  BY <1>2, MovedCall DEF CallGiven, Given
<1> QED
  BY <1>1, <1>3, MovedCall, QuietAlloc

\* Taking a mutex gives nothing out.
LEMMA AcquireAlloc ==
  ASSUME FsInv, NEW owner, AllocInv(owner), NEW i \in Procs, Acquire(i)
  PROVE  AllocInv(owner)'
<1>1. CallGiven(owner, i, proc[i]) /\ proc[i].pc \in DOMAIN LockOf
  BY DEF AllocInv, Acquire
<1>2. /\ proc[i].pc # "save_rest" /\ Then[proc[i].pc] # "save_rest"
      /\ Then[proc[i].pc] \in Counted => proc[i].pc \in Counted
      /\ Then[proc[i].pc] \in {"idle", "lock_dir", "lock_count", "count", "search",
           "lock_free", "take_block"} =>
           proc[i].pc \in {"lock_dir", "lock_count", "lock_free"}
      /\ Then[proc[i].pc] \in Placed \ {"save"} => proc[i].pc \in Placed
      /\ Then[proc[i].pc] = "save" => proc[i].pc = "lock_save"
  BY <1>1, LabelFacts DEF Then, LockOf, Counted, Placed
<1> QED
  BY <1>1, <1>2, MoveAlloc DEF Acquire, CallGiven, Placed

\* The end of a call that saves an inode: the call, and the in-core inodes.
LEMMA SavedCall ==
  ASSUME FsInv, NEW owner, AllocInv(owner), NEW i \in Procs, NEW held, NEW code,
         Saved(i, held, code),
         proc[i].pc \in {"children", "lock_save", "save", "save_rest"}, sb' = sb
  PROVE  /\ Gentle(owner, {i}) /\ CallGiven(owner, i, proc[i])'
         /\ proc'[i].pc # "save_rest"
         /\ \A j \in Procs \ {i} : proc'[j] = proc[j]
<1>1. CallGiven(owner, i, proc[i]) /\ CallOK(i, proc[i]) /\ CallsApart
  BY DEF AllocInv, FsInv, CallsInv
<1>2. CASE proc[i].op = "unlink"
  <2>1. /\ proc'[i].pc = "forget" /\ proc'[i].op = proc[i].op
        /\ proc'[i].path = proc[i].path /\ proc'[i].new = proc[i].new
        /\ \A j \in Procs \ {i} : proc'[j] = proc[j]
        /\ core' = core
    BY <1>2, MovedCall DEF Saved
  <2>2. CallGiven(owner, i, proc[i])'
    BY <1>1, <1>2, <2>1 DEF CallGiven, Counted, Placed
  <2> QED
    BY <1>2, <2>1, <2>2 DEF Gentle
<1>3. CASE proc[i].op # "unlink"
  <2>1. Return(i, code)
    BY <1>3 DEF Saved
  <2>2. /\ proc'[i].pc = "idle" /\ proc'[i].op = "none"
        /\ \A j \in Procs \ {i} : proc'[j] = proc[j]
        /\ CallGiven(owner, i, proc[i])'
    BY <2>1, ReturnedCall
  <2>3. \/ core' = core
        \/ /\ proc[i].op = "create"
           /\ core' = [core EXCEPT ![proc[i].path] = proc[i].new]
    BY <1>3 DEF Saved
  <2>4. CASE core' = core
    BY <1>3, <2>2, <2>4 DEF Gentle
  <2>5. CASE /\ proc[i].op = "create"
             /\ core' = [core EXCEPT ![proc[i].path] = proc[i].new]
    <3>1. proc[i].pc \in Placed
      BY <1>1, <2>5 DEF CallGiven, Placed
    <3>2. CoreGiven(owner, proc[i].new) /\ proc[i].new.ino # 0
      BY <1>1, <2>5, <3>1 DEF CallGiven, CoreGiven, Given, Number
    <3>3. \A j \in Procs \ {i} :
            proc[j].op = "unlink" => core'[proc[j].path] = core[proc[j].path]
      BY <1>1, <2>5 DEF CallsApart, FsInv, TypeOK
    <3>4. \A p \in Paths : core'[p] = core[p] \/ core'[p] = proc[i].new
      BY <2>5 DEF FsInv, TypeOK
    <3> QED
      BY <1>3, <2>2, <3>2, <3>3, <3>4 DEF Gentle
  <2> QED
    BY <2>3, <2>4, <2>5
<1> QED
  BY <1>2, <1>3

\* The end of a call, once its directory or file is saved.
LEMMA SavedAlloc ==
  ASSUME FsInv, NEW owner, AllocInv(owner), NEW i \in Procs, NEW held, NEW code,
         Saved(i, held, code), proc[i].pc \in {"children", "lock_save", "save"},
         UNCHANGED <<sb, store, dstore>>
  PROVE  AllocInv(owner)'
<1>1. /\ Gentle(owner, {i}) /\ CallGiven(owner, i, proc[i])'
      /\ proc'[i].pc # "save_rest"
  BY SavedCall
<1> QED
  BY <1>1, QuietAlloc

\* A failed mutex_lock_interruptible gives nothing out, whatever it unlocks.
LEMMA InterruptedAlloc ==
  ASSUME FsInv, NEW owner, AllocInv(owner), NEW i \in Procs, Interrupted(i)
  PROVE  AllocInv(owner)'
<1>1. /\ UNCHANGED <<sb, store, dstore>> /\ CallOK(i, proc[i])
      /\ CallGiven(owner, i, proc[i])
  BY DEF Interrupted, AllocInv, FsInv, CallsInv
<1>2. CASE /\ proc[i].pc \in {"lock_dir", "lock_size", "lock_count",
                              "lock_children", "lock_free"}
           /\ Return(i, "EINTR") /\ UNCHANGED core
  <2>1. proc[i].op # "unlink"
    BY <1>1, <1>2 DEF CallOK, Creating
  <2> QED
    BY <1>1, <1>2, <2>1, ReturnAlloc
<1>3. CASE /\ proc[i].pc \in {"lock_add", "lock_add_sb"}
           /\ Go(i, "record") /\ UNCHANGED core
  <2>1. "record" \notin Counted /\ proc[i].pc \in Placed
    BY <1>3 DEF Counted, Placed
  <2> QED
    BY <1>1, <1>3, <2>1, MoveAlloc
<1>4. CASE proc[i].pc = "lock_save" /\ Saved(i, {}, "EINTR")
  BY <1>1, <1>4, SavedAlloc
<1> QED
  BY <1>2, <1>3, <1>4 DEF Interrupted

\* The beginning of a call other than unlink.
LEMMA EnterAlloc ==
  ASSUME FsInv, NEW owner, AllocInv(owner), NEW i \in Procs,
         NEW op \in {"create", "write"}, NEW p, NEW l \in {"lock_dir", "lock_size"},
         Enter(i, op, p, l)
  PROVE  AllocInv(owner)'
<1>1. /\ proc'[i].pc = l /\ proc'[i].op = op /\ proc'[i].found = proc[i].found
      /\ \A j \in Procs \ {i} : proc'[j] = proc[j]
      /\ UNCHANGED <<sb, store, dstore, core>>
      /\ proc[i].pc = "idle" /\ op \in May[i]
  BY DEF Enter, FsInv, TypeOK, Call
<1>2. proc[i].found = "none" /\ proc[i].op = "none"
  BY <1>1 DEF AllocInv, CallGiven, FsInv, CallsInv, CallOK
<1>3. Gentle(owner, {i})
  BY <1>1, <1>2 DEF Gentle
<1>4. CallGiven(owner, i, proc[i])'
  BY <1>1, <1>2 DEF CallGiven, Counted, Placed
<1> QED
  BY <1>1, <1>3, <1>4, QuietAlloc

\* The number a create gets is that of the next slot.
LEMMA CountAlloc ==
  ASSUME FsInv, NEW owner, AllocInv(owner), NEW i \in Procs, Count(i)
  PROVE  AllocInv(owner)'
<1>1. /\ UNCHANGED <<sb, store, dstore, core>> /\ CallOK(i, proc[i])
      /\ CallGiven(owner, i, proc[i]) /\ proc[i].pc = "count"
      /\ proc[i].op = "create"
  BY DEF Count, AllocInv, FsInv, CallsInv, CallOK, Creating
<1>2. CASE Return(i, "ENOSPC")
  BY <1>1, <1>2, ReturnAlloc
<1>3. ASSUME NEW d \in Stale,
             proc' = [proc EXCEPT ![i].pc = "search",
                        ![i].new = [mode |-> Kind[proc[i].path],
                                    ino |-> sb.count + FirstIno,
                                    dead |-> d, block |-> 0, size |-> 0]]
      PROVE  AllocInv(owner)'
  <2>1. /\ proc'[i].pc = "search" /\ proc'[i].op = proc[i].op
        /\ proc'[i].found = proc[i].found
        /\ proc'[i].new.ino = sb.count + FirstIno
        /\ \A j \in Procs \ {i} : proc'[j] = proc[j]
    BY <1>3 DEF FsInv, TypeOK, Call
  <2>2. Gentle(owner, {i})
    BY <1>1, <2>1 DEF Gentle
  <2>3. CallGiven(owner, i, proc[i])'
    BY <1>1, <2>1 DEF CallGiven, Placed
  <2> QED
    BY <1>1, <2>1, <2>2, <2>3, QuietAlloc
<1> QED
  BY <1>2, <1>3 DEF Count

\* A dead slot that a create finds is whole, and not that of the root.
LEMMA DeadSlot ==
  ASSUME FsInv, NobodyCreatesBeside, NEW owner, AllocInv(owner), NEW i \in Procs,
         proc[i].op = "create", NEW k \in SlotsOf(store, 0)
  PROVE  /\ k \in Slots /\ k < sb.count /\ k # 0 /\ store[k].dead = SlotNo(k)
         /\ Given(owner, store[k].block, SlotNo(k))
<1>1. k \in Slots /\ k < sb.count /\ store[k].ino = 0
  BY DEF SlotsOf
<1>2. ~Copying(k)
  <2> SUFFICES ASSUME NEW j \in Procs, proc[j].pc = "save_rest" PROVE FALSE
    BY DEF Copying
  <2>1. /\ CallGiven(owner, j, proc[j]) /\ CallGiven(owner, i, proc[i])
    BY DEF AllocInv
  <2>2. "unlink" \in May[j] /\ "create" \in May[i] /\ i # j
    BY <2>1 DEF CallGiven
  <2> QED
    BY <2>2 DEF NobodyCreatesBeside
<1>3. store[k] # NoInode /\ store[k].dead = SlotNo(k)
  BY <1>1, <1>2 DEF AllocInv, StoreFull
<1> QED
  BY <1>1, <1>3 DEF AllocInv, SlotsGiven, ROOTDIR_INODE

\* A dead inode is taken again with its number and its block.
LEMMA SearchAlloc ==
  ASSUME FsInv, NobodyCreatesBeside, NEW owner, AllocInv(owner), NEW i \in Procs,
         Search(i)
  PROVE  AllocInv(owner)'
<1> DEFINE dead == SlotsOf(store, 0)
           s == store[Min(dead)]
           d == Parent[proc[i].path]
<1>1. /\ UNCHANGED <<sb, store, dstore, core>> /\ CallOK(i, proc[i])
      /\ CallGiven(owner, i, proc[i]) /\ proc[i].pc = "search"
      /\ proc[i].op = "create" /\ proc[i].found = "none"
  BY DEF Search, AllocInv, FsInv, CallsInv, CallOK, Creating, CallGiven
<1>2. CASE Go(i, "lock_free")
  <2>1. proc[i].pc \in Counted /\ "lock_free" \notin Placed
    BY <1>1 DEF Counted, Placed
  <2> QED
    BY <1>1, <1>2, <2>1, MoveAlloc
<1>3. CASE /\ dead # {}
           /\ proc' = [proc EXCEPT ![i].pc = "lock_add",
                         ![i].new = [@ EXCEPT !.ino = s.dead, !.block = s.block],
                         ![i].found = IF Holes(d) = {} THEN "elsewhere"
                                      ELSE "samedir"]
  <2> DEFINE fd == IF Holes(d) = {} THEN "elsewhere" ELSE "samedir"
  <2>1. /\ proc'[i].pc = "lock_add" /\ proc'[i].op = proc[i].op
        /\ proc'[i].new.ino = s.dead /\ proc'[i].new.block = s.block
        /\ \A j \in Procs \ {i} : proc'[j] = proc[j]
    BY <1>3 DEF FsInv, TypeOK, Call, Inode
  <2>2. proc'[i].found # "none"
    <3>1. fd # "none"
      OBVIOUS
    <3>2. proc'[i].found = fd
      BY <1>3 DEF FsInv, TypeOK, Call
    <3> QED
      BY <3>1, <3>2
  <2>3. Min(dead) \in dead
    <3>1. dead \in SUBSET Nat
      BY DEF SlotsOf, Slots
    <3> QED
      BY <1>3, <3>1, MinFacts
  <2>4. /\ Min(dead) \in Slots /\ Min(dead) # 0 /\ s.dead = SlotNo(Min(dead))
        /\ Given(owner, s.block, SlotNo(Min(dead)))
    BY <1>1, <2>3, DeadSlot
  <2>5. Given(owner, s.block, s.dead) /\ s.dead # ROOTDIR_INODE
    BY <2>4, SlotNoFacts
  <2> HIDE DEF dead, s
  <2>6. Gentle(owner, {i})
    BY <1>1, <2>1 DEF Gentle
  <2>7. Given(owner, proc[i].new.block, proc[i].new.ino)'
    BY <1>1, <2>1, <2>5 DEF Given
  <2>8. CallGiven(owner, i, proc[i])'
    BY <1>1, <2>1, <2>2, <2>5, <2>7 DEF CallGiven
  <2> QED
    BY <1>1, <2>1, <2>6, <2>8, QuietAlloc
<1> QED
  BY <1>2, <1>3 DEF Search

\* The steps that touch only directories, sizes and the inodes in core.
LEMMA RecordAlloc ==
  ASSUME FsInv, NEW owner, AllocInv(owner), NEW i \in Procs, Record(i)
  PROVE  AllocInv(owner)'
BY MoveAlloc DEF Record, Counted, Placed

\* The size of one inode in core changes, and it is not being unlinked.
LEMMA SizeAlloc ==
  ASSUME FsInv, NEW owner, AllocInv(owner), NEW i \in Procs, NEW q \in Paths, NEW n,
         core' = [core EXCEPT ![q].size = n], core[q] # NoInode,
         proc[i].op # "unlink",
         \A j \in Procs : proc[j].op = "unlink" => proc[j].path # q,
         \A j \in Procs \ {i} : proc'[j] = proc[j]
  PROVE  Gentle(owner, {i})
<1>1. /\ core'[q].block = core[q].block /\ core'[q].mode = core[q].mode
      /\ core'[q].ino = core[q].ino /\ core'[q].dead = core[q].dead
      /\ \A p \in Paths : p # q => core'[p] = core[p]
  BY DEF FsInv, TypeOK, Inode
<1>2. Number(core'[q]) = Number(core[q])
  BY <1>1 DEF Number
<1>3. \A j \in Procs : proc[j].path \in Paths
  BY CallFacts DEF FsInv, TypeOK
<1> QED
  BY <1>1, <1>2, <1>3 DEF Gentle

\* A directory that grows keeps its block and its number.
LEMMA ChildrenAlloc ==
  ASSUME FsInv, NEW owner, AllocInv(owner), NEW i \in Procs, Children(i)
  PROVE  AllocInv(owner)'
<1> DEFINE d == Parent[proc[i].path]
<1>1. /\ UNCHANGED <<sb, store, dstore>> /\ CallOK(i, proc[i])
      /\ CallGiven(owner, i, proc[i]) /\ proc[i].pc = "children"
      /\ proc[i].op = "create" /\ proc[i].path \in Paths \ {Root}
  BY CallFacts DEF Children, AllocInv, FsInv, TypeOK, CallsInv, CallOK, Creating
<1>2. CASE Saved(i, {}, "ok")
  BY <1>1, <1>2, SavedAlloc
<1>3. CASE core' = [core EXCEPT ![d].size = @ + 1] /\ Go(i, "lock_save")
  <2>1. d \in Paths /\ core[d].mode = "dir" /\ core[d] # NoInode
    BY <1>1 DEF CallOK, NoInode
  <2>2. \A j \in Procs : proc[j].op = "unlink" => proc[j].path # d
    BY <2>1 DEF FsInv, CallsInv, CallOK
  <2>3. PICK m : m = core[d].size + 1
    OBVIOUS
  <2>4. core' = [core EXCEPT ![d].size = m]
    BY <1>3, <2>3
  <2>5. /\ proc'[i].pc = "lock_save" /\ proc'[i].op = proc[i].op
        /\ proc'[i].new = proc[i].new
        /\ \A j \in Procs \ {i} : proc'[j] = proc[j]
    <3>1. Go(i, "lock_save")
      BY <1>3
    <3> HIDE DEF Go
    <3> QED
      BY <3>1, MovedCall
  <2>6. Gentle(owner, {i})
    BY <1>1, <2>1, <2>2, <2>4, <2>5, SizeAlloc
  <2>7. Given(owner, proc[i].new.block, proc[i].new.ino)
    BY <1>1 DEF CallGiven, Placed
  <2>8. Given(owner, proc[i].new.block, proc[i].new.ino)'
    BY <1>1, <2>5, <2>7 DEF Given
  <2>9. CallGiven(owner, i, proc[i])'
    BY <1>1, <2>5, <2>8 DEF CallGiven, Counted, Placed
  <2> QED
    BY <1>1, <2>5, <2>6, <2>9, QuietAlloc
<1> QED
  BY <1>2, <1>3 DEF Children

\* So does a file that is written.
LEMMA ResizeAlloc ==
  ASSUME FsInv, NEW owner, AllocInv(owner), NEW i \in Procs, Resize(i)
  PROVE  AllocInv(owner)'
<1>1. /\ UNCHANGED <<sb, store, dstore>> /\ CallOK(i, proc[i])
      /\ CallGiven(owner, i, proc[i]) /\ proc[i].pc = "resize"
      /\ proc[i].op = "write" /\ proc[i].path \in Paths /\ Go(i, "lock_save")
  BY CallFacts DEF Resize, AllocInv, FsInv, TypeOK, CallsInv, CallOK
<1>2. PICK n \in FileSizes : core' = [core EXCEPT ![proc[i].path].size = n]
  BY DEF Resize
<1>3. core[proc[i].path] # NoInode
  BY <1>1 DEF CallOK, NoInode
<1>4. \A j \in Procs : proc[j].op = "unlink" => proc[j].path # proc[i].path
  BY <1>1 DEF FsInv, CallsInv, CallsApart
<1>5. Gentle(owner, {i})
  BY <1>1, <1>2, <1>3, <1>4, MovedCall, SizeAlloc
<1>6. CallGiven(owner, i, proc[i])'
  BY <1>1, MovedCall DEF CallGiven, Counted, Placed
<1>7. proc'[i].pc = "lock_save"
  BY <1>1, MovedCall
<1> QED
  BY <1>1, <1>5, <1>6, <1>7, QuietAlloc

\* unlink leaves the dead inode in its slot.
LEMMA ForgetAlloc ==
  ASSUME FsInv, NEW owner, AllocInv(owner), NEW i \in Procs, Forget(i)
  PROVE  AllocInv(owner)'
<1>1. /\ UNCHANGED <<sb, store, dstore>> /\ CallOK(i, proc[i]) /\ CallsApart
      /\ proc[i].pc = "forget" /\ proc[i].op = "unlink" /\ proc[i].path \in Paths
      /\ core' = [core EXCEPT ![proc[i].path] = NoInode] /\ Return(i, "ok")
  BY CallFacts DEF Forget, FsInv, TypeOK, CallsInv, CallOK
<1>2. /\ proc'[i].pc = "idle" /\ \A j \in Procs \ {i} : proc'[j] = proc[j]
      /\ CallGiven(owner, i, proc[i])'
  BY <1>1, ReturnedCall
<1>3. \A p \in Paths : core'[p] = IF p = proc[i].path THEN NoInode ELSE core[p]
  BY <1>1 DEF FsInv, TypeOK
<1>4. \A j \in Procs \ {i} : proc[j].op = "unlink" =>
        proc[j].path \in Paths /\ proc[j].path # proc[i].path
  BY <1>1, CallFacts DEF CallsApart, FsInv, TypeOK
<1>5. Gentle(owner, {i})
  BY <1>1, <1>2, <1>3, <1>4 DEF Gentle
<1> QED
  BY <1>1, <1>2, <1>5, QuietAlloc

\* An unlinked inode keeps its block and remembers its number.
LEMMA UnlinkAlloc ==
  ASSUME FsInv, NEW owner, AllocInv(owner), NEW i \in Procs, NEW p \in Paths,
         Unlink(i, p)
  PROVE  AllocInv(owner)'
<1> DEFINE found == {r \in Records(Parent[p]) : RecordOf(Parent[p], r).ino = core[p].ino}
<1>1. /\ UNCHANGED <<sb, store, dstore>> /\ CallGiven(owner, i, proc[i])
      /\ proc[i].pc = "idle" /\ proc[i].op = "none" /\ "unlink" \in May[i]
      /\ core[p].mode = "file" /\ core[p] # NoInode
      /\ \A j \in Procs : proc[j].op = "unlink" =>
           proc[j].path \in Paths /\ proc[j].path # p
  BY CallFacts DEF Unlink, AllocInv, FsInv, TypeOK, CallsInv, CallOK, InUse, NoInode
<1>2. CASE found = {}
  <2>1. /\ proc' = proc /\ core' = [core EXCEPT ![p] = NoInode]
    BY <1>2 DEF Unlink
  <2>2. Gentle(owner, {})
    BY <1>1, <2>1 DEF Gentle, FsInv, TypeOK
  <2> QED
    BY <1>1, <2>2, QuietAlloc
<1>3. CASE found # {}
  <2>1. /\ core' = [core EXCEPT ![p].dead = core[p].ino, ![p].ino = 0]
        /\ proc' = [proc EXCEPT ![i].pc = "lock_save", ![i].op = "unlink",
                                ![i].path = p, ![i].ret = "none"]
    BY <1>3 DEF Unlink
  <2>2. /\ proc'[i].pc = "lock_save" /\ proc'[i].op = "unlink" /\ proc'[i].path = p
        /\ \A j \in Procs \ {i} : proc'[j] = proc[j]
    BY <2>1 DEF FsInv, TypeOK, Call
  <2>3. core[p].ino # 0
    BY <1>1 DEF AllocInv, CoresGiven, Unlinking
  <2>4. /\ core'[p].block = core[p].block /\ core'[p].mode = core[p].mode
        /\ core'[p].ino = 0 /\ core'[p].dead = core[p].ino
        /\ \A q \in Paths : q # p => core'[q] = core[q]
    BY <2>1 DEF FsInv, TypeOK, Inode
  <2>5. Number(core'[p]) = Number(core[p])
    BY <2>3, <2>4 DEF Number
  <2>6. Gentle(owner, {i})
    BY <1>1, <2>2, <2>4, <2>5 DEF Gentle
  <2>7. CallGiven(owner, i, proc[i])'
    BY <1>1, <2>2, <2>4 DEF CallGiven, Counted
  <2> QED
    BY <1>1, <2>2, <2>6, <2>7, QuietAlloc
<1> QED
  BY <1>2, <1>3

\* lookup copies a slot, and with it what it was given.
LEMMA LookupAlloc ==
  ASSUME FsInv, NEW owner, AllocInv(owner), NEW p \in Paths, Lookup(p)
  PROVE  AllocInv(owner)'
<1> DEFINE n == RecordOf(Parent[p], Min(Named(p))).ino
           slots == SlotsOf(store, n)
<1>1. /\ UNCHANGED <<sb, store, dstore, proc>> /\ Named(p) # {}
      /\ GetInode(store, n) # NoInode
      /\ core' = [core EXCEPT ![p] = GetInode(store, n)] /\ core[p] = NoInode
  BY DEF Lookup
<1>2. n # 0
  <2>1. Named(p) \in SUBSET Nat
    BY InodeFacts DEF Named, Records
  <2>2. Min(Named(p)) \in Named(p)
    BY <1>1, <2>1, MinFacts
  <2> QED
    BY <2>2 DEF Named
<1> HIDE DEF n
<1>3. /\ slots # {} /\ Min(slots) \in slots /\ GetInode(store, n) = store[Min(slots)]
  <2>1. slots # {} /\ GetInode(store, n) = store[Min(slots)]
    BY <1>1 DEF GetInode
  <2>2. slots \in SUBSET Nat
    BY DEF SlotsOf, Slots
  <2> QED
    BY <2>1, <2>2, MinFacts
<1>4. PICK k \in Slots : /\ k < sb.count /\ store[k].ino = n
                         /\ GetInode(store, n) = store[k]
  BY <1>3 DEF SlotsOf
<1>5. CoreGiven(owner, store[k]) /\ store[k].ino # 0
  <2>1. /\ store[k] # NoInode /\ store[k].ino # 0
    BY <1>1, <1>2, <1>4
  <2>2. /\ Given(owner, store[k].block, SlotNo(k)) /\ store[k].ino = SlotNo(k)
        /\ k = 0 => store[k].mode = "dir"
    BY <2>1 DEF AllocInv, SlotsGiven
  <2> QED
    BY <2>1, <2>2, SlotNoFacts DEF CoreGiven, Number
<1>6. \A j \in Procs : proc[j].op = "unlink" =>
        proc[j].path \in Paths /\ proc[j].path # p
  BY <1>1, CallFacts DEF FsInv, TypeOK, CallsInv, CallOK, NoInode
<1>7. Gentle(owner, {})
  BY <1>1, <1>4, <1>5, <1>6 DEF Gentle, FsInv, TypeOK
<1> QED
  BY <1>1, <1>7, QuietAlloc

\* Signals, evictions and write-back.
LEMMA MachineAlloc ==
  ASSUME FsInv, NobodyCreatesBeside, NEW owner, AllocInv(owner),
         \/ \E i \in Procs : Signal(i)
         \/ \E p \in Paths : Evict(p)
         \/ Writeback
  PROVE  AllocInv(owner)'
<1>1. CASE (\E i \in Procs : Signal(i)) \/ Writeback
  <2>1. /\ UNCHANGED <<sb, store, proc, core>> /\ dstore' \in {dstore, store}
    BY <1>1 DEF Signal, Writeback
  <2>2. Gentle(owner, {})
    BY <2>1 DEF Gentle
  <2> QED
    BY <2>1, <2>2, QuietAlloc
<1>2. ASSUME NEW p \in Paths, Evict(p) PROVE AllocInv(owner)'
  <2>1. /\ UNCHANGED <<sb, store, dstore, proc>> /\ core' = [core EXCEPT ![p] = NoInode]
        /\ \A j \in Procs : proc[j].op = "unlink" => proc[j].path # p
    BY <1>2 DEF Evict, InUse
  <2>2. \A j \in Procs : proc[j].path \in Paths
    BY CallFacts DEF FsInv, TypeOK
  <2>3. Gentle(owner, {})
    BY <2>1, <2>2 DEF Gentle, FsInv, TypeOK
  <2> QED
    BY <2>1, <2>3, QuietAlloc
<1> QED
  BY <1>1, <1>2

\* Save copies an inode into the slot of its number: one step, or two when the
\* inode is dead.
LEMMA SaveAlloc ==
  ASSUME FsInv, NEW owner, AllocInv(owner), NEW i \in Procs, Save(i)
  PROVE  AllocInv(owner)'
<1> DEFINE p == proc[i].path
           q == IF proc[i].op = "create" THEN Parent[p] ELSE p
           inode == core[q]
           n == IF inode.ino = 0 THEN inode.dead ELSE inode.ino
           slots == {k \in Slots : k <= sb.count /\ store[k].ino = n}
<1>1. /\ sb' = sb /\ CallOK(i, proc[i]) /\ CallGiven(owner, i, proc[i])
      /\ proc[i].pc \in {"save", "save_rest"} /\ p \in Paths /\ q \in Paths
      /\ CallsApart /\ core[q] \in Inode /\ store \in [Slots -> Inode]
      /\ proc[i].op # "none" /\ sb.count \in Nat
      /\ core[q].mode = IF proc[i].op = "create" THEN "dir" ELSE "file"
  <2>1. /\ sb' = sb /\ CallOK(i, proc[i]) /\ CallGiven(owner, i, proc[i])
        /\ proc[i].pc \in {"save", "save_rest"} /\ p \in Paths /\ CallsApart
        /\ core \in [Paths -> Inode] /\ store \in [Slots -> Inode]
        /\ proc[i].op \in {"create", "unlink", "write"} /\ sb.count \in Nat
    <3>1. proc[i].pc \in {"save", "save_rest"} /\ sb' = sb
      BY DEF Save
    <3>2. /\ CallOK(i, proc[i]) /\ CallGiven(owner, i, proc[i]) /\ CallsApart
      BY DEF AllocInv, FsInv, CallsInv
    <3>3. /\ core \in [Paths -> Inode] /\ store \in [Slots -> Inode]
          /\ sb.count \in Nat /\ proc[i] \in Call
      BY DEF FsInv, TypeOK
    <3>4. proc[i].op # "none"
      BY <3>1, <3>2 DEF CallOK
    <3> QED
      BY <3>1, <3>2, <3>3, <3>4, CallFacts
  <2>2. CASE proc[i].op = "create"
    BY <2>1, <2>2 DEF CallOK
  <2>3. CASE proc[i].op # "create"
    BY <2>1, <2>3 DEF CallOK
  <2> QED
    BY <2>1, <2>2, <2>3
<1>2. slots # {} => Min(slots) \in slots
  <2>1. slots \in SUBSET Nat
    BY DEF Slots
  <2> QED
    BY <2>1, MinFacts
<1>3. \A b, m : Given(owner, b, m)' <=> Given(owner, b, m)
  BY <1>1 DEF Given
<1>4. WideTogether'
  BY <1>1 DEF AllocInv, WideTogether
<1>5. inode # NoInode => /\ CoreGiven(owner, inode) /\ n = Number(inode) /\ n # 0
                         /\ Given(owner, inode.block, n)
  BY <1>1 DEF AllocInv, CoresGiven, CoreGiven, Number, Given
<1>6. inode # NoInode
  BY <1>1 DEF NoInode
<1>7. ASSUME NEW k \in Slots, k <= sb.count, store[k].ino = n, inode # NoInode
      PROVE  k < sb.count /\ SlotNo(k) = n
  <2>1. n # 0
    BY <1>5, <1>6
  <2>2. NoInode.ino = 0
    BY DEF NoInode
  <2>3. store[k] # NoInode /\ store[k].ino # 0
    BY <1>7, <2>1, <2>2
  <2> QED
    BY <1>7, <2>3 DEF AllocInv, SlotsGiven
<1>8. inode.ino = 0 /\ inode # NoInode => proc[i].op = "unlink" /\ q = p
  <2> SUFFICES ASSUME inode.ino = 0, inode # NoInode, proc[i].op # "unlink"
               PROVE  FALSE
    OBVIOUS
  <2>1. PICK j \in Procs : proc[j].op = "unlink" /\ proc[j].path = q
    BY <1>1 DEF AllocInv, CoresGiven, Unlinking
  <2>2. core[q].mode = "file" /\ j # i
    BY <2>1 DEF FsInv, CallsInv, CallOK
  <2>3. proc[j].path # p
    BY <1>1, <2>1, <2>2 DEF CallsApart
  <2> QED
    BY <1>1, <2>1, <2>2, <2>3 DEF CallOK
<1> HIDE DEF slots, n, inode, q, p
\* The copy of the whole inode into slot k.
<1>9. ASSUME NEW k \in Slots, k < sb.count, SlotNo(k) = n,
             store' = [store EXCEPT ![k] = inode], dstore' = store',
             Saved(i, {"sb"}, "ok"), proc[i].pc = "save_rest" => proc[i].slot = k
      PROVE  AllocInv(owner)'
  <2>1. /\ Gentle(owner, {i}) /\ CallGiven(owner, i, proc[i])'
        /\ proc'[i].pc # "save_rest"
        /\ \A j \in Procs \ {i} : proc'[j] = proc[j]
    BY <1>1, <1>9, SavedCall
  <2>2. store'[k] = inode /\ \A m \in Slots : m # k => store'[m] = store[m]
    BY <1>1, <1>9
  <2>3. inode.ino # 0 => inode.ino = n
    BY DEF n
  <2>4. k = 0 => inode.ino = ROOTDIR_INODE /\ inode.mode = "dir"
    <3> SUFFICES ASSUME k = 0 PROVE inode.ino = ROOTDIR_INODE /\ inode.mode = "dir"
      OBVIOUS
    <3>1. n = ROOTDIR_INODE
      BY <1>9, SlotNoFacts
    <3>2. inode.mode = "dir"
      BY <1>5, <1>6, <3>1 DEF CoreGiven
    <3>3. inode.ino # 0
      BY <1>1, <1>8, <1>6, <3>2 DEF inode
    <3> QED
      BY <2>3, <3>1, <3>2, <3>3
  <2>5. SlotsGiven(owner, store)'
    <3> SUFFICES ASSUME NEW m \in Slots, store'[m] # NoInode
                 PROVE  /\ m < sb.count /\ Given(owner, store'[m].block, SlotNo(m))
                        /\ store'[m].ino # 0 => store'[m].ino = SlotNo(m)
                        /\ m = 0 => store'[m].ino = ROOTDIR_INODE /\ store'[m].mode = "dir"
      BY <1>1 DEF SlotsGiven, Given
    <3>1. CASE m = k
      BY <1>5, <1>6, <1>9, <2>2, <2>3, <2>4, <3>1
    <3>2. CASE m # k
      BY <2>2, <3>2 DEF AllocInv, SlotsGiven
    <3> QED
      BY <3>1, <3>2
  <2>6. SlotsGiven(owner, dstore)'
    BY <1>9, <2>5 DEF SlotsGiven
  <2>7. \A m : m # k /\ Copying(m) => Copying(m)'
    BY <1>9, <2>1 DEF Copying
  <2>8. inode.ino = 0 => inode.dead = SlotNo(k)
    BY <1>9 DEF n
  <2>9. StoreFull'
    BY <1>1, <1>6, <2>2, <2>7, <2>8 DEF AllocInv, StoreFull
  <2>10. CoresGiven(owner)' /\ \A j \in Procs : CallGiven(owner, j, proc[j])'
    BY <1>1, <1>3, <2>1, GentleAlloc
  <2> QED
    BY <1>4, <2>5, <2>6, <2>9, <2>10 DEF AllocInv
\* The first half of the copy of a dead inode.
<1>10. ASSUME NEW k \in Slots, k < sb.count, SlotNo(k) = n, inode.ino = 0,
              proc[i].pc = "save",
              store' = [store EXCEPT ![k].ino = 0], dstore' = dstore, core' = core,
              proc' = [proc EXCEPT ![i].pc = "save_rest", ![i].slot = k]
       PROVE  AllocInv(owner)'
  <2>1. /\ proc'[i].pc = "save_rest" /\ proc'[i].slot = k
        /\ proc'[i].op = proc[i].op /\ proc'[i].path = proc[i].path
        /\ \A j \in Procs \ {i} : proc'[j] = proc[j]
    BY <1>10 DEF FsInv, TypeOK, Call
  <2>2. /\ store'[k].ino = 0 /\ store'[k].block = store[k].block
        /\ store'[k].mode = store[k].mode
        /\ \A m \in Slots : m # k => store'[m] = store[m]
    BY <1>1, <1>10 DEF Inode
  <2>3. proc[i].op = "unlink" /\ q = p
    BY <1>8, <1>6, <1>10
  <2>4. n = inode.dead /\ n # ROOTDIR_INODE /\ k # 0
    <3>1. n = inode.dead
      BY <1>10 DEF n
    <3>2. n # ROOTDIR_INODE
      BY <1>1, <1>5, <1>6, <2>3 DEF CoreGiven, inode
    <3> QED
      BY <1>10, <3>1, <3>2, SlotNoFacts
  <2>5. store[k] # NoInode /\ Given(owner, store[k].block, SlotNo(k))
    BY <1>10 DEF AllocInv, StoreFull, SlotsGiven
  <2>6. SlotsGiven(owner, store)'
    <3> SUFFICES ASSUME NEW m \in Slots, store'[m] # NoInode
                 PROVE  /\ m < sb.count /\ Given(owner, store'[m].block, SlotNo(m))
                        /\ store'[m].ino # 0 => store'[m].ino = SlotNo(m)
                        /\ m = 0 => store'[m].ino = ROOTDIR_INODE /\ store'[m].mode = "dir"
      BY <1>1 DEF SlotsGiven, Given
    <3>1. CASE m = k
      BY <1>10, <2>2, <2>4, <2>5, <3>1
    <3>2. CASE m # k
      BY <2>2, <3>2 DEF AllocInv, SlotsGiven
    <3> QED
      BY <3>1, <3>2
  <2>7. SlotsGiven(owner, dstore)'
    BY <1>1, <1>3, <1>10 DEF AllocInv, SlotsGiven
  <2>8. /\ \A m : Copying(m) => Copying(m)'
        /\ Copying(k)'
    BY <1>10, <2>1 DEF Copying
  <2>9. store'[k] # NoInode
    BY <2>2, <2>4, <2>5, SlotNoFacts DEF Given, NoInode
  <2>10. StoreFull'
    BY <1>1, <2>2, <2>8, <2>9 DEF AllocInv, StoreFull
  <2>11. Gentle(owner, {i})
    BY <1>10, <2>1, <2>3 DEF Gentle
  <2>12. CallGiven(owner, i, proc[i])'
    BY <1>1, <1>10, <2>1, <2>3, <2>4 DEF CallGiven, Counted, Placed, inode, p
  <2>13. CoresGiven(owner)' /\ \A j \in Procs : CallGiven(owner, j, proc[j])'
    BY <1>1, <1>3, <2>11, <2>12, GentleAlloc
  <2> QED
    BY <1>4, <2>6, <2>7, <2>10, <2>13 DEF AllocInv
\* The four ways of Save.
<1>11. CASE proc[i].pc = "save" /\ Saved(i, {"sb"}, "EIO") /\ UNCHANGED <<store, dstore>>
  BY <1>1, <1>11, SavedAlloc
<1>12. slots # {} => /\ Min(slots) \in Slots /\ Min(slots) < sb.count
                     /\ SlotNo(Min(slots)) = n
  BY <1>2, <1>7, <1>6 DEF slots
<1>13. CASE /\ proc[i].pc = "save" /\ slots # {}
            /\ store' = [store EXCEPT ![Min(slots)] = inode] /\ dstore' = store'
            /\ Saved(i, {"sb"}, "ok")
  BY <1>9, <1>12, <1>13
<1>14. CASE /\ proc[i].pc = "save" /\ slots # {} /\ inode.ino = 0
            /\ store' = [store EXCEPT ![Min(slots)].ino = 0]
            /\ proc' = [proc EXCEPT ![i].pc = "save_rest", ![i].slot = Min(slots)]
            /\ UNCHANGED <<dstore, core, lock, sig>>
  BY <1>10, <1>12, <1>14
<1>15. CASE /\ proc[i].pc = "save_rest"
            /\ store' = [store EXCEPT ![proc[i].slot] = inode] /\ dstore' = store'
            /\ Saved(i, {"sb"}, "ok")
  <2>1. /\ proc[i].op = "unlink" /\ proc[i].slot < sb.count
        /\ core[p].dead = SlotNo(proc[i].slot) /\ core[p].ino = 0
    BY <1>1, <1>15 DEF CallGiven, p
  <2>2. n = SlotNo(proc[i].slot)
    BY <2>1 DEF n, inode, q
  <2>3. proc[i].slot \in Slots
    BY CallFacts DEF FsInv, TypeOK
  <2> QED
    BY <1>9, <1>15, <2>1, <2>2, <2>3
<1> QED
  BY <1>11, <1>13, <1>14, <1>15 DEF Save, slots, n, inode, q, p

\* simplefs_inode_add puts the new inode where its number says.
LEMMA AddAlloc ==
  ASSUME FsInv, NobodyCreatesBeside, NEW owner, AllocInv(owner), NEW i \in Procs,
         Add(i)
  PROVE  AllocInv(owner)'
<1> DEFINE new == proc[i].new
           slots == {k \in SlotsOf(store, 0) : store[k].dead = new.ino}
<1>1. /\ CallOK(i, proc[i]) /\ CallGiven(owner, i, proc[i])
      /\ proc[i].pc = "add" /\ proc[i].op = "create"
      /\ UNCHANGED <<dstore, core>> /\ Go(i, "record")
      /\ sb.count \in Nat /\ store \in [Slots -> Inode]
  BY DEF Add, AllocInv, FsInv, TypeOK, CallsInv, CallOK, Creating
<1>2. Given(owner, new.block, new.ino) /\ new.ino # ROOTDIR_INODE
  BY <1>1 DEF CallGiven, Placed
<1>3. new.ino # 0 /\ new # NoInode
  BY <1>2 DEF Given, NoInode
<1>4. /\ proc'[i].pc = "record" /\ proc'[i].op = proc[i].op /\ proc'[i].new = new
      /\ proc'[i].found = proc[i].found
      /\ \A j \in Procs \ {i} : proc'[j] = proc[j]
  <2>1. Go(i, "record")
    BY <1>1
  <2> HIDE DEF Go
  <2> QED
    BY <2>1, MovedCall
<1>5. Gentle(owner, {i})
  BY <1>1, <1>4 DEF Gentle
<1>6. \A j \in Procs \ {i} : ~(proc[j].pc \in Counted /\ proc[j].found = "none")
  <2> SUFFICES ASSUME NEW j \in Procs \ {i}, proc[j].pc \in Counted PROVE FALSE
    OBVIOUS
  <2>1. CallOK(j, proc[j])
    BY DEF FsInv, CallsInv
  <2>2. lock["dir"] = j
    BY <2>1 DEF CallOK, Counted, Creating
  <2>3. lock["dir"] = i
    BY <1>1 DEF CallOK
  <2> QED
    BY <2>2, <2>3
<1>7. \A k : Copying(k) => Copying(k)'
  BY <1>1, <1>4 DEF Copying
<1>8. sb'.free = sb.free
  BY DEF Add, FsInv, TypeOK
<1>9. \A b, n : Given(owner, b, n)' <=> Given(owner, b, n)
  BY <1>8 DEF Given
<1>10. WideTogether'
  BY <1>8 DEF AllocInv, WideTogether
<1>11. CallGiven(owner, i, proc[i])'
  <2>1. Given(owner, proc[i].new.block, proc[i].new.ino)'
    BY <1>2, <1>4, <1>8 DEF Given
  <2> QED
    BY <1>1, <1>2, <1>4, <2>1 DEF CallGiven, Counted, Placed
<1> HIDE DEF new, slots
<1>12. CASE /\ proc[i].found = "none"
            /\ store' = [store EXCEPT ![sb.count] = new]
            /\ sb' = [sb EXCEPT !.count = @ + 1]
  <2>1. /\ sb.count < MaxObjects /\ sb.count \in Slots /\ sb.count > 1
        /\ new.ino = SlotNo(sb.count)
    <3>1. sb.count < MaxObjects /\ sb.count > 1 /\ new.ino = sb.count + FirstIno
      BY <1>1, <1>12 DEF CallOK, Counted, CallGiven, AllocInv, StoreFull, new
    <3>2. sb.count \in Slots
      BY <1>1, <3>1 DEF Slots
    <3> QED
      BY <3>1, <3>2, SlotNoFacts
  <2>2. sb'.count = sb.count + 1
    BY <1>12 DEF FsInv, TypeOK
  <2>3. /\ store'[sb.count] = new
        /\ \A m \in Slots : m # sb.count => store'[m] = store[m]
    BY <1>1, <1>12, <2>1
  <2>4. \A m \in Slots : m < sb'.count <=> m < sb.count \/ m = sb.count
    BY <1>1, <2>2 DEF Slots
  <2>5. SlotsGiven(owner, store)'
    <3> SUFFICES ASSUME NEW m \in Slots, store'[m] # NoInode
                 PROVE  /\ m < sb'.count /\ Given(owner, store'[m].block, SlotNo(m))
                        /\ store'[m].ino # 0 => store'[m].ino = SlotNo(m)
                        /\ m = 0 => store'[m].ino = ROOTDIR_INODE /\ store'[m].mode = "dir"
      BY <1>8 DEF SlotsGiven, Given
    <3>1. CASE m = sb.count
      BY <1>2, <2>1, <2>3, <2>4, <3>1
    <3>2. CASE m # sb.count
      BY <2>3, <2>4, <3>2 DEF AllocInv, SlotsGiven
    <3> QED
      BY <3>1, <3>2
  <2>6. SlotsGiven(owner, dstore)'
    BY <1>1, <1>9, <2>4 DEF AllocInv, SlotsGiven
  <2>7. StoreFull'
    BY <1>1, <1>3, <1>7, <2>1, <2>2, <2>3, <2>4 DEF AllocInv, StoreFull
  <2>8. CoresGiven(owner)' /\ \A j \in Procs : CallGiven(owner, j, proc[j])'
    BY <1>1, <1>5, <1>6, <1>9, <1>11, <2>2, GentleAlloc
  <2> QED
    BY <1>10, <2>5, <2>6, <2>7, <2>8 DEF AllocInv
<1>13. ASSUME sb' = sb,
              \/ store' = store
              \/ \E k \in slots : store' = [store EXCEPT ![k] = new]
       PROVE  AllocInv(owner)'
  <2>1. PICK k \in Slots :
          \/ store' = store
          \/ /\ store' = [store EXCEPT ![k] = new] /\ k < sb.count /\ k # 0
             /\ new.ino = SlotNo(k)
    <3>1. CASE store' = store
      <4>1. 0 \in Slots
        BY DEF Slots
      <4> QED
        BY <3>1, <4>1
    <3>2. ASSUME NEW k \in slots, store' = [store EXCEPT ![k] = new]
          PROVE  /\ k \in Slots /\ k < sb.count /\ k # 0 /\ new.ino = SlotNo(k)
      <4>1. k \in SlotsOf(store, 0) /\ store[k].dead = new.ino
        BY DEF slots
      <4> QED
        BY <1>1, <4>1, DeadSlot
    <3> QED
      BY <1>13, <3>1, <3>2
  <2>2. \A m \in Slots :
          \/ store'[m] = store[m]
          \/ m = k /\ store'[m] = new /\ k < sb.count /\ k # 0 /\ new.ino = SlotNo(k)
    BY <1>1, <2>1
  <2>3. SlotsGiven(owner, store)'
    <3> SUFFICES ASSUME NEW m \in Slots, store'[m] # NoInode
                 PROVE  /\ m < sb.count /\ Given(owner, store'[m].block, SlotNo(m))
                        /\ store'[m].ino # 0 => store'[m].ino = SlotNo(m)
                        /\ m = 0 => store'[m].ino = ROOTDIR_INODE /\ store'[m].mode = "dir"
      BY <1>8, <1>13 DEF SlotsGiven, Given
    <3>1. CASE store'[m] = store[m]
      BY <3>1 DEF AllocInv, SlotsGiven
    <3>2. CASE m = k /\ store'[m] = new /\ k < sb.count /\ k # 0 /\ new.ino = SlotNo(k)
      BY <1>2, <3>2
    <3> QED
      BY <2>2, <3>1, <3>2
  <2>4. SlotsGiven(owner, dstore)'
    BY <1>1, <1>9, <1>13 DEF AllocInv, SlotsGiven
  <2>5. StoreFull'
    BY <1>3, <1>7, <1>13, <2>2 DEF AllocInv, StoreFull
  <2>6. CoresGiven(owner)' /\ \A j \in Procs : CallGiven(owner, j, proc[j])'
    <3>1. sb'.count = sb.count /\ sb'.count \in Nat /\ sb'.count >= sb.count
      BY <1>1, <1>13
    <3> HIDE DEF Go
    <3> QED
      BY <1>1, <1>5, <1>9, <1>11, <3>1, GentleAlloc
  <2> QED
    BY <1>10, <2>3, <2>4, <2>5, <2>6 DEF AllocInv
<1>14. slots # {} => Min(slots) \in slots
  <2>1. slots \in SUBSET Nat
    BY DEF slots, SlotsOf, Slots
  <2> QED
    BY <2>1, MinFacts
<1>15. CASE proc[i].found # "none"
  <2>1. sb' = sb /\ store' = IF slots = {} THEN store
                             ELSE [store EXCEPT ![Min(slots)] = new]
    BY <1>15 DEF Add, slots, new
  <2> QED
    BY <1>13, <1>14, <2>1
<1>16. CASE proc[i].found = "none"
  <2>1. /\ store' = [store EXCEPT ![sb.count] = new]
        /\ sb' = [sb EXCEPT !.count = @ + 1]
    BY <1>16 DEF Add, new
  <2> QED
    BY <1>12, <1>16, <2>1
<1> QED
  BY <1>15, <1>16

\* simplefs_sb_get_a_freeblock gives out a block nobody had, also where the
\* search runs past the width of an int.
LEMMA TakeBlockAlloc ==
  ASSUME FsInv, NEW owner \in [Blocks -> Nat], AllocInv(owner), NEW i \in Procs,
         TakeBlock(i)
  PROVE  Allocated'
<1> DEFINE searched == {b \in Blocks : b >= FirstBlock}
<1>0. PICK n : n = sb.count + FirstIno
  OBVIOUS
<1>1. /\ CallOK(i, proc[i]) /\ CallGiven(owner, i, proc[i])
      /\ proc[i].pc = "take_block" /\ proc[i].op = "create"
      /\ proc[i].new.ino = n /\ proc[i].found = "none"
      /\ UNCHANGED <<store, dstore, core>>
      /\ sb.count \in Nat /\ sb.free \in SUBSET Blocks
  BY <1>0 DEF TakeBlock, AllocInv, FsInv, TypeOK, CallsInv, CallOK, Creating,
              CallGiven, Counted
<1>2. CASE Return(i, "ENOSPC") /\ UNCHANGED sb
  BY <1>1, <1>2, ReturnAlloc DEF Allocated
<1>3. ASSUME NEW b \in searched, NEW m \in Shift(b), m \cap sb.free # {},
             \A c \in searched : c < b => Passed(c),
             sb' = [sb EXCEPT !.free = @ \ m],
             proc' = [proc EXCEPT ![i].pc = "lock_add",
                                  ![i].new = [@ EXCEPT !.block = b]]
      PROVE  Allocated'
  <2> DEFINE after == [owner EXCEPT ![b] = n]
  <2>1. /\ b \in Blocks /\ b \in Nat /\ b >= 3
        /\ n \in Nat /\ n # 0 /\ n # ROOTDIR_INODE
    <3>1. sb.count \in Nat
      BY <1>1
    <3>2. n \in Nat /\ n # 0 /\ n # ROOTDIR_INODE
      BY <1>0, <3>1 DEF FirstIno, ROOTDIR_INODE
    <3> QED
      BY <3>2 DEF FirstBlock
  <2>2. sb'.count = sb.count /\ sb'.free = sb.free \ m
    BY <1>3 DEF FsInv, TypeOK
  <2>3. /\ proc'[i].pc = "lock_add" /\ proc'[i].op = proc[i].op
        /\ proc'[i].found = proc[i].found
        /\ proc'[i].new.ino = n /\ proc'[i].new.block = b
        /\ \A j \in Procs \ {i} : proc'[j] = proc[j]
    BY <1>1, <1>3 DEF FsInv, TypeOK, Call, Inode
  <2>4. after \in [Blocks -> Nat] /\ after[b] = n
        /\ \A c \in Blocks : c # b => after[c] = owner[c]
    BY <2>1
  <2> HIDE DEF after
\* m is the one bit of b, or the bits past the width of an int; b was free, or
\* is past that width and another bit was taken for it.
  <2>5. /\ b < IntBits - 1 => m = {b}
        /\ b = IntBits - 1 => m = {c \in Blocks : c >= IntBits - 1}
        /\ b >= IntBits => m = {b % IntBits} /\ b \notin sb.free
    <3>1. CASE b < IntBits
      <4>1. m = Bits(b)
        BY <3>1 DEF Shift
      <4>2. CASE b = IntBits - 1
        BY <4>1, <4>2 DEF Bits
      <4>3. CASE b < IntBits - 1
        BY <2>1, <4>1, <4>3 DEF Bits
      <4> QED
        BY <2>1, <3>1, <4>2, <4>3
    <3>2. CASE b >= IntBits
      <4>1. m = Bits(b % IntBits)
        BY <1>3, <2>1, <3>2 DEF Shift
      <4>2. IntBits - 1 \in searched /\ IntBits - 1 < b
        <5>1. IntBits - 1 \in 0 .. b
          BY <2>1, <3>2
        <5> QED
          BY <2>1, <3>2, <5>1, RangeAssumption DEF FirstBlock
      <4>3. Passed(IntBits - 1)
        BY <1>3, <4>2
      <4>4. {c \in Blocks : c >= IntBits - 1} \cap sb.free = {}
        BY <4>3 DEF Passed, Shift, Bits
      <4>5. b % IntBits # IntBits - 1
        BY <1>3, <4>1, <4>4 DEF Bits
      <4>6. m = {b % IntBits}
        BY <4>1, <4>5 DEF Bits
      <4> QED
        BY <2>1, <3>2, <4>4, <4>6
    <3> QED
      BY <2>1, <3>1, <3>2
  <2>6. b < IntBits => b \in sb.free
    <3>1. CASE b < IntBits - 1
      BY <1>3, <2>5, <3>1
    <3>2. CASE b = IntBits - 1
      <4>1. PICK c \in sb.free : c >= IntBits - 1
        BY <1>3, <2>5, <3>2
      <4>2. c \in Nat
        BY <1>1
      <4>3. c = IntBits - 1 \/ c >= IntBits
        BY <4>1, <4>2
      <4>4. WideTogether
        BY DEF AllocInv
      <4> QED
        BY <3>2, <4>3, <4>4 DEF WideTogether
    <3> QED
      BY <2>1, <3>1, <3>2
  <2>7. b >= IntBits => b % IntBits \in sb.free
    BY <1>3, <2>5
  <2>8. \A k : ~Given(owner, b, k)
    BY <2>1, <2>6, <2>7 DEF Given
  <2>9. \A c, k : Given(owner, c, k) => Given(after, c, k)'
    <3> SUFFICES ASSUME NEW c, NEW k, Given(owner, c, k)
                 PROVE  Given(after, c, k)'
      OBVIOUS
    <3>1. c # b
      BY <2>8
    <3> QED
      BY <2>2, <2>4, <3>1 DEF Given
  <2>10. Given(after, b, n)'
    <3>1. b \notin sb'.free
      BY <1>1, <2>1, <2>2, <2>5
    <3>2. b >= IntBits => b % IntBits \notin sb'.free
      BY <2>2, <2>5
    <3>3. b \notin {0, 1, 2}
      BY <2>1
    <3> QED
      BY <2>1, <2>4, <3>1, <3>2, <3>3 DEF Given
  <2>11. WideTogether'
    <3> SUFFICES ASSUME NEW c \in sb.free, c \notin m, c >= IntBits
                 PROVE  IntBits - 1 \in sb.free /\ IntBits - 1 \notin m
      BY <2>2 DEF WideTogether
    <3>1. IntBits - 1 \in sb.free
      BY DEF AllocInv, WideTogether
    <3>2. ASSUME IntBits - 1 \in m PROVE FALSE
      <4>1. c \in Blocks /\ c \in Nat
        BY <1>1
      <4>2. c >= IntBits - 1
        BY <4>1
      <4>3. b < IntBits - 1 => FALSE
        BY <2>1, <2>5, <3>2
      <4>4. b >= IntBits => FALSE
        <5> SUFFICES ASSUME b >= IntBits PROVE FALSE
          OBVIOUS
        <5>1. IntBits - 1 \in 0 .. b
          BY <2>1
        <5>2. IntBits - 1 \in searched /\ IntBits - 1 < b
          BY <2>1, <5>1, RangeAssumption DEF FirstBlock
        <5>3. Passed(IntBits - 1)
          BY <1>3, <5>2
        <5> QED
          BY <3>1, <5>2, <5>3 DEF Passed, Shift, Bits
      <4> QED
        BY <2>1, <2>5, <4>1, <4>2, <4>3, <4>4
    <3> QED
      BY <3>1, <3>2
  <2>12. SlotsGiven(after, store)' /\ SlotsGiven(after, dstore)'
    BY <1>1, <2>2, <2>9 DEF AllocInv, SlotsGiven
  <2>13. StoreFull'
    <3>1. \A k : Copying(k) => Copying(k)'
      BY <1>1, <2>3 DEF Copying
    <3> QED
      BY <1>1, <2>2, <3>1 DEF AllocInv, StoreFull
  <2>14. Gentle(owner, {i})
    BY <1>1, <2>3 DEF Gentle
  <2>15. CallGiven(after, i, proc[i])'
    <3>1. Given(after, proc[i].new.block, proc[i].new.ino)'
      BY <2>3, <2>10 DEF Given
    <3> QED
      BY <1>0, <1>1, <2>1, <2>2, <2>3, <3>1 DEF CallGiven
  <2>16. CoresGiven(after)' /\ \A j \in Procs : CallGiven(after, j, proc[j])'
    BY <1>1, <2>2, <2>9, <2>14, <2>15, GentleAlloc
  <2>17. AllocInv(after)'
    BY <2>11, <2>12, <2>13, <2>16 DEF AllocInv
  <2> QED
    BY <2>4, <2>17 DEF Allocated
<1> QED
  BY <1>2, <1>3 DEF TakeBlock

\* Every step keeps what was given, but for a crash.
LEMMA NextAlloc ==
  ASSUME NobodyCreatesBeside, FsInv, Allocated, [Next]_vars, crashes' = 0
  PROVE  Allocated'
<1>1. PICK owner \in [Blocks -> Nat] : AllocInv(owner)
  BY DEF Allocated
<1>2. SUFFICES ASSUME ~\E i \in Procs : TakeBlock(i)
               PROVE  AllocInv(owner)'
  BY <1>1, TakeBlockAlloc DEF Allocated
<1>3. ASSUME NEW i \in Procs, Step(i) PROVE AllocInv(owner)'
  BY <1>1, <1>2, <1>3, AcquireAlloc, InterruptedAlloc, CountAlloc, SearchAlloc,
     AddAlloc, RecordAlloc, ChildrenAlloc, SaveAlloc, ForgetAlloc, ResizeAlloc
     DEF Step
<1>4. ASSUME NEW i \in Procs, NEW p \in Paths, Create(i, p) \/ Write(i, p)
      PROVE  AllocInv(owner)'
  BY <1>1, <1>4, EnterAlloc DEF Create, Write
<1>5. ASSUME NEW i \in Procs, NEW p \in Paths, Unlink(i, p)
      PROVE  AllocInv(owner)'
  BY <1>1, <1>5, UnlinkAlloc
<1>6. ASSUME NEW p \in Paths, Lookup(p) PROVE AllocInv(owner)'
  BY <1>1, <1>6, LookupAlloc
<1>7. CASE \/ \E i \in Procs : Signal(i)
           \/ \E p \in Paths : Evict(p)
           \/ Writeback
  BY <1>1, <1>7, MachineAlloc
<1>8. CASE UNCHANGED vars
  <2>1. UNCHANGED <<sb, store, dstore, core, proc>>
    BY <1>8 DEF vars
  <2>2. Gentle(owner, {})
    BY <2>1 DEF Gentle
  <2> QED
    BY <1>1, <2>1, <2>2, QuietAlloc
<1> QED
  BY <1>3, <1>4, <1>5, <1>6, <1>7, <1>8, StillUp DEF Next

\* GivenOutOnce: no block and no inode number is given out twice, in memory or
\* on disk, up to the first crash, when whoever unlinks is the only one who
\* creates.  Signals, write-back and the wide shift may happen.
THEOREM NothingGivenTwice ==
  ASSUME NobodyCreatesBeside PROVE Spec => [](crashes = 0 => GivenOutOnce)
<1>1. Init => Allocated
  BY AllocInit
<1>2. FsInv /\ (crashes = 0 => Allocated) /\ [Next]_vars => (crashes = 0 => Allocated)'
  BY NextAlloc, StillUp
<1>3. FsInv /\ Allocated => GivenOutOnce
  BY GivenOnce DEF Allocated
<1> QED
  BY <1>1, <1>2, <1>3, Inductive, PTL DEF Spec
-----------------------------------------------------------------------------
(* Names and what is in core.  Without signals, and as long as whoever     *)
(* unlinks is the only one who creates, one process at a time changes the  *)
(* tree.  Allocated, proved above, ties inode numbers to slots of the      *)
(* store; NamesInv ties records and in-core inodes to those slots.         *)

SlotAt(n) == IF n = ROOTDIR_INODE THEN 0 ELSE IF n = 2 THEN 1 ELSE n - FirstIno
SlotOf(p) == SlotAt(Number(core[p]))

\* What Allocated says of the store alone.
StoreOK ==
  /\ sb.count \in Nat /\ sb.count > 1 /\ sb.count <= MaxObjects
  /\ \A k \in Slots : k < sb.count <=> store[k] # NoInode
  /\ \A k \in Slots : k < sb.count /\ store[k].ino # 0 => store[k].ino = SlotNo(k)
  /\ \A k \in Slots : k < sb.count /\ store[k].ino = 0 /\ ~Copying(k) =>
       store[k].dead = SlotNo(k)
  /\ \A k, l \in Slots : k < sb.count /\ l < sb.count /\ store[k].block = store[l].block
       => k = l
  /\ store[0].ino = ROOTDIR_INODE /\ store[0].mode = "dir"

\* The records of the directory in slot k that count.
Places      == 0 .. DirCap - 1
Rec(k, r)   == dir[store[k].block][r]
IsDir(k)    == k < sb.count /\ store[k].ino # 0 /\ store[k].mode = "dir"
Entry(k, r) == IsDir(k) /\ r < store[k].size /\ Rec(k, r).ino # 0
HasEntry(k, name, n) ==
  \E r \in Places : Entry(k, r) /\ Rec(k, r).name = name /\ Rec(k, r).ino = n

\* A record names an inode in use; or one that is dead, because call c is
\* about to use it, or has just unlinked it.
Adding == {"lock_add", "lock_add_sb", "add"}
Resolved(name, n) ==
  \E m \in Slots : m # 0 /\ m < sb.count /\ store[m].ino = n /\ store[m].mode = Kind[name]
Pends(c, k, name, n) ==
  /\ \/ c.pc \in {"save_rest", "forget"} /\ n = core[c.path].dead
     \/ c.pc \in Adding /\ c.found = "samedir" /\ n = c.new.ino
  /\ name = c.path /\ k = SlotOf(Parent[c.path])
RecordOK(k, name, n) ==
  name \in Paths /\ (Resolved(name, n) \/ \E i \in Procs : Pends(proc[i], k, name, n))
RecordsOK ==
  \A k \in Slots : \A r \in Places :
    Entry(k, r) => RecordOK(k, Rec(k, r).name, Rec(k, r).ino)
RecordsDiffer ==
  \A k, l \in Slots : \A r, s \in Places :
    /\ Entry(k, r) /\ Entry(l, s)
    /\ Rec(k, r).ino = Rec(l, s).ino \/ (k = l /\ Rec(k, r).name = Rec(l, s).name)
    => k = l /\ r = s

\* An in-core inode is that of its slot, but for a call that is about to save
\* it, and its directory, which is in core too, has a record of it.
Grows(c, p)   == c.op = "create" /\ c.pc \in {"lock_save", "save"} /\ Parent[c.path] = p
Resizes(c, p) == c.op = "write" /\ c.pc \in {"lock_save", "save"} /\ c.path = p
Goes(c, p)    == c.op = "unlink" /\ c.path = p
Grown(p)   == \E i \in Procs : Grows(proc[i], p)
Resized(p) == \E i \in Procs : Resizes(proc[i], p)
Going(p)   == \E i \in Procs : Goes(proc[i], p)
CoreOK(p) ==
  /\ SlotOf(p) \in Slots /\ SlotOf(p) < sb.count /\ (p = Root <=> SlotOf(p) = 0)
  /\ Number(core[p]) = SlotNo(SlotOf(p))
  /\ core[p].mode = Kind[p] /\ store[SlotOf(p)].mode = Kind[p]
  /\ core[p].ino = 0 <=> Going(p)
  /\ core[p].ino # 0 => store[SlotOf(p)].ino # 0
  /\ Grown(p) => core[p] = [store[SlotOf(p)] EXCEPT !.size = @ + 1]
  /\ ~Grown(p) /\ ~Resized(p) /\ ~Going(p) => core[p] = store[SlotOf(p)]
  /\ p # Root => /\ core[Parent[p]].mode = "dir"
                 /\ HasEntry(SlotOf(Parent[p]), p, Number(core[p]))
CoresOK == \A p \in Paths : core[p] # NoInode => CoreOK(p)

\* What a create c has found and done so far: the slot of its inode, and the
\* record that has its name, which counts when the directory is saved.
Added    == {"record", "lock_children", "children", "lock_save", "save"}
Recorded == Added \ {"record"}
CreateOK(c) ==
  LET k == SlotOf(Parent[c.path]) IN
  c.op = "create" =>
    /\ c.pc \notin {"lock_dir", "lock_count", "count"} => c.new.mode = Kind[c.path]
    /\ c.found # "samedir" =>
         \A r \in Places : Entry(k, r) => Rec(k, r).name # c.path
    /\ c.found = "samedir" => /\ HasEntry(k, c.path, c.new.ino)
                              /\ c.pc \notin {"lock_save", "save"}
    /\ c.pc \in Adding =>
         IF c.found = "none" THEN c.new.ino = SlotNo(sb.count)
         ELSE \E m \in Slots : /\ m < sb.count /\ store[m].ino = 0
                               /\ store[m].dead = SlotNo(m) /\ c.new.ino = SlotNo(m)
    /\ c.pc \in Added =>
         /\ \E m \in Slots : /\ m # 0 /\ m < sb.count
                             /\ store[m] = c.new /\ c.new.ino = SlotNo(m)
         /\ c.found # "samedir" => \A l \in Slots : \A r \in Places :
                                     Entry(l, r) => Rec(l, r).ino # c.new.ino
    /\ c.pc \in Recorded /\ c.found # "samedir" =>
         /\ store[k].size < DirCap
         /\ Rec(k, store[k].size) = [name |-> c.path, ino |-> c.new.ino]
\* How far an unlink c is with the slot of its inode.
UnlinkOK(c) ==
  c.op = "unlink" =>
    /\ c.pc \in {"lock_save", "save"} <=> store[SlotOf(c.path)].ino # 0
    /\ c.pc = "save_rest" => c.slot = SlotOf(c.path)

NamesInv == /\ RecordsOK /\ RecordsDiffer /\ CoresOK
            /\ \A i \in Procs : CreateOK(proc[i]) /\ UnlinkOK(proc[i])

\* What is known when the names are looked at.
Ground == FsInv /\ OwnInv /\ Allocated /\ StoreOK

\* A slot is found again from its number.
LEMMA SlotAtFacts == \A k \in Slots : SlotAt(SlotNo(k)) = k
BY SizeAssumption DEF Slots, SlotAt, SlotNo, ROOTDIR_INODE, FirstIno

\* The store is filled from the front, each slot under its own number.
LEMMA StoreFacts ==
  ASSUME FsInv, Allocated
  PROVE  StoreOK
<1>1. PICK owner \in [Blocks -> Nat] : AllocInv(owner)
  BY DEF Allocated
<1>2. /\ SlotsGiven(owner, store) /\ StoreFull
  BY <1>1 DEF AllocInv
<1>3. 0 \in Slots /\ sb.count \in Nat /\ sb.count > 1 /\ sb.count <= MaxObjects
  BY <1>2 DEF StoreFull, Slots, FsInv, TypeOK
<1>4. \A k \in Slots : k < sb.count <=> store[k] # NoInode
  BY <1>2 DEF StoreFull, SlotsGiven
<1>5. \A k \in Slots : k < sb.count /\ store[k].ino # 0 => store[k].ino = SlotNo(k)
  BY <1>2, <1>4 DEF SlotsGiven
<1>6. \A k \in Slots : k < sb.count /\ store[k].ino = 0 /\ ~Copying(k) =>
        store[k].dead = SlotNo(k)
  BY <1>2 DEF StoreFull
<1>7. store[0].ino = ROOTDIR_INODE /\ store[0].mode = "dir"
  <2>1. store[0] # NoInode
    BY <1>3, <1>4
  <2> QED
    BY <1>2, <1>3, <2>1 DEF SlotsGiven
<1>8. ASSUME NEW k \in Slots, NEW l \in Slots, k < sb.count, l < sb.count,
             store[k].block = store[l].block
      PROVE  k = l
  <2>1. Given(owner, store[k].block, SlotNo(k)) /\ Given(owner, store[l].block, SlotNo(l))
    BY <1>2, <1>4, <1>8 DEF SlotsGiven
  <2>2. SlotNo(k) = SlotNo(l)
    BY <1>8, <2>1 DEF Given
  <2> QED
    BY <2>2, SlotNoFacts
<1> QED
  BY <1>3, <1>4, <1>5, <1>6, <1>7, <1>8 DEF StoreOK

\* One process at a time is in a create, and none unlinks beside it.
LEMMA OneChanger ==
  ASSUME NobodyCreatesBeside, FsInv, Allocated, NEW i \in Procs, NEW j \in Procs,
         proc[i].op = "create"
  PROVE  /\ proc[j].op # "unlink"
         /\ i # j /\ proc[i].pc # "lock_dir" => proc[j].op # "create" \/ proc[j].pc = "lock_dir"
<1>1. PICK owner \in [Blocks -> Nat] : AllocInv(owner)
  BY DEF Allocated
<1>2. CallGiven(owner, j, proc[j]) /\ CallGiven(owner, i, proc[i])
  BY <1>1 DEF AllocInv
<1>3. proc[j].op # "unlink"
  BY <1>2 DEF CallGiven, NobodyCreatesBeside
<1>4. CallOK(i, proc[i]) /\ CallOK(j, proc[j])
  BY DEF FsInv, CallsInv
<1> QED
  BY <1>3, <1>4 DEF CallOK

\* A record that counts, seen from the in-core inode of its directory.
LEMMA SeenInCore ==
  ASSUME Ground, NamesInv, NEW d \in Paths, core[d].mode = "dir", ~Grown(d)
  PROVE  /\ SlotOf(d) \in Slots /\ IsDir(SlotOf(d)) /\ core[d] = store[SlotOf(d)]
         /\ Records(d) = {r \in Places : r < store[SlotOf(d)].size}
         /\ \A r \in Places : RecordOf(d, r) = Rec(SlotOf(d), r)
<1>1. core[d] # NoInode
  BY DEF NoInode
<1>2. CoreOK(d)
  BY <1>1 DEF NamesInv, CoresOK
<1>3. ~Resized(d) /\ ~Going(d)
  BY DEF Ground, FsInv, CallsInv, CallOK, Resized, Going, Resizes, Goes
<1>4. core[d] = store[SlotOf(d)] /\ core[d].ino # 0
  BY <1>2, <1>3 DEF CoreOK
<1> QED
  BY <1>2, <1>4 DEF CoreOK, IsDir, Records, RecordOf, Rec, Places

\* Inodes in core are distinct.
LEMMA CoresDiffer ==
  ASSUME Ground, NamesInv, NEW p \in Paths, NEW q \in Paths,
         core[p] # NoInode, core[q] # NoInode, SlotOf(p) = SlotOf(q)
  PROVE  p = q
<1>1. CoreOK(p) /\ CoreOK(q)
  BY DEF NamesInv, CoresOK
<1>2. CASE p = Root \/ q = Root
  BY <1>1, <1>2 DEF CoreOK
<1>3. CASE p # Root /\ q # Root
  <2>1. /\ HasEntry(SlotOf(Parent[p]), p, Number(core[p]))
        /\ HasEntry(SlotOf(Parent[q]), q, Number(core[p]))
        /\ core[Parent[p]].mode = "dir" /\ core[Parent[q]].mode = "dir"
    BY <1>1, <1>3 DEF CoreOK
  <2>2. SlotOf(Parent[p]) \in Slots /\ SlotOf(Parent[q]) \in Slots
    <3>1. /\ Parent[p] \in Paths /\ Parent[q] \in Paths
          /\ core[Parent[p]] # NoInode /\ core[Parent[q]] # NoInode
      BY <1>3, <2>1 DEF NoInode
    <3> QED
      BY <3>1 DEF NamesInv, CoresOK, CoreOK
  <2>3. PICK r \in Places : /\ Entry(SlotOf(Parent[p]), r)
                            /\ Rec(SlotOf(Parent[p]), r).name = p
                            /\ Rec(SlotOf(Parent[p]), r).ino = Number(core[p])
    BY <2>1 DEF HasEntry
  <2>4. PICK s \in Places : /\ Entry(SlotOf(Parent[q]), s)
                            /\ Rec(SlotOf(Parent[q]), s).name = q
                            /\ Rec(SlotOf(Parent[q]), s).ino = Number(core[p])
    BY <2>1 DEF HasEntry
  <2>5. SlotOf(Parent[p]) = SlotOf(Parent[q]) /\ r = s
    BY <2>2, <2>3, <2>4 DEF NamesInv, RecordsDiffer
  <2> QED
    BY <2>3, <2>4, <2>5
<1> QED
  BY <1>2, <1>3

\* The number of a slot in use finds that slot.
LEMMA InodeFound ==
  ASSUME Ground, NEW m \in Slots, m < sb.count, store[m].ino # 0
  PROVE  GetInode(store, store[m].ino) = store[m]
<1>1. SlotsOf(store, store[m].ino) = {m}
  <2>1. ASSUME NEW k \in Slots, k < sb.count, store[k].ino = store[m].ino PROVE k = m
    <3>1. SlotNo(k) = SlotNo(m)
      BY <2>1 DEF Ground, StoreOK
    <3> QED
      BY <3>1, SlotNoFacts
  <2> QED
    BY <2>1 DEF SlotsOf
<1>2. Min({m}) = m
  <2>1. {m} \in SUBSET Nat
    BY DEF Slots
  <2> QED
    BY <2>1, MinFacts
<1> QED
  BY <1>1, <1>2 DEF GetInode

\* What lookup can match in a directory that is not being changed.
LEMMA NamedFacts ==
  ASSUME Ground, NamesInv, NEW p \in Paths \ {Root},
         core[Parent[p]].mode = "dir", ~Busy(Parent[p]), NEW r \in Named(p)
  PROVE  /\ r \in Places /\ Entry(SlotOf(Parent[p]), r)
         /\ Rec(SlotOf(Parent[p]), r) = RecordOf(Parent[p], r)
         /\ Rec(SlotOf(Parent[p]), r).name = p
         /\ SlotOf(Parent[p]) \in Slots
         /\ \E m \in Slots : /\ m # 0 /\ m < sb.count /\ store[m].mode = Kind[p]
                             /\ store[m].ino = RecordOf(Parent[p], r).ino
<1> DEFINE d == Parent[p]
           k == SlotOf(d)
<1>1. d \in Paths
  OBVIOUS
<1>2. ~Grown(d)
  BY DEF Busy, Grown, Grows
<1>3. /\ k \in Slots /\ IsDir(k) /\ core[d] = store[k]
      /\ Records(d) = {q \in Places : q < store[k].size}
      /\ \A q \in Places : RecordOf(d, q) = Rec(k, q)
  BY <1>1, <1>2, SeenInCore
<1>4. /\ r \in Places /\ Entry(k, r) /\ Rec(k, r).name = p /\ Rec(k, r) = RecordOf(d, r)
  BY <1>3 DEF Named, Entry
<1>5. RecordOK(k, p, Rec(k, r).ino)
  BY <1>3, <1>4 DEF NamesInv, RecordsOK
<1>6. ASSUME NEW i \in Procs, Pends(proc[i], k, p, Rec(k, r).ino) PROVE FALSE
  <2>1. proc[i].path = p
    BY <1>6 DEF Pends
  <2>2. proc[i].op \in {"create", "unlink"}
    <3>1. proc[i].pc \in Adding => proc[i].op = "create"
      BY DEF Adding, Ground, FsInv, CallsInv, CallOK, Creating
    <3>2. proc[i].pc = "forget" => proc[i].op = "unlink"
      BY DEF Ground, FsInv, CallsInv, CallOK
    <3>3. proc[i].pc = "save_rest" => proc[i].op = "unlink"
      BY DEF Ground, Allocated, AllocInv, CallGiven
    <3> QED
      BY <1>6, <3>1, <3>2, <3>3 DEF Pends
  <2> QED
    BY <2>1, <2>2 DEF Busy
<1>7. Resolved(p, Rec(k, r).ino)
  BY <1>5, <1>6 DEF RecordOK
<1> QED
  BY <1>3, <1>4, <1>7 DEF Resolved

\* NamesInv, read as the property NamesSound.
LEMMA SoundNames ==
  ASSUME Ground, NamesInv
  PROVE  NamesSound
<1>1. ASSUME NEW p \in Paths \ {Root}, core[Parent[p]].mode = "dir", ~Busy(Parent[p]),
             NEW r \in Named(p)
      PROVE  GetInode(store, RecordOf(Parent[p], r).ino).mode = Kind[p]
  <2>1. PICK m \in Slots : /\ m < sb.count /\ store[m].mode = Kind[p]
                           /\ store[m].ino = RecordOf(Parent[p], r).ino
    BY <1>1, NamedFacts
  <2>2. RecordOf(Parent[p], r).ino # 0
    BY <1>1 DEF Named
  <2> QED
    BY <2>1, <2>2, InodeFound
<1>2. NamesResolve
  BY <1>1 DEF NamesResolve
<1>3. ASSUME NEW p \in Paths \ {Root}, core[Parent[p]].mode = "dir", ~Busy(Parent[p]),
             NEW q \in Paths \ {Root}, core[Parent[q]].mode = "dir", ~Busy(Parent[q]),
             NEW r \in Named(p), NEW s \in Named(q),
             RecordOf(Parent[p], r).ino = RecordOf(Parent[q], s).ino
      PROVE  p = q /\ r = s
  <2>1. /\ r \in Places /\ Entry(SlotOf(Parent[p]), r) /\ SlotOf(Parent[p]) \in Slots
        /\ Rec(SlotOf(Parent[p]), r) = RecordOf(Parent[p], r)
        /\ Rec(SlotOf(Parent[p]), r).name = p
    BY <1>3, NamedFacts
  <2>2. /\ s \in Places /\ Entry(SlotOf(Parent[q]), s) /\ SlotOf(Parent[q]) \in Slots
        /\ Rec(SlotOf(Parent[q]), s) = RecordOf(Parent[q], s)
        /\ Rec(SlotOf(Parent[q]), s).name = q
    BY <1>3, NamedFacts
  <2>3. SlotOf(Parent[p]) = SlotOf(Parent[q]) /\ r = s
    BY <1>3, <2>1, <2>2 DEF NamesInv, RecordsDiffer
  <2> QED
    BY <2>1, <2>2, <2>3
<1>4. OneName
  <2> DEFINE quiet == {p \in Paths \ {Root} : /\ core[Parent[p]].mode = "dir"
                                              /\ ~Busy(Parent[p])}
             named == UNION {{<<p, r>> : r \in Named(p)} : p \in quiet}
  <2>1. ASSUME NEW e \in named
        PROVE  \E p \in quiet : \E r \in Named(p) : e = <<p, r>>
    OBVIOUS
  <2>2. ASSUME NEW e \in named, NEW f \in named,
               RecordOf(Parent[e[1]], e[2]).ino = RecordOf(Parent[f[1]], f[2]).ino
        PROVE  e = f
    <3>1. PICK p \in quiet : \E r \in Named(p) : e = <<p, r>>
      BY <2>1, <2>2
    <3>2. PICK r \in Named(p) : e = <<p, r>>
      BY <3>1
    <3>3. PICK q \in quiet : \E s \in Named(q) : f = <<q, s>>
      BY <2>1, <2>2
    <3>4. PICK s \in Named(q) : f = <<q, s>>
      BY <3>3
    <3>5. RecordOf(Parent[p], r).ino = RecordOf(Parent[q], s).ino
      BY <2>2, <3>2, <3>4
    <3>6. p = q /\ r = s
      BY <1>3, <3>5
    <3> QED
      BY <3>2, <3>4, <3>6
  <2> QED
    BY <2>2 DEF OneName
<1> QED
  BY <1>2, <1>4 DEF NamesSound

\* NamesInv, read as the property Coherent.
LEMMA CoresAreCoherent ==
  ASSUME Ground, NamesInv
  PROVE  Coherent
<1> SUFFICES ASSUME NEW p \in Paths, core[p] # NoInode, ~InUse(p), ~Busy(p)
             PROVE  /\ core[p] = GetInode(store, core[p].ino)
                    /\ p # Root /\ ~Busy(Parent[p]) =>
                         {RecordOf(Parent[p], r).ino : r \in Named(p)} = {core[p].ino}
  BY DEF Coherent
<1>1. CoreOK(p)
  BY DEF NamesInv, CoresOK
<1>2. ~Grown(p) /\ ~Resized(p) /\ ~Going(p)
  BY DEF InUse, Busy, Grown, Grows, Resized, Resizes, Going, Goes
<1>3. /\ core[p] = store[SlotOf(p)] /\ core[p].ino # 0
      /\ SlotOf(p) \in Slots /\ SlotOf(p) < sb.count
  BY <1>1, <1>2 DEF CoreOK
<1>4. core[p] = GetInode(store, core[p].ino)
  BY <1>3, InodeFound
<1>5. ASSUME p # Root, ~Busy(Parent[p])
      PROVE  {RecordOf(Parent[p], r).ino : r \in Named(p)} = {core[p].ino}
  <2> DEFINE k == SlotOf(Parent[p])
  <2>1. core[Parent[p]].mode = "dir" /\ HasEntry(k, p, core[p].ino)
    BY <1>1, <1>3, <1>5 DEF CoreOK, Number
  <2>2. PICK r \in Places : Entry(k, r) /\ Rec(k, r).name = p /\ Rec(k, r).ino = core[p].ino
    BY <2>1 DEF HasEntry
  <2>3. ~Grown(Parent[p]) /\ Parent[p] \in Paths
    BY <1>5 DEF Busy, Grown, Grows
  <2>4. /\ k \in Slots
        /\ Records(Parent[p]) = {q \in Places : q < store[k].size}
        /\ \A q \in Places : RecordOf(Parent[p], q) = Rec(k, q)
    BY <2>1, <2>3, SeenInCore
  <2>5. r \in Named(p) /\ RecordOf(Parent[p], r).ino = core[p].ino
    BY <2>2, <2>4 DEF Named, Entry
  <2>6. ASSUME NEW s \in Named(p) PROVE s = r
    <3>1. s \in Places /\ Entry(k, s) /\ Rec(k, s).name = p
      BY <1>5, <2>1, NamedFacts
    <3> QED
      BY <2>2, <2>4, <3>1 DEF NamesInv, RecordsDiffer
  <2> QED
    BY <2>5, <2>6
<1> QED
  BY <1>4, <1>5

\* What mkfs writes, and the root in core after the mount.
LEMMA InitNames ==
  ASSUME Init
  PROVE  NamesInv
<1>1. /\ sb.count = 2 /\ 0 \in Slots /\ 1 \in Slots /\ 0 \in Places
      /\ store[0].ino = 1 /\ store[0].mode = "dir" /\ store[0].size = 1
      /\ store[0].block = 2 /\ store[1].ino = 2 /\ store[1].mode = "file"
      /\ core[Root] = store[0] /\ \A p \in Paths \ {Root} : core[p] = NoInode
      /\ \A i \in Procs : proc[i].pc = "idle" /\ proc[i].op = "none"
  BY DEF Init, Slots, Places, ROOTDIR_INODE, Idle
<1>2. \A k \in Slots : IsDir(k) => k = 0
  BY <1>1 DEF IsDir, Slots
<1>3. Rec(0, 0) = [name |-> Welcome, ino |-> 2]
  BY <1>1 DEF Init, Rec
<1>4. \A k \in Slots : \A r \in Places : Entry(k, r) => k = 0 /\ r = 0
  BY <1>1, <1>2 DEF Entry, Places
<1>5. RecordsOK
  <2>1. Resolved(Welcome, 2)
    BY <1>1 DEF Resolved
  <2>2. RecordOK(0, Welcome, 2)
    BY <2>1 DEF RecordOK
  <2> QED
    BY <1>3, <1>4, <2>2 DEF RecordsOK
<1>6. RecordsDiffer
  BY <1>4 DEF RecordsDiffer
<1>7. CoreOK(Root)
  <2>1. SlotOf(Root) = 0 /\ Number(core[Root]) = SlotNo(0) /\ core[Root].ino # 0
    BY <1>1 DEF SlotOf, SlotAt, SlotNo, Number, ROOTDIR_INODE
  <2>2. ~Grown(Root) /\ ~Going(Root)
    BY <1>1 DEF Grown, Grows, Going, Goes
  <2> QED
    BY <1>1, <2>1, <2>2 DEF CoreOK
<1>8. CoresOK
  BY <1>1, <1>7 DEF CoresOK
<1>9. ASSUME NEW i \in Procs PROVE CreateOK(proc[i]) /\ UnlinkOK(proc[i])
  BY <1>1 DEF CreateOK, UnlinkOK
<1> QED
  BY <1>5, <1>6, <1>8, <1>9 DEF NamesInv

\* What Allocated says of the call c of a process.
LEMMA CallGround ==
  ASSUME Ground, NEW i \in Procs
  PROVE  /\ CallOK(i, proc[i]) /\ proc[i] \in Call /\ proc \in [Procs -> Call]
         /\ proc[i].pc \in {"idle", "lock_dir", "lock_count", "count", "search",
                            "lock_free", "take_block"} => proc[i].found = "none"
         /\ proc[i].pc = "save_rest" => proc[i].op = "unlink"
         /\ proc[i].pc \in Counted /\ proc[i].found = "none"
              => proc[i].new.ino = SlotNo(sb.count)
         /\ proc[i].op = "unlink" => core[proc[i].path].ino = 0
<1>1. PICK owner \in [Blocks -> Nat] : AllocInv(owner)
  BY DEF Ground, Allocated
<1>2. CallGiven(owner, i, proc[i]) /\ sb.count > 1 /\ sb.count \in Nat
  BY <1>1 DEF AllocInv, Ground, StoreOK
<1>3. SlotNo(sb.count) = sb.count + FirstIno
  BY <1>2 DEF SlotNo
<1> QED
  BY <1>2, <1>3 DEF CallGiven, Ground, FsInv, TypeOK, CallsInv

\* Where the records that count are the same, they are as they should be.
LEMMA SameEntries ==
  ASSUME RecordsDiffer,
         \A k \in Slots : \A r \in Places :
           /\ Entry(k, r)' <=> Entry(k, r)
           /\ Entry(k, r) => Rec(k, r)' = Rec(k, r)
  PROVE  /\ RecordsDiffer'
         /\ \A k \in Slots : \A name, n : HasEntry(k, name, n)' <=> HasEntry(k, name, n)
<1>1. RecordsDiffer'
  BY DEF RecordsDiffer
<1>2. \A k \in Slots : \A name, n : HasEntry(k, name, n)' <=> HasEntry(k, name, n)
  BY DEF HasEntry
<1> QED
  BY <1>1, <1>2

\* A step that only moves a process on.
LEMMA ProcNames ==
  ASSUME Ground, NamesInv, NEW i \in Procs, NEW c,
         proc' = [proc EXCEPT ![i] = c], UNCHANGED <<store, dir, core>>,
         sb'.count = sb.count,
         \A k, name, n : Pends(proc[i], k, name, n) => Pends(c, k, name, n),
         \A p : /\ Grows(c, p) <=> Grows(proc[i], p)
                /\ Resizes(c, p) <=> Resizes(proc[i], p)
                /\ Goes(c, p) <=> Goes(proc[i], p),
         CreateOK(c), UnlinkOK(c)
  PROVE  NamesInv'
<1>1. /\ proc'[i] = c /\ \A j \in Procs \ {i} : proc'[j] = proc[j]
      /\ \A k, r : Rec(k, r)' = Rec(k, r) /\ (Entry(k, r)' <=> Entry(k, r))
      /\ \A p : SlotOf(p)' = SlotOf(p)
  BY CallGround DEF Rec, Entry, IsDir, SlotOf
<1>2. /\ RecordsDiffer'
      /\ \A k \in Slots : \A name, n : HasEntry(k, name, n)' <=> HasEntry(k, name, n)
  BY <1>1, SameEntries DEF NamesInv
<1>3. \A j \in Procs : \A k, name, n : Pends(proc[j], k, name, n) => Pends(proc[j], k, name, n)'
  BY <1>1 DEF Pends
<1>4. RecordsOK'
  <2>1. \A name, n : Resolved(name, n)' <=> Resolved(name, n)
    BY DEF Resolved
  <2>2. \A k, name, n : RecordOK(k, name, n) => RecordOK(k, name, n)'
    BY <1>3, <2>1 DEF RecordOK
  <2> QED
    BY <1>1, <2>2 DEF NamesInv, RecordsOK
<1>5. \A p : /\ Grown(p)' <=> Grown(p)
             /\ Resized(p)' <=> Resized(p)
             /\ Going(p)' <=> Going(p)
  <2>1. \A j \in Procs : \A p : /\ Grows(proc[j], p)' <=> Grows(proc[j], p)
                                /\ Resizes(proc[j], p)' <=> Resizes(proc[j], p)
                                /\ Goes(proc[j], p)' <=> Goes(proc[j], p)
    BY <1>1 DEF Grows, Resizes, Goes
  <2> QED
    BY <2>1 DEF Grown, Resized, Going
<1>6. CoresOK'
  <2>1. ASSUME NEW p \in Paths, core[p] # NoInode PROVE CoreOK(p)'
    <3>1. CoreOK(p)
      BY <2>1 DEF NamesInv, CoresOK
    <3>2. p # Root => SlotOf(Parent[p]) \in Slots
      <4>1. p # Root => core[Parent[p]] # NoInode /\ Parent[p] \in Paths
        BY <3>1 DEF CoreOK, NoInode
      <4> QED
        BY <4>1 DEF NamesInv, CoresOK, CoreOK
    <3> QED
      BY <1>1, <1>2, <1>5, <3>1, <3>2 DEF CoreOK
  <2> QED
    BY <2>1 DEF CoresOK
<1>7. ASSUME NEW j \in Procs PROVE CreateOK(proc[j])' /\ UnlinkOK(proc[j])'
  <2>1. CreateOK(proc'[j]) /\ UnlinkOK(proc'[j])
    BY <1>1 DEF NamesInv
  <2>2. CreateOK(proc[j])'
    BY <1>1, <2>1 DEF CreateOK, HasEntry
  <2>3. UnlinkOK(proc[j])'
    BY <1>1, <2>1 DEF UnlinkOK
  <2> QED
    BY <2>2, <2>3
<1> QED
  BY <1>2, <1>4, <1>6, <1>7 DEF NamesInv

\* A step from one label to another of the same stage.
LEMMA MoveNames ==
  ASSUME Ground, NamesInv, NEW i \in Procs, NEW l \in Label, Go(i, l),
         UNCHANGED <<store, dir, core>>, sb'.count = sb.count,
         proc[i].pc \notin {"save_rest", "forget"}, l \notin {"save_rest", "forget"},
         l \in Adding <=> proc[i].pc \in Adding,
         l \in Added <=> proc[i].pc \in Added,
         l \in Recorded <=> proc[i].pc \in Recorded,
         l \in {"lock_save", "save"} <=> proc[i].pc \in {"lock_save", "save"},
         l \in {"lock_dir", "lock_count", "count"}
           <=> proc[i].pc \in {"lock_dir", "lock_count", "count"}
  PROVE  NamesInv'
<1>1. PICK c \in Call :
           /\ proc' = [proc EXCEPT ![i] = c]
           /\ c.pc = l /\ c.op = proc[i].op /\ c.path = proc[i].path
           /\ c.new = proc[i].new /\ c.found = proc[i].found
  BY AdvanceFacts DEF Ground, FsInv
<1>2. \A k, name, n : Pends(proc[i], k, name, n) => Pends(c, k, name, n)
  BY <1>1 DEF Pends
<1>3. \A p : /\ Grows(c, p) <=> Grows(proc[i], p)
             /\ Resizes(c, p) <=> Resizes(proc[i], p)
             /\ Goes(c, p) <=> Goes(proc[i], p)
  BY <1>1 DEF Grows, Resizes, Goes
<1>4. CreateOK(proc[i]) /\ UnlinkOK(proc[i])
  BY DEF NamesInv
<1>5. CreateOK(c)
  BY <1>1, <1>4 DEF CreateOK
<1>6. UnlinkOK(c)
  BY <1>1, <1>4 DEF UnlinkOK
<1> QED
  BY <1>1, <1>2, <1>3, <1>5, <1>6, ProcNames

\* Taking a mutex changes neither the tree nor what is in core.
LEMMA AcquireNames ==
  ASSUME Ground, NamesInv, NEW i \in Procs, Acquire(i)
  PROVE  NamesInv'
<1> DEFINE l == proc[i].pc
<1>1. /\ UNCHANGED <<sb, store, dir, core>> /\ l \in DOMAIN LockOf /\ Go(i, Then[l])
  BY DEF Acquire
<1>2. /\ l \in {"lock_dir", "lock_count", "lock_free", "lock_add", "lock_add_sb",
                "lock_children", "lock_size", "lock_save"}
      /\ Then[l] \in Label
  BY <1>1, LabelFacts
<1>3. /\ Then["lock_dir"] = "lock_count" /\ Then["lock_count"] = "count"
      /\ Then["lock_free"] = "take_block" /\ Then["lock_add"] = "lock_add_sb"
      /\ Then["lock_add_sb"] = "add" /\ Then["lock_children"] = "children"
      /\ Then["lock_size"] = "resize" /\ Then["lock_save"] = "save"
  BY DEF Then
<1> HIDE DEF l
<1>4. /\ l \notin {"save_rest", "forget"} /\ Then[l] \notin {"save_rest", "forget"}
      /\ Then[l] \in Adding <=> l \in Adding
      /\ Then[l] \in Added <=> l \in Added
      /\ Then[l] \in Recorded <=> l \in Recorded
      /\ Then[l] \in {"lock_save", "save"} <=> l \in {"lock_save", "save"}
      /\ Then[l] \in {"lock_dir", "lock_count", "count"}
           <=> l \in {"lock_dir", "lock_count", "count"}
  BY <1>2, <1>3 DEF Adding, Added, Recorded
<1>5. sb'.count = sb.count
  BY <1>1
<1> USE DEF l
<1> QED
  BY <1>1, <1>2, <1>4, <1>5, MoveNames

\* A step after which i is not in a call, and before which it had done nothing.
LEMMA ReturnNames ==
  ASSUME Ground, NamesInv, NEW i \in Procs, NEW code, Return(i, code),
         UNCHANGED <<store, dir, core>>, sb'.count = sb.count,
         proc[i].op = "create", proc[i].pc \notin Adding \cup {"lock_save", "save"}
  PROVE  NamesInv'
<1> DEFINE c == [Idle EXCEPT !.ret = code]
<1>1. proc' = [proc EXCEPT ![i] = c] /\ c.op = "none" /\ c.pc = "idle"
  BY DEF Return, Idle
<1>2. CallOK(i, proc[i])
  BY CallGround
<1>3. \A k, name, n : ~Pends(proc[i], k, name, n)
  BY <1>2, CallGround DEF Pends, CallOK
<1>4. \A p : /\ ~Grows(c, p) /\ ~Grows(proc[i], p)
             /\ ~Resizes(c, p) /\ ~Resizes(proc[i], p)
             /\ ~Goes(c, p) /\ ~Goes(proc[i], p)
  BY <1>1 DEF Grows, Resizes, Goes
<1>5. CreateOK(c) /\ UnlinkOK(c)
  BY <1>1 DEF CreateOK, UnlinkOK
<1> HIDE DEF c
<1> QED
  BY <1>1, <1>3, <1>4, <1>5, ProcNames

\* A step of a create that adds nothing to the records and the store.
LEMMA PrepareNames ==
  ASSUME Ground, NamesInv, NEW i \in Procs, NEW c \in Call,
         proc' = [proc EXCEPT ![i] = c],
         UNCHANGED <<store, dir, core>>, sb'.count = sb.count,
         c.op = "create", proc[i].op = "create", c.path = proc[i].path,
         c.found # "samedir", proc[i].found # "samedir", c.new.mode = Kind[c.path],
         proc[i].pc \in {"count", "search", "take_block"},
         \/ c.pc = "search"
         \/ /\ c.pc = "lock_add"
            /\ IF c.found = "none" THEN c.new.ino = SlotNo(sb.count)
               ELSE \E m \in Slots : /\ m < sb.count /\ store[m].ino = 0
                                     /\ store[m].dead = SlotNo(m)
                                     /\ c.new.ino = SlotNo(m)
  PROVE  NamesInv'
<1>1. \A k, name, n : ~Pends(proc[i], k, name, n)
  BY DEF Pends, Adding
<1>2. \A p : /\ Grows(c, p) <=> Grows(proc[i], p)
             /\ Resizes(c, p) <=> Resizes(proc[i], p)
             /\ Goes(c, p) <=> Goes(proc[i], p)
  BY DEF Grows, Resizes, Goes
<1>3. CreateOK(proc[i])
  BY DEF NamesInv
<1>4. CreateOK(c)
  BY <1>3 DEF CreateOK, Adding, Added, Recorded
<1>5. UnlinkOK(c)
  BY DEF UnlinkOK
<1> QED
  BY <1>1, <1>2, <1>4, <1>5, ProcNames

\* The object count gives a create its inode number.
LEMMA CountNames ==
  ASSUME Ground, NamesInv, NEW i \in Procs, Count(i)
  PROVE  NamesInv'
<1>1. /\ UNCHANGED <<sb, store, dir, core>> /\ proc[i].pc = "count" /\ sb'.count = sb.count
  BY DEF Count
<1>2. /\ proc[i].op = "create" /\ proc[i].found = "none" /\ proc[i] \in Call
      /\ proc[i].path \in Paths
  BY <1>1, CallGround, CallFacts DEF CallOK, Creating
<1>3. CASE Return(i, "ENOSPC")
  BY <1>1, <1>2, <1>3, ReturnNames DEF Adding
<1>4. ASSUME NEW d \in Stale,
             proc' = [proc EXCEPT ![i].pc = "search",
                        ![i].new = [mode |-> Kind[proc[i].path],
                                    ino |-> sb.count + FirstIno,
                                    dead |-> d, block |-> 0, size |-> 0]]
      PROVE  NamesInv'
  <2> DEFINE new == [mode |-> Kind[proc[i].path], ino |-> sb.count + FirstIno,
                     dead |-> d, block |-> 0, size |-> 0]
             c == [proc[i] EXCEPT !.pc = "search", !.new = new]
  <2>1. proc' = [proc EXCEPT ![i] = c]
    BY <1>2, <1>4
  <2>2. new \in Inode
    BY <1>2, SizeAssumption DEF Inode, Ground, StoreOK, FirstIno
  <2>3. /\ c \in Call /\ c.op = "create" /\ c.path = proc[i].path /\ c.pc = "search"
        /\ c.found = "none" /\ c.new.mode = Kind[c.path]
    BY <1>2, <2>2 DEF Call, Label
  <2> HIDE DEF c
  <2> QED
    BY <1>1, <1>2, <2>1, <2>3, PrepareNames
<1> QED
  BY <1>3, <1>4 DEF Count

\* A create takes a free block for its inode.
LEMMA TakeBlockNames ==
  ASSUME Ground, NamesInv, NEW i \in Procs, TakeBlock(i)
  PROVE  NamesInv'
<1>1. /\ UNCHANGED <<store, dir, core>> /\ proc[i].pc = "take_block"
      /\ sb'.count = sb.count
  BY DEF TakeBlock, Ground, FsInv, TypeOK
<1>2. /\ proc[i].op = "create" /\ proc[i].found = "none" /\ proc[i] \in Call
      /\ proc[i].path \in Paths /\ proc[i].new.ino = SlotNo(sb.count)
      /\ proc[i].new \in Inode
  BY <1>1, CallGround, CallFacts DEF CallOK, Creating, Counted
<1>3. proc[i].new.mode = Kind[proc[i].path]
  BY <1>1, <1>2 DEF NamesInv, CreateOK
<1>4. CASE Return(i, "ENOSPC")
  BY <1>1, <1>2, <1>4, ReturnNames DEF Adding
<1>5. ASSUME NEW b \in Blocks,
             proc' = [proc EXCEPT ![i].pc = "lock_add", ![i].new = [@ EXCEPT !.block = b]]
      PROVE  NamesInv'
  <2> DEFINE c == [proc[i] EXCEPT !.pc = "lock_add", !.new = [@ EXCEPT !.block = b]]
  <2>1. proc' = [proc EXCEPT ![i] = c]
    BY <1>2, <1>5
  <2>2. /\ c \in Call /\ c.op = "create" /\ c.path = proc[i].path /\ c.pc = "lock_add"
        /\ c.found = "none" /\ c.new.mode = Kind[c.path] /\ c.new.ino = SlotNo(sb.count)
    BY <1>2, <1>3 DEF Call, Label, LockOf, Inode
  <2> HIDE DEF c
  <2> QED
    BY <1>1, <1>2, <2>1, <2>2, PrepareNames
<1> QED
  BY <1>4, <1>5 DEF TakeBlock

\* A call begins.
LEMMA EnterNames ==
  ASSUME Ground, NamesInv, NEW i \in Procs, NEW p \in Paths,
         Create(i, p) \/ Write(i, p)
  PROVE  NamesInv'
<1>1. PICK op \in {"create", "write"}, l \in {"lock_dir", "lock_size"} :
        /\ Enter(i, op, p, l)
        /\ op = "create" <=> l = "lock_dir"
        /\ op = "create" => Create(i, p)
  BY DEF Create, Write
<1> DEFINE c == [proc[i] EXCEPT !.pc = l, !.op = op, !.path = p, !.ret = "none"]
<1>2. /\ UNCHANGED <<sb, store, dir, core>> /\ proc[i].pc = "idle" /\ sb'.count = sb.count
      /\ proc' = [proc EXCEPT ![i] = c]
  BY <1>1, CallGround DEF Enter
<1>3. /\ proc[i].op = "none" /\ proc[i].found = "none" /\ proc[i] \in Call
  BY <1>2, CallGround DEF CallOK
<1>4. c.pc = l /\ c.op = op /\ c.path = p /\ c.found = "none"
  BY <1>3 DEF Call
<1> HIDE DEF c
<1>5. \A k, name, n : ~Pends(proc[i], k, name, n)
  BY <1>2 DEF Pends, Adding
<1>6. \A q : /\ ~Grows(c, q) /\ ~Grows(proc[i], q)
             /\ ~Resizes(c, q) /\ ~Resizes(proc[i], q)
             /\ ~Goes(c, q) /\ ~Goes(proc[i], q)
  BY <1>2, <1>3, <1>4 DEF Grows, Resizes, Goes
<1>7. ASSUME op = "create"
      PROVE  \A r \in Places : Entry(SlotOf(Parent[p]), r) => Rec(SlotOf(Parent[p]), r).name # p
  <2>1. /\ core[Parent[p]].mode = "dir" /\ ~Busy(Parent[p]) /\ Named(p) = {} /\ p # Root
    BY <1>1, <1>7 DEF Create
  <2>2. ~Grown(Parent[p]) /\ Parent[p] \in Paths
    BY <2>1 DEF Grown, Grows, Busy
  <2>3. /\ Records(Parent[p]) = {r \in Places : r < store[SlotOf(Parent[p])].size}
        /\ \A r \in Places : RecordOf(Parent[p], r) = Rec(SlotOf(Parent[p]), r)
    BY <2>1, <2>2, SeenInCore
  <2> QED
    BY <2>1, <2>3 DEF Named, Entry
<1>8. CreateOK(c)
  BY <1>1, <1>4, <1>7 DEF CreateOK, Adding, Added, Recorded
<1>9. UnlinkOK(c)
  BY <1>1, <1>4 DEF UnlinkOK
<1> QED
  BY <1>2, <1>5, <1>6, <1>8, <1>9, ProcNames

\* What a step that changes neither store nor directories leaves alone: the
\* records; a call that does not see the change; an inode in core.
LEMMA CoreRecords ==
  ASSUME Ground, NamesInv, UNCHANGED <<store, dir>>, sb'.count = sb.count,
         \A j \in Procs : \A k, name, n :
           Pends(proc[j], k, name, n) => Pends(proc[j], k, name, n)'
  PROVE  /\ RecordsOK' /\ RecordsDiffer'
         /\ \A k \in Slots : \A name, n : HasEntry(k, name, n)' <=> HasEntry(k, name, n)
         /\ \A k, r : Rec(k, r)' = Rec(k, r) /\ (Entry(k, r)' <=> Entry(k, r))
<1>1. \A k, r : Rec(k, r)' = Rec(k, r) /\ (Entry(k, r)' <=> Entry(k, r))
  BY DEF Rec, Entry, IsDir
<1>2. /\ RecordsDiffer'
      /\ \A k \in Slots : \A name, n : HasEntry(k, name, n)' <=> HasEntry(k, name, n)
  BY <1>1, SameEntries DEF NamesInv
<1>3. \A name, n : Resolved(name, n)' <=> Resolved(name, n)
  BY DEF Resolved
<1>4. \A k, name, n : RecordOK(k, name, n) => RecordOK(k, name, n)'
  BY <1>3 DEF RecordOK
<1>5. RecordsOK'
  BY <1>1, <1>4 DEF NamesInv, RecordsOK
<1> QED
  BY <1>1, <1>2, <1>5

\* The directory that a call changes is in core.
LEMMA ParentIsDir ==
  ASSUME Ground, NamesInv, NEW j \in Procs, proc[j].op \in {"create", "unlink"}
  PROVE  /\ proc[j].path \in Paths \ {Root} /\ Parent[proc[j].path] \in Paths
         /\ core[Parent[proc[j].path]].mode = "dir"
<1>1. CallOK(j, proc[j]) /\ proc[j].path \in Paths
  BY CallGround, CallFacts
<1>2. proc[j].op = "unlink" => core[proc[j].path] # NoInode
  BY <1>1 DEF CallOK, NoInode
<1>3. proc[j].op = "unlink" => CoreOK(proc[j].path)
  BY <1>1, <1>2 DEF NamesInv, CoresOK
<1> QED
  BY <1>1, <1>3 DEF CallOK, CoreOK

\* A call that does not move stays right when only inodes in core change.
LEMMA OtherCalls ==
  ASSUME Ground, NamesInv, UNCHANGED <<store, dir>>, sb'.count = sb.count,
         NEW j \in Procs, proc'[j] = proc[j],
         proc[j].op \in {"create", "unlink"} =>
           \A q \in {proc[j].path, Parent[proc[j].path]} :
             \/ Number(core'[q]) = Number(core[q]) /\ core'[q].dead = core[q].dead
             \/ core[q] = NoInode
  PROVE  /\ CreateOK(proc[j])' /\ UnlinkOK(proc[j])'
         /\ \A k, name, n : Pends(proc[j], k, name, n) => Pends(proc[j], k, name, n)'
<1> DEFINE p == proc[j].path
<1>1. /\ CallOK(j, proc[j]) /\ p \in Paths
      /\ proc[j].pc = "save_rest" => proc[j].op = "unlink"
      /\ CreateOK(proc[j]) /\ UnlinkOK(proc[j])
  BY CallGround, CallFacts DEF NamesInv
<1>2. \A k, r : Rec(k, r)' = Rec(k, r) /\ (Entry(k, r)' <=> Entry(k, r))
  BY DEF Rec, Entry, IsDir
<1>3. ASSUME NEW q \in {p, Parent[p]}, core[q] # NoInode,
             proc[j].op \in {"create", "unlink"}
      PROVE  SlotOf(q)' = SlotOf(q) /\ core'[q].dead = core[q].dead
  BY <1>3 DEF SlotOf
<1>4. proc[j].op \in {"create", "unlink"} =>
        /\ core[Parent[p]] # NoInode
        /\ proc[j].op = "unlink" => core[p] # NoInode
  BY ParentIsDir, <1>1 DEF NoInode, CallOK
<1>5. proc[j].op \in {"create", "unlink"} => SlotOf(Parent[p])' = SlotOf(Parent[p])
  BY <1>3, <1>4
<1>6. ASSUME proc[j].op = "unlink"
      PROVE  SlotOf(p)' = SlotOf(p) /\ core'[p].dead = core[p].dead
  <2>1. core[p] # NoInode /\ p' = p
    BY <1>4, <1>6
  <2>2. SlotAt(Number(core'[p])) = SlotAt(Number(core[p])) /\ core'[p].dead = core[p].dead
    BY <1>6, <2>1
  <2> QED
    BY <2>1, <2>2 DEF SlotOf
<1>7. CreateOK(proc[j])'
  <2>1. CASE proc[j].op # "create"
    BY <2>1 DEF CreateOK
  <2>2. CASE proc[j].op = "create"
    <3>1. PICK k : k = SlotOf(Parent[p])
      OBVIOUS
    <3>2. k = SlotOf(Parent[p])' /\ p' = p
      BY <1>5, <2>2, <3>1
    <3>3. \A l, name, n : HasEntry(l, name, n)' <=> HasEntry(l, name, n)
      BY <1>2 DEF HasEntry
    <3> QED
      BY <1>1, <1>2, <2>2, <3>1, <3>2, <3>3 DEF CreateOK
  <2> QED
    BY <2>1, <2>2
<1>8. UnlinkOK(proc[j])'
  BY <1>1, <1>6 DEF UnlinkOK
<1>9. ASSUME NEW k, NEW name, NEW n, Pends(proc[j], k, name, n)
      PROVE  Pends(proc[j], k, name, n)'
  <2>1. /\ proc[j].pc \in Adding => proc[j].op = "create"
        /\ proc[j].pc \in {"save_rest", "forget"} => proc[j].op = "unlink"
    BY <1>1 DEF CallOK, Creating, Adding
  <2>2. /\ \/ proc[j].pc \in {"save_rest", "forget"} /\ n = core[p].dead
           \/ proc[j].pc \in Adding /\ proc[j].found = "samedir" /\ n = proc[j].new.ino
        /\ name = p /\ k = SlotOf(Parent[p])
    BY <1>9 DEF Pends
  <2>3. k = SlotOf(Parent[p])'
    BY <1>5, <2>1, <2>2
  <2>4. \/ proc'[j].pc \in {"save_rest", "forget"} /\ n = core'[p].dead
        \/ proc'[j].pc \in Adding /\ proc'[j].found = "samedir" /\ n = proc'[j].new.ino
    BY <1>6, <2>1, <2>2
  <2> QED
    BY <2>2, <2>3, <2>4 DEF Pends
<1> QED
  BY <1>7, <1>8, <1>9

\* An inode in core stays right when the store and the directories are kept.
LEMMA OtherCore ==
  ASSUME Ground, NamesInv, UNCHANGED <<store, dir>>, sb'.count = sb.count,
         NEW q \in Paths, core[q] # NoInode, core'[q] = core[q],
         Grown(q)' <=> Grown(q), Resized(q)' <=> Resized(q), Going(q)' <=> Going(q),
         q # Root => /\ core'[Parent[q]].mode = core[Parent[q]].mode
                     /\ Number(core'[Parent[q]]) = Number(core[Parent[q]])
  PROVE  CoreOK(q)'
<1>1. CoreOK(q)
  BY DEF NamesInv, CoresOK
<1>2. SlotOf(q)' = SlotOf(q) /\ (q # Root => SlotOf(Parent[q])' = SlotOf(Parent[q]))
  BY DEF SlotOf
<1>3. \A k, name, n : HasEntry(k, name, n)' <=> HasEntry(k, name, n)
  BY DEF HasEntry, Entry, IsDir, Rec
<1> QED
  BY <1>1, <1>2, <1>3 DEF CoreOK

\* What a step of i does to the calls that matter to a path.
LEMMA CallsOf ==
  ASSUME NEW i \in Procs, \A j \in Procs \ {i} : proc'[j] = proc[j], NEW q
  PROVE  /\ (Grows(proc[i], q) <=> Grows(proc[i], q)') => (Grown(q) <=> Grown(q)')
         /\ (Resizes(proc[i], q) <=> Resizes(proc[i], q)') => (Resized(q) <=> Resized(q)')
         /\ (Goes(proc[i], q) <=> Goes(proc[i], q)') => (Going(q) <=> Going(q)')
<1>1. \A j \in Procs \ {i} : /\ Grows(proc[j], q) <=> Grows(proc[j], q)'
                             /\ Resizes(proc[j], q) <=> Resizes(proc[j], q)'
                             /\ Goes(proc[j], q) <=> Goes(proc[j], q)'
  BY DEF Grows, Resizes, Goes
<1> QED
  BY <1>1 DEF Grown, Resized, Going

\* write sets the size in core before inode_save writes it.
LEMMA ResizeNames ==
  ASSUME Ground, NamesInv, NEW i \in Procs, Resize(i)
  PROVE  NamesInv'
<1>0. PICK p : p = proc[i].path
  OBVIOUS
<1>1. /\ UNCHANGED <<sb, store, dir>> /\ sb'.count = sb.count /\ proc[i].pc = "resize"
      /\ Go(i, "lock_save")
  BY DEF Resize
<1>2. /\ proc[i].op = "write" /\ p \in Paths /\ core[p].mode = "file" /\ proc[i] \in Call
      /\ core \in [Paths -> Inode]
  BY <1>0, <1>1, CallGround, CallFacts DEF CallOK, Ground, FsInv, TypeOK
<1>3. PICK n \in FileSizes : core' = [core EXCEPT ![p].size = n]
  BY <1>0 DEF Resize
<1>4. /\ proc'[i].pc = "lock_save" /\ proc'[i].op = "write" /\ proc'[i].path = p
      /\ \A j \in Procs \ {i} : proc'[j] = proc[j]
  BY <1>0, <1>1, <1>2, CallGround
<1>5. /\ core'[p] = [core[p] EXCEPT !.size = n]
      /\ \A q \in Paths : /\ q # p => core'[q] = core[q]
                          /\ core'[q].mode = core[q].mode /\ core'[q].ino = core[q].ino
                          /\ core'[q].dead = core[q].dead
                          /\ Number(core'[q]) = Number(core[q])
  BY <1>2, <1>3 DEF Inode, Number
<1>6. ASSUME NEW j \in Procs
      PROVE  /\ CreateOK(proc[j])' /\ UnlinkOK(proc[j])'
             /\ \A k, name, m : Pends(proc[j], k, name, m) => Pends(proc[j], k, name, m)'
  <2>1. CASE j # i
    <3>1. proc[j].op \in {"create", "unlink"} =>
            \A q \in {proc[j].path, Parent[proc[j].path]} :
              Number(core'[q]) = Number(core[q]) /\ core'[q].dead = core[q].dead
      BY <1>5, ParentIsDir
    <3> QED
      BY <1>1, <1>4, <2>1, <3>1, OtherCalls
  <2>2. CASE j = i
    BY <1>1, <1>2, <1>4, <2>2 DEF CreateOK, UnlinkOK, Pends, Adding
  <2> QED
    BY <2>1, <2>2
<1>7. RecordsOK' /\ RecordsDiffer'
  BY <1>1, <1>6, CoreRecords
<1>8. core[p] # NoInode
  BY <1>2 DEF NoInode
<1>9. ASSUME NEW q \in Paths, core'[q] # NoInode, q # p PROVE CoreOK(q)'
  <2>1. /\ Grows(proc[i], q) <=> Grows(proc[i], q)'
        /\ Resizes(proc[i], q) <=> Resizes(proc[i], q)'
        /\ Goes(proc[i], q) <=> Goes(proc[i], q)'
    BY <1>0, <1>1, <1>2, <1>4, <1>9 DEF Grows, Resizes, Goes
  <2>2. core'[q] = core[q]
    BY <1>5, <1>9
  <2>3. q # Root => Parent[q] \in Paths
    OBVIOUS
  <2> QED
    BY <1>1, <1>4, <1>5, <1>9, <2>1, <2>2, <2>3, CallsOf, OtherCore
<1>10. CoreOK(p)'
  <2>1. CoreOK(p)
    BY <1>2, <1>8 DEF NamesInv, CoresOK
  <2>2. Resized(p)'
    BY <1>4 DEF Resized, Resizes
  <2>3. ~Grown(p)'
    <3>1. ASSUME NEW j \in Procs, proc'[j].op = "create" PROVE Parent[proc'[j].path] # p
      BY <1>0, <1>2, <1>4, <3>1, CallGround DEF CallOK
    <3> QED
      BY <3>1 DEF Grown, Grows
  <2>4. Going(p)' <=> Going(p)
    BY <1>0, <1>2, <1>4, CallsOf DEF Goes
  <2>5. SlotOf(p)' = SlotOf(p) /\ (p # Root => SlotOf(Parent[p])' = SlotOf(Parent[p]))
    BY <1>2, <1>5 DEF SlotOf
  <2>6. \A k, name, m : HasEntry(k, name, m)' <=> HasEntry(k, name, m)
    BY <1>1 DEF HasEntry, Entry, IsDir, Rec
  <2>7. p # Root => core'[Parent[p]].mode = core[Parent[p]].mode
    BY <1>2, <1>5
  <2> QED
    BY <1>1, <1>2, <1>5, <2>1, <2>2, <2>3, <2>4, <2>5, <2>6, <2>7 DEF CoreOK
<1>11. CoresOK'
  BY <1>9, <1>10 DEF CoresOK
<1> QED
  BY <1>6, <1>7, <1>11 DEF NamesInv

\* No call under way is about an inode that was not in core, but for the one
\* that creates it.
LEMMA FreshCore ==
  ASSUME Ground, NEW p \in Paths, core[p].mode = "none",
         \A j \in Procs : proc'[j] = proc[j] \/ proc'[j].op = "none"
  PROVE  ~Grown(p)' /\ ~Resized(p)' /\ ~Going(p)'
<1>1. ASSUME NEW j \in Procs
      PROVE  ~Grows(proc'[j], p) /\ ~Resizes(proc'[j], p) /\ ~Goes(proc'[j], p)
  BY CallGround DEF Grows, Resizes, Goes, CallOK
<1> QED
  BY <1>1 DEF Grown, Resized, Going, Grows, Resizes, Goes

\* An inode that comes into core as its slot has it.
LEMMA FreshOK ==
  ASSUME Ground, StoreOK, NEW p \in Paths \ {Root}, NEW m \in Slots, m # 0,
         m < sb'.count, store'[m].ino = SlotNo(m), store'[m].mode = Kind[p],
         core'[p] = store'[m], core'[Parent[p]].mode = "dir",
         ~Grown(p)', ~Resized(p)', ~Going(p)',
         HasEntry(SlotOf(Parent[p]), p, SlotNo(m))'
  PROVE  CoreOK(p)'
<1>1. Number(core'[p]) = SlotNo(m) /\ SlotNo(m) # 0 /\ SlotAt(SlotNo(m)) = m
  BY SlotNoFacts, SlotAtFacts DEF Number
<1>2. SlotOf(p)' = m
  BY <1>1 DEF SlotOf
<1> QED
  BY <1>1, <1>2 DEF CoreOK

\* A path whose inode and whose directory a step does not touch.
LEMMA Untouched ==
  ASSUME Ground, NamesInv, UNCHANGED <<store, dir>>, sb'.count = sb.count,
         NEW p \in Paths, NEW q \in Paths, q # p, core'[q] # NoInode,
         \A x \in Paths \ {p} : core'[x] = core[x],
         Grown(q)' <=> Grown(q), Resized(q)' <=> Resized(q), Going(q)' <=> Going(q),
         \/ core[p].mode # "dir"
         \/ core'[p].mode = core[p].mode /\ Number(core'[p]) = Number(core[p])
         \/ q # Root => Parent[q] # p
  PROVE  CoreOK(q)'
<1>1. core[q] # NoInode /\ core'[q] = core[q]
  OBVIOUS
<1>2. CoreOK(q)
  BY <1>1 DEF NamesInv, CoresOK
<1>3. q # Root => /\ core'[Parent[q]].mode = core[Parent[q]].mode
                  /\ Number(core'[Parent[q]]) = Number(core[Parent[q]])
  <2>1. ASSUME q # Root, Parent[q] = p
        PROVE  core'[p].mode = core[p].mode /\ Number(core'[p]) = Number(core[p])
    BY <1>2, <2>1 DEF CoreOK
  <2>2. ASSUME q # Root, Parent[q] # p
        PROVE  core'[Parent[q]] = core[Parent[q]]
    BY <2>2
  <2> QED
    BY <2>1, <2>2
<1> QED
  BY <1>1, <1>3, OtherCore

\* lookup copies into core the slot that the record leads to.
LEMMA LookupNames ==
  ASSUME Ground, NamesInv, NEW p \in Paths, Lookup(p)
  PROVE  NamesInv'
<1> DEFINE d == Parent[p]
           r == Min(Named(p))
<1>1. /\ UNCHANGED <<sb, store, dir, proc>> /\ sb'.count = sb.count /\ p # Root
      /\ core[p] = NoInode /\ core[d].mode = "dir" /\ ~Busy(d) /\ Named(p) # {}
      /\ core' = [core EXCEPT ![p] = GetInode(store, RecordOf(d, r).ino)]
      /\ core[p].mode = "none" /\ core \in [Paths -> Inode]
  BY DEF Lookup, NoInode, Ground, FsInv, TypeOK
<1>2. r \in Named(p)
  <2>1. Named(p) \in SUBSET Nat
    BY DEF Named, Records
  <2> QED
    BY <1>1, <2>1, MinFacts
<1> HIDE DEF r
<1>3. /\ r \in Places /\ Entry(SlotOf(d), r) /\ Rec(SlotOf(d), r).name = p
      /\ Rec(SlotOf(d), r) = RecordOf(d, r) /\ SlotOf(d) \in Slots
  BY <1>1, <1>2, NamedFacts
<1>4. PICK m \in Slots : /\ m # 0 /\ m < sb.count /\ store[m].mode = Kind[p]
                         /\ store[m].ino = RecordOf(d, r).ino
  BY <1>1, <1>2, NamedFacts
<1>5. store[m].ino # 0 /\ store[m].ino = SlotNo(m)
  BY <1>2, <1>4 DEF Named, Ground, StoreOK
<1>6. /\ core'[p] = store[m] /\ \A x \in Paths \ {p} : core'[x] = core[x]
  BY <1>1, <1>4, <1>5, InodeFound
<1>7. ASSUME NEW j \in Procs
      PROVE  /\ CreateOK(proc[j])' /\ UnlinkOK(proc[j])'
             /\ \A k, name, n : Pends(proc[j], k, name, n) => Pends(proc[j], k, name, n)'
  <2>1. ASSUME NEW q \in Paths
        PROVE  \/ Number(core'[q]) = Number(core[q]) /\ core'[q].dead = core[q].dead
               \/ core[q] = NoInode
    BY <1>1, <1>6
  <2> QED
    BY <1>1, <2>1, OtherCalls, ParentIsDir
<1>8. /\ RecordsOK' /\ RecordsDiffer'
      /\ \A k \in Slots : \A name, n : HasEntry(k, name, n)' <=> HasEntry(k, name, n)
  BY <1>1, <1>7, CoreRecords
<1>9. CoreOK(p)'
  <2>1. ~Grown(p)' /\ ~Resized(p)' /\ ~Going(p)'
    BY <1>1, FreshCore
  <2>2. d # p /\ d \in Paths
    BY <1>1
  <2>3. SlotOf(d)' = SlotOf(d) /\ core'[d].mode = "dir"
    BY <1>1, <1>6, <2>2 DEF SlotOf
  <2>4. HasEntry(SlotOf(d), p, SlotNo(m))
    BY <1>3, <1>4, <1>5 DEF HasEntry
  <2>5. HasEntry(SlotOf(d), p, SlotNo(m))'
    BY <1>3, <1>8, <2>3, <2>4
  <2> QED
    BY <1>1, <1>4, <1>5, <1>6, <2>1, <2>3, <2>5, FreshOK DEF Ground
<1>10. ASSUME NEW q \in Paths, core'[q] # NoInode, q # p PROVE CoreOK(q)'
  <2>1. (Grown(q)' <=> Grown(q)) /\ (Resized(q)' <=> Resized(q)) /\ (Going(q)' <=> Going(q))
    BY <1>1 DEF Grown, Grows, Resized, Resizes, Going, Goes
  <2>2. core[p].mode # "dir"
    BY <1>1
  <2> QED
    BY <1>1, <1>6, <1>10, <2>1, <2>2, Untouched
<1>11. CoresOK'
  BY <1>9, <1>10 DEF CoresOK
<1> QED
  BY <1>7, <1>8, <1>11 DEF NamesInv

\* What the VFS drops from core is what the slot says.
LEMMA EvictNames ==
  ASSUME Ground, NamesInv, NEW p \in Paths, Evict(p)
  PROVE  NamesInv'
<1>1. /\ UNCHANGED <<sb, store, dir, proc>> /\ sb'.count = sb.count /\ p # Root
      /\ ~InUse(p) /\ ~Busy(p)
      /\ \A q \in Paths \ {Root} : Parent[q] = p => core[q] = NoInode
      /\ core' = [core EXCEPT ![p] = NoInode] /\ core \in [Paths -> Inode]
  BY DEF Evict, Ground, FsInv, TypeOK
<1>2. core'[p] = NoInode /\ \A x \in Paths \ {p} : core'[x] = core[x]
  BY <1>1
<1>3. ASSUME NEW j \in Procs
      PROVE  /\ CreateOK(proc[j])' /\ UnlinkOK(proc[j])'
             /\ \A k, name, n : Pends(proc[j], k, name, n) => Pends(proc[j], k, name, n)'
  <2>1. proc[j].op \in {"create", "unlink"} => p \notin {proc[j].path, Parent[proc[j].path]}
    BY <1>1 DEF InUse, Busy
  <2>2. proc[j].op \in {"create", "unlink"} =>
          \A q \in {proc[j].path, Parent[proc[j].path]} : core'[q] = core[q]
    BY <1>2, <2>1, ParentIsDir
  <2> QED
    BY <1>1, <2>2, OtherCalls
<1>4. RecordsOK' /\ RecordsDiffer'
  BY <1>1, <1>3, CoreRecords
<1>5. ASSUME NEW q \in Paths, core'[q] # NoInode PROVE CoreOK(q)'
  <2>1. (Grown(q)' <=> Grown(q)) /\ (Resized(q)' <=> Resized(q)) /\ (Going(q)' <=> Going(q))
    BY <1>1 DEF Grown, Grows, Resized, Resizes, Going, Goes
  <2>2. q # p /\ (q # Root => Parent[q] # p)
    BY <1>1, <1>2, <1>5
  <2> QED
    BY <1>1, <1>2, <1>5, <2>1, <2>2, Untouched
<1>6. CoresOK'
  BY <1>5 DEF CoresOK
<1> QED
  BY <1>3, <1>4, <1>6 DEF NamesInv

\* A process that is not in a call has nothing pending.
LEMMA IdleFacts ==
  ASSUME Ground, NEW i \in Procs, proc[i].op = "none"
  PROVE  /\ \A k, name, n : ~Pends(proc[i], k, name, n)
         /\ \A q : /\ ~Grows(proc[i], q) /\ ~Resizes(proc[i], q) /\ ~Goes(proc[i], q)
  BY CallGround DEF CallOK, Pends, Adding, Grows, Resizes, Goes

\* unlink up to inode_save: the file is dead in core and not yet in its slot.
LEMMA UnlinkNames ==
  ASSUME Ground, NamesInv, NEW i \in Procs, NEW p \in Paths, Unlink(i, p)
  PROVE  NamesInv'
<1> DEFINE found == {r \in Records(Parent[p]) : RecordOf(Parent[p], r).ino = core[p].ino}
<1>1. /\ UNCHANGED <<sb, store, dir>> /\ sb'.count = sb.count /\ proc[i].pc = "idle"
      /\ p # Root /\ core[p].mode = "file" /\ ~Busy(Parent[p]) /\ ~InUse(p)
      /\ core \in [Paths -> Inode] /\ Parent[p] \in Paths /\ core[p] # NoInode
      /\ proc[i].op = "none"
  BY CallGround DEF Unlink, Ground, FsInv, TypeOK, NoInode, CallOK
<1>2. CoreOK(p) /\ ~Going(p)
  BY <1>1 DEF NamesInv, CoresOK, Going, Goes, InUse
<1>3. /\ core[p].ino # 0 /\ Number(core[p]) = core[p].ino /\ core[Parent[p]].mode = "dir"
      /\ HasEntry(SlotOf(Parent[p]), p, core[p].ino) /\ store[SlotOf(p)].ino # 0
  BY <1>1, <1>2 DEF CoreOK, Number
<1>4. found # {}
  <2>1. ~Grown(Parent[p])
    BY <1>1 DEF Busy, Grown, Grows
  <2>2. /\ Records(Parent[p]) = {r \in Places : r < store[SlotOf(Parent[p])].size}
        /\ \A r \in Places : RecordOf(Parent[p], r) = Rec(SlotOf(Parent[p]), r)
    BY <1>1, <1>3, <2>1, SeenInCore
  <2>3. PICK r \in Places : /\ Entry(SlotOf(Parent[p]), r)
                            /\ Rec(SlotOf(Parent[p]), r).ino = core[p].ino
    BY <1>3 DEF HasEntry
  <2> QED
    BY <2>2, <2>3 DEF Entry
<1>5. /\ core' = [core EXCEPT ![p].dead = core[p].ino, ![p].ino = 0]
      /\ proc' = [proc EXCEPT ![i].pc = "lock_save", ![i].op = "unlink",
                              ![i].path = p, ![i].ret = "none"]
  BY <1>4 DEF Unlink
<1>6. /\ proc'[i].pc = "lock_save" /\ proc'[i].op = "unlink" /\ proc'[i].path = p
      /\ \A j \in Procs \ {i} : proc'[j] = proc[j]
  BY <1>5, CallGround DEF Call
<1>7. /\ \A q \in Paths \ {p} : core'[q] = core[q]
      /\ core'[p].ino = 0 /\ core'[p].mode = core[p].mode
      /\ Number(core'[p]) = Number(core[p])
  BY <1>1, <1>3, <1>5 DEF Inode, Number
<1>8. SlotOf(p)' = SlotOf(p) /\ SlotOf(Parent[p])' = SlotOf(Parent[p])
  BY <1>1, <1>3, <1>7 DEF SlotOf
<1>9. ASSUME NEW j \in Procs
      PROVE  /\ CreateOK(proc[j])' /\ UnlinkOK(proc[j])'
             /\ \A k, name, n : Pends(proc[j], k, name, n) => Pends(proc[j], k, name, n)'
  <2>1. CASE j # i
    <3>1. proc[j].op \in {"create", "unlink"} =>
            \A q \in {proc[j].path, Parent[proc[j].path]} : core'[q] = core[q]
      <4>1. proc[j].op \in {"create", "unlink"} => proc[j].path # p
        BY <1>1 DEF InUse
      <4> QED
        BY <1>1, <1>7, <4>1, ParentIsDir
    <3> QED
      BY <1>1, <1>6, <2>1, <3>1, OtherCalls
  <2>2. CASE j = i
    <3>1. CreateOK(proc[i])'
      BY <1>6 DEF CreateOK
    <3>2. UnlinkOK(proc[i])'
      BY <1>1, <1>3, <1>6, <1>8 DEF UnlinkOK
    <3> QED
      BY <1>1, <2>2, <3>1, <3>2, IdleFacts
  <2> QED
    BY <2>1, <2>2
<1>10. /\ RecordsOK' /\ RecordsDiffer'
       /\ \A k \in Slots : \A name, n : HasEntry(k, name, n)' <=> HasEntry(k, name, n)
  BY <1>1, <1>9, CoreRecords
<1>11. CoreOK(p)'
  <2>1. Going(p)'
    BY <1>6 DEF Going, Goes
  <2>2. ~Grown(p)'
    <3>1. ASSUME NEW j \in Procs PROVE ~Grows(proc'[j], p)
      BY <1>1, <1>6, CallGround DEF CallOK, Grows
    <3> QED
      BY <3>1 DEF Grown, Grows
  <2>3. \A k, name, n : HasEntry(k, name, n)' <=> HasEntry(k, name, n)
    BY <1>1 DEF HasEntry, Entry, IsDir, Rec
  <2>4. core'[Parent[p]].mode = "dir"
    BY <1>1, <1>3, <1>7
  <2> QED
    BY <1>1, <1>2, <1>3, <1>7, <1>8, <2>1, <2>2, <2>3, <2>4 DEF CoreOK
<1>12. ASSUME NEW q \in Paths, core'[q] # NoInode, q # p PROVE CoreOK(q)'
  <2>1. /\ Grows(proc[i], q) <=> Grows(proc[i], q)'
        /\ Resizes(proc[i], q) <=> Resizes(proc[i], q)'
        /\ Goes(proc[i], q) <=> Goes(proc[i], q)'
    <3>1. ~Grows(proc[i], q) /\ ~Resizes(proc[i], q) /\ ~Goes(proc[i], q)
      BY <1>1, IdleFacts
    <3>2. ~Grows(proc'[i], q) /\ ~Resizes(proc'[i], q) /\ ~Goes(proc'[i], q)
      BY <1>6, <1>12 DEF Grows, Resizes, Goes
    <3> QED
      BY <3>1, <3>2 DEF Grows, Resizes, Goes
  <2>2. (Grown(q)' <=> Grown(q)) /\ (Resized(q)' <=> Resized(q)) /\ (Going(q)' <=> Going(q))
    BY <1>6, <2>1, CallsOf
  <2>3. core[p].mode # "dir"
    BY <1>1
  <2> QED
    BY <1>1, <1>7, <1>12, <2>2, <2>3, Untouched
<1>13. CoresOK'
  BY <1>11, <1>12 DEF CoresOK
<1> QED
  BY <1>9, <1>10, <1>13 DEF NamesInv

\* The directory that a create is adding to is as its slot has it, up to the
\* change of its length.
LEMMA DirSeen ==
  ASSUME Ground, NamesInv, NEW i \in Procs, proc[i].op = "create",
         proc[i].pc \notin {"lock_save", "save"}
  PROVE  LET d == Parent[proc[i].path] IN
         /\ ~Grown(d) /\ d \in Paths /\ core[d].mode = "dir" /\ core[d] # NoInode
         /\ SlotOf(d) \in Slots /\ IsDir(SlotOf(d)) /\ core[d] = store[SlotOf(d)]
         /\ Records(d) = {r \in Places : r < store[SlotOf(d)].size}
         /\ \A r \in Places : RecordOf(d, r) = Rec(SlotOf(d), r)
<1> PICK d : d = Parent[proc[i].path]
  OBVIOUS
<1>1. d \in Paths /\ core[d].mode = "dir" /\ core[d] # NoInode
  BY ParentIsDir DEF NoInode
<1>2. ~Grown(d)
  <2>1. ASSUME NEW j \in Procs, Grows(proc[j], d) PROVE FALSE
    BY <2>1 DEF Grows, Ground, FsInv, CallsInv, CallsApart
  <2> QED
    BY <2>1 DEF Grown
<1>3. /\ SlotOf(d) \in Slots /\ IsDir(SlotOf(d)) /\ core[d] = store[SlotOf(d)]
      /\ Records(d) = {r \in Places : r < store[SlotOf(d)].size}
      /\ \A r \in Places : RecordOf(d, r) = Rec(SlotOf(d), r)
  BY <1>1, <1>2, SeenInCore
<1> QED
  BY <1>1, <1>2, <1>3

\* A create puts its inode in core.
LEMMA ArriveNames ==
  ASSUME Ground, NamesInv, NEW i \in Procs, proc[i].op = "create",
         At(i, "children"), proc[i].found = "samedir", Return(i, "ok"),
         UNCHANGED <<sb, store, dir>>,
         core' = [core EXCEPT ![proc[i].path] = proc[i].new]
  PROVE  NamesInv'
<1>0. PICK p : p = proc[i].path
  OBVIOUS
<1>1. /\ sb'.count = sb.count /\ p \in Paths \ {Root} /\ core[p] = NoInode
      /\ core[p].mode = "none" /\ core[Parent[p]].mode = "dir" /\ Parent[p] \in Paths
      /\ Parent[p] # p
  BY <1>0, ParentIsDir, CallGround DEF CallOK, NoInode
<1>2. /\ core'[p] = proc[i].new /\ \A x \in Paths \ {p} : core'[x] = core[x]
  BY <1>0, <1>1 DEF Ground, FsInv, TypeOK
<1>3. /\ proc'[i].pc = "idle" /\ proc'[i].op = "none"
      /\ \A j \in Procs \ {i} : proc'[j] = proc[j]
  BY CallGround DEF Return, Idle
<1>4. CreateOK(proc[i])
  BY DEF NamesInv
<1>5. PICK m \in Slots : /\ m # 0 /\ m < sb.count /\ store[m] = proc[i].new
                         /\ proc[i].new.ino = SlotNo(m)
  BY <1>4 DEF CreateOK, Added
<1>6. /\ proc[i].new.mode = Kind[p] /\ HasEntry(SlotOf(Parent[p]), p, SlotNo(m))
  BY <1>0, <1>4, <1>5 DEF CreateOK
<1>7. ASSUME NEW j \in Procs
      PROVE  /\ CreateOK(proc[j])' /\ UnlinkOK(proc[j])'
             /\ \A k, name, n : Pends(proc[j], k, name, n) => Pends(proc[j], k, name, n)'
  <2>1. CASE j # i
    <3>1. ASSUME NEW q \in Paths
          PROVE  \/ Number(core'[q]) = Number(core[q]) /\ core'[q].dead = core[q].dead
                 \/ core[q] = NoInode
      BY <1>1, <1>2
    <3> QED
      BY <1>1, <1>3, <2>1, <3>1, OtherCalls, ParentIsDir
  <2>2. CASE j = i
    BY <1>3, <2>2 DEF CreateOK, UnlinkOK, Pends, Adding
  <2> QED
    BY <2>1, <2>2
<1>8. /\ RecordsOK' /\ RecordsDiffer'
      /\ \A k \in Slots : \A name, n : HasEntry(k, name, n)' <=> HasEntry(k, name, n)
  BY <1>1, <1>7, CoreRecords
<1>9. CoreOK(p)'
  <2>1. ~Grown(p)' /\ ~Resized(p)' /\ ~Going(p)'
    BY <1>1, <1>3, FreshCore
  <2>2. SlotOf(Parent[p])' = SlotOf(Parent[p]) /\ core'[Parent[p]].mode = "dir"
    BY <1>1, <1>2 DEF SlotOf
  <2>3. HasEntry(SlotOf(Parent[p]), p, SlotNo(m))'
    BY <1>1, <1>6, <2>2 DEF HasEntry, Entry, IsDir, Rec
  <2> QED
    BY <1>1, <1>2, <1>5, <1>6, <2>1, <2>2, <2>3, FreshOK DEF Ground
<1>10. ASSUME NEW q \in Paths, core'[q] # NoInode, q # p PROVE CoreOK(q)'
  <2>1. /\ Grows(proc[i], q) <=> Grows(proc[i], q)'
        /\ Resizes(proc[i], q) <=> Resizes(proc[i], q)'
        /\ Goes(proc[i], q) <=> Goes(proc[i], q)'
    BY <1>3 DEF Grows, Resizes, Goes
  <2>2. (Grown(q)' <=> Grown(q)) /\ (Resized(q)' <=> Resized(q)) /\ (Going(q)' <=> Going(q))
    BY <1>3, <2>1, CallsOf
  <2>3. core[p].mode # "dir"
    BY <1>1
  <2> QED
    BY <1>1, <1>2, <1>10, <2>2, <2>3, Untouched
<1>11. CoresOK'
  BY <1>9, <1>10 DEF CoresOK
<1> QED
  BY <1>7, <1>8, <1>11 DEF NamesInv

\* A new record makes its directory longer in core; it counts once that is
\* saved.
LEMMA ChildrenNames ==
  ASSUME Ground, NamesInv, NEW i \in Procs, Children(i)
  PROVE  NamesInv'
<1>0. PICK p : p = proc[i].path
  OBVIOUS
<1> DEFINE d == Parent[p]
<1>1. /\ UNCHANGED <<sb, store, dir>> /\ sb'.count = sb.count /\ proc[i].pc = "children"
      /\ proc[i].op = "create" /\ CreateOK(proc[i]) /\ proc[i] \in Call
      /\ core \in [Paths -> Inode]
  BY CallGround DEF Children, CallOK, Creating, NamesInv, Ground, FsInv, TypeOK
<1>2. CASE proc[i].found = "samedir"
  BY <1>1, <1>2, ArriveNames DEF Children, Saved
<1>3. CASE proc[i].found # "samedir"
  <2>1. /\ core' = [core EXCEPT ![d].size = @ + 1] /\ Go(i, "lock_save")
    BY <1>0, <1>3 DEF Children
  <2>2. /\ ~Grown(d) /\ d \in Paths /\ core[d].mode = "dir" /\ core[d] # NoInode
        /\ SlotOf(d) \in Slots /\ core[d] = store[SlotOf(d)]
    BY <1>0, <1>1, DirSeen
  <2>3. /\ core'[d] = [core[d] EXCEPT !.size = @ + 1]
        /\ \A q \in Paths : /\ q # d => core'[q] = core[q]
                            /\ core'[q].mode = core[q].mode /\ core'[q].ino = core[q].ino
                            /\ core'[q].dead = core[q].dead
                            /\ Number(core'[q]) = Number(core[q])
    BY <1>1, <2>1, <2>2 DEF Inode, Number
  <2>4. /\ proc'[i] = [proc[i] EXCEPT !.pc = "lock_save"]
        /\ proc'[i].pc = "lock_save" /\ proc'[i].op = "create" /\ proc'[i].path = p
        /\ proc'[i].new = proc[i].new /\ proc'[i].found = proc[i].found
        /\ \A j \in Procs \ {i} : proc'[j] = proc[j]
    BY <1>0, <1>1, <2>1, CallGround DEF Call
  <2>5. SlotOf(d)' = SlotOf(d)
    BY <2>2, <2>3 DEF SlotOf
  <2>6. \A k, r : Rec(k, r)' = Rec(k, r) /\ (Entry(k, r)' <=> Entry(k, r))
    BY <1>1 DEF Rec, Entry, IsDir
  <2>7. ASSUME NEW j \in Procs
        PROVE  /\ CreateOK(proc[j])' /\ UnlinkOK(proc[j])'
               /\ \A k, name, m : Pends(proc[j], k, name, m) => Pends(proc[j], k, name, m)'
    <3>1. CASE j # i
      <4>1. proc[j].op \in {"create", "unlink"} =>
              \A q \in {proc[j].path, Parent[proc[j].path]} :
                Number(core'[q]) = Number(core[q]) /\ core'[q].dead = core[q].dead
        BY <2>3, ParentIsDir
      <4> QED
        BY <1>1, <2>4, <3>1, <4>1, OtherCalls
    <3>2. CASE j = i
      <4>1. CreateOK(proc[i])'
        <5>1. PICK k : k = SlotOf(d)
          OBVIOUS
        <5>2. k = SlotOf(Parent[proc[i].path])'
          BY <2>4, <2>5, <5>1
        <5>3. /\ proc[i].new.mode = Kind[p]
              /\ \A r \in Places : Entry(k, r) => Rec(k, r).name # p
              /\ \E m \in Slots : /\ m # 0 /\ m < sb.count
                                  /\ store[m] = proc[i].new /\ proc[i].new.ino = SlotNo(m)
              /\ \A l \in Slots : \A r \in Places :
                   Entry(l, r) => Rec(l, r).ino # proc[i].new.ino
              /\ store[k].size < DirCap
              /\ Rec(k, store[k].size) = [name |-> p, ino |-> proc[i].new.ino]
          BY <1>0, <1>1, <1>3, <5>1 DEF CreateOK, Added, Recorded
        <5> QED
          BY <1>1, <1>3, <2>4, <2>6, <5>2, <5>3 DEF CreateOK, Adding
      <4>2. UnlinkOK(proc[i])'
        BY <2>4 DEF UnlinkOK
      <4>3. \A k, name, m : ~Pends(proc[i], k, name, m)
        BY <1>1 DEF Pends, Adding
      <4> QED
        BY <3>2, <4>1, <4>2, <4>3
    <3> QED
      BY <3>1, <3>2
  <2>8. RecordsOK' /\ RecordsDiffer'
    BY <1>1, <2>7, CoreRecords
  <2>9. CoreOK(d)'
    <3>1. CoreOK(d)
      BY <2>2 DEF NamesInv, CoresOK
    <3>2. Grown(d)'
      BY <2>4 DEF Grown, Grows
    <3>3. Going(d)' <=> Going(d)
      BY <1>1, <2>4, CallsOf DEF Goes
    <3>4. d # Root => SlotOf(Parent[d])' = SlotOf(Parent[d])
      BY <2>2, <2>3 DEF SlotOf
    <3>5. \A k, name, m : HasEntry(k, name, m)' <=> HasEntry(k, name, m)
      BY <2>6 DEF HasEntry
    <3>6. d # Root => core'[Parent[d]].mode = core[Parent[d]].mode
      BY <2>2, <2>3
    <3> QED
      BY <1>1, <2>2, <2>3, <2>5, <3>1, <3>2, <3>3, <3>4, <3>5, <3>6 DEF CoreOK
  <2>10. ASSUME NEW q \in Paths, core'[q] # NoInode, q # d PROVE CoreOK(q)'
    <3>1. /\ Grows(proc[i], q) <=> Grows(proc[i], q)'
          /\ Resizes(proc[i], q) <=> Resizes(proc[i], q)'
          /\ Goes(proc[i], q) <=> Goes(proc[i], q)'
      BY <1>0, <1>1, <2>4, <2>10 DEF Grows, Resizes, Goes
    <3>2. (Grown(q)' <=> Grown(q)) /\ (Resized(q)' <=> Resized(q)) /\ (Going(q)' <=> Going(q))
      BY <2>4, <3>1, CallsOf
    <3> QED
      BY <1>1, <2>2, <2>3, <2>10, <3>2, Untouched
  <2>11. CoresOK'
    BY <2>9, <2>10 DEF CoresOK
  <2> QED
    BY <2>7, <2>8, <2>11 DEF NamesInv
<1> QED
  BY <1>2, <1>3

\* Record r of the directory in slot k becomes x: what this leaves alone.
Wrote(k, r, x) == dir' = [dir EXCEPT ![store[k].block][r] = x]
\* Writing one record leaves the others as they are.
LEMMA RecWritten ==
  ASSUME Ground, NEW k \in Slots, k < sb.count, NEW r0 \in Places, NEW x,
         Wrote(k, r0, x), store' = store
  PROVE  /\ Rec(k, r0)' = x
         /\ \A l \in Slots : \A r \in Places :
              l < sb.count /\ (l # k \/ r # r0) => Rec(l, r)' = Rec(l, r)
<1>1. PICK b : b = store[k].block
  OBVIOUS
<1>2. PICK f : f = dir
  OBVIOUS
<1>3. PICK g : g = dir'
  OBVIOUS
<1>4. f \in [Blocks -> DirBlock] /\ b \in Blocks
  BY <1>1, <1>2 DEF Ground, FsInv, TypeOK, Inode
<1>5. g = [f EXCEPT ![b][r0] = x]
  BY <1>1, <1>2, <1>3 DEF Wrote
<1>6. /\ g[b][r0] = x /\ \A r \in Places \ {r0} : g[b][r] = f[b][r]
      /\ \A e \in Blocks \ {b} : g[e] = f[e]
  <2>1. PICK row \in [Places -> [name : Paths \cup {NoName}, ino : Nat]] : row = f[b]
    BY <1>4 DEF DirBlock, Places
  <2>2. PICK new : new = [row EXCEPT ![r0] = x]
    OBVIOUS
  <2>3. g = [f EXCEPT ![b] = new]
    BY <1>5, <2>1, <2>2
  <2>4. new[r0] = x /\ \A r \in Places \ {r0} : new[r] = row[r]
    BY <2>2
  <2>5. g[b] = new /\ \A e \in Blocks \ {b} : g[e] = f[e]
    BY <1>4, <2>3
  <2> QED
    BY <2>1, <2>4, <2>5
<1>7. \A l, r : Rec(l, r)' = g[store[l].block][r] /\ Rec(l, r) = f[store[l].block][r]
  BY <1>2, <1>3 DEF Rec
<1>8. \A l \in Slots : l < sb.count /\ l # k =>
        store[l].block \in Blocks \ {b}
  BY <1>1 DEF Ground, StoreOK, FsInv, TypeOK, Inode
<1>9. Rec(k, r0)' = x
  BY <1>1, <1>6, <1>7
<1>10. \A r \in Places \ {r0} : Rec(k, r)' = Rec(k, r)
  BY <1>1, <1>6, <1>7
<1>11. ASSUME NEW l \in Slots, l < sb.count, l # k, NEW r PROVE Rec(l, r)' = Rec(l, r)
  BY <1>6, <1>7, <1>8, <1>11
<1> QED
  BY <1>9, <1>10, <1>11

\* One more record counts: its number and, in its directory, its name are new.
LEMMA NewEntry ==
  ASSUME RecordsDiffer, NEW k \in Slots, NEW r0 \in Places, NEW p, NEW n,
         \A l \in Slots : \A r \in Places : l # k \/ r # r0 =>
           /\ Entry(l, r)' <=> Entry(l, r)
           /\ Entry(l, r) => Rec(l, r)' = Rec(l, r),
         Entry(k, r0)', Rec(k, r0)' = [name |-> p, ino |-> n], ~Entry(k, r0),
         \A l \in Slots : \A r \in Places : Entry(l, r) => Rec(l, r).ino # n,
         \A r \in Places : Entry(k, r) => Rec(k, r).name # p
  PROVE  /\ RecordsDiffer' /\ HasEntry(k, p, n)'
         /\ \A l \in Slots : \A name, x : HasEntry(l, name, x) => HasEntry(l, name, x)'
<1>1. ASSUME NEW l \in Slots, NEW m \in Slots, NEW r \in Places, NEW s \in Places,
             Entry(l, r)', Entry(m, s)',
             \/ Rec(l, r)'.ino = Rec(m, s)'.ino
             \/ l = m /\ Rec(l, r)'.name = Rec(m, s)'.name
      PROVE  l = m /\ r = s
  <2>1. CASE l = k /\ r = r0
    BY <1>1, <2>1
  <2>2. CASE m = k /\ s = r0
    BY <1>1, <2>2
  <2>3. CASE ~(l = k /\ r = r0) /\ ~(m = k /\ s = r0)
    <3>1. /\ Entry(l, r) /\ Entry(m, s)
          /\ Rec(l, r)' = Rec(l, r) /\ Rec(m, s)' = Rec(m, s)
      BY <1>1, <2>3
    <3> QED
      BY <1>1, <3>1 DEF RecordsDiffer
  <2> QED
    BY <2>1, <2>2, <2>3
<1>2. RecordsDiffer'
  BY <1>1 DEF RecordsDiffer
<1>3. HasEntry(k, p, n)'
  BY DEF HasEntry
<1>4. \A l \in Slots : \A name, x : HasEntry(l, name, x) => HasEntry(l, name, x)'
  BY DEF HasEntry
<1> QED
  BY <1>2, <1>3, <1>4

\* The records of a create beside which nobody changes the tree name inodes
\* in use: none has the number of a dead slot.
LEMMA NoDeadRecord ==
  ASSUME Ground, NamesInv, NobodyCreatesBeside, NEW i \in Procs,
         proc[i].op = "create", proc[i].pc # "lock_dir",
         proc[i].pc \in Adding => proc[i].found # "samedir",
         NEW l \in Slots, NEW r \in Places, Entry(l, r)
  PROVE  Resolved(Rec(l, r).name, Rec(l, r).ino)
<1>1. RecordOK(l, Rec(l, r).name, Rec(l, r).ino)
  BY DEF NamesInv, RecordsOK
<1>2. ASSUME NEW j \in Procs, Pends(proc[j], l, Rec(l, r).name, Rec(l, r).ino)
      PROVE  FALSE
  <2>1. proc[j].op # "unlink"
    BY OneChanger DEF Ground
  <2>2. proc[j].pc \in Adding /\ proc[j].found = "samedir"
    BY <1>2, <2>1, CallGround DEF Pends, CallOK
  <2>3. proc[j].op = "create" /\ proc[j].pc # "lock_dir" /\ j # i
    BY <2>2, CallGround DEF CallOK, Creating, Adding
  <2> QED
    BY <2>3, OneChanger DEF Ground
<1> QED
  BY <1>1, <1>2 DEF RecordOK

\* One more record counts, x in place r0 of slot k, and nothing else changes.
Gained(k, r0, x) ==
  /\ k \in Slots /\ r0 \in Places
  /\ ~Entry(k, r0) /\ Entry(k, r0)' /\ Rec(k, r0)' = x
  /\ \A l \in Slots : \A r \in Places : l # k \/ r # r0 =>
       /\ Entry(l, r)' <=> Entry(l, r)
       /\ Entry(l, r) => Rec(l, r)' = Rec(l, r)

\* A create writes record x, which counts from then on, in a hole of its
\* directory: no other record changes.
LEMMA HoleFilled ==
  ASSUME Ground, NamesInv, NEW i \in Procs, proc[i].op = "create", At(i, "search"),
         NEW r0 \in Holes(Parent[proc[i].path]), NEW x, x.ino # 0,
         NEW k, k = SlotOf(Parent[proc[i].path]), Wrote(k, r0, x),
         UNCHANGED <<sb, store, core>>
  PROVE  Gained(k, r0, x)
<1>0. PICK d : d = Parent[proc[i].path]
  OBVIOUS
<1>1. k = SlotOf(d)
  BY <1>0
<1>2. /\ d \in Paths /\ core[d].mode = "dir" /\ core[d] # NoInode
      /\ k \in Slots /\ IsDir(k) /\ core[d] = store[k]
      /\ Records(d) = {r \in Places : r < store[k].size}
      /\ \A r \in Places : RecordOf(d, r) = Rec(k, r)
  BY <1>0, <1>1, DirSeen
<1>3. /\ r0 \in Places /\ r0 < store[k].size /\ Rec(k, r0).ino = 0 /\ ~Entry(k, r0)
  BY <1>0, <1>2 DEF Holes, Entry
<1>4. /\ Rec(k, r0)' = x
      /\ \A l \in Slots : \A r \in Places :
           l < sb.count /\ (l # k \/ r # r0) => Rec(l, r)' = Rec(l, r)
  <2>1. k < sb.count /\ store' = store
    BY <1>2 DEF IsDir
  <2> QED
    BY <1>2, <1>3, <2>1, RecWritten
<1>5. \A l : IsDir(l)' <=> IsDir(l)
  BY DEF IsDir
<1>6. \A l \in Slots : \A r \in Places : IsDir(l) /\ (l # k \/ r # r0) => Rec(l, r)' = Rec(l, r)
  BY <1>4 DEF IsDir
<1>7. Entry(k, r0)'
  BY <1>2, <1>3, <1>4, <1>5 DEF Entry
<1>8. \A l \in Slots : \A r \in Places : l # k \/ r # r0 =>
        /\ Entry(l, r)' <=> Entry(l, r)
        /\ Entry(l, r) => Rec(l, r)' = Rec(l, r)
  BY <1>5, <1>6 DEF Entry
<1> QED
  BY <1>2, <1>3, <1>4, <1>7, <1>8 DEF Gained

\* The create that gives a dead inode's number to a hole of its directory.
LEMMA FillNames ==
  ASSUME Ground, NamesInv, NobodyCreatesBeside, NEW i \in Procs,
         proc[i].op = "create", At(i, "search"),
         NEW c, proc' = [proc EXCEPT ![i] = c],
         c.op = "create", c.path = proc[i].path, c.pc = "lock_add", c.found = "samedir",
         c.new.mode = proc[i].new.mode,
         NEW m \in Slots, m < sb.count, store[m].ino = 0, store[m].dead = SlotNo(m),
         c.new.ino = SlotNo(m),
         NEW r0 \in Holes(Parent[proc[i].path]),
         NEW x, x = [name |-> proc[i].path, ino |-> SlotNo(m)],
         Wrote(SlotOf(Parent[proc[i].path]), r0, x),
         UNCHANGED <<sb, store, core>>
  PROVE  NamesInv'
<1>0. PICK p : p = proc[i].path
  OBVIOUS
<1> DEFINE d == Parent[p]
<1>1. PICK k : k = SlotOf(d)
  OBVIOUS
<1>2. SlotNo(m) # 0 /\ x.ino # 0
  BY SlotNoFacts
<1>3. /\ k \in Slots /\ r0 \in Places /\ ~Entry(k, r0)
      /\ \A l \in Slots : \A r \in Places : l # k \/ r # r0 =>
           /\ Entry(l, r)' <=> Entry(l, r)
           /\ Entry(l, r) => Rec(l, r)' = Rec(l, r)
      /\ Entry(k, r0)' /\ Rec(k, r0)' = [name |-> p, ino |-> SlotNo(m)]
  <2>1. k = SlotOf(Parent[proc[i].path]) /\ Wrote(k, r0, x) /\ x.ino # 0
    BY <1>0, <1>1, <1>2
  <2>2. x = [name |-> p, ino |-> SlotNo(m)]
    BY <1>0
  <2>3. Gained(k, r0, x)
    BY <2>1, HoleFilled
  <2> QED
    BY <2>2, <2>3 DEF Gained
<1>4. \A l \in Slots : \A r \in Places : Entry(l, r) => Rec(l, r).ino # SlotNo(m)
  <2> SUFFICES ASSUME NEW l \in Slots, NEW r \in Places, Entry(l, r),
                      Rec(l, r).ino = SlotNo(m)
               PROVE  FALSE
    OBVIOUS
  <2>1. Resolved(Rec(l, r).name, SlotNo(m))
    BY NoDeadRecord DEF Adding
  <2>2. PICK y \in Slots : y < sb.count /\ store[y].ino = SlotNo(m)
    BY <2>1 DEF Resolved
  <2>3. SlotNo(y) = SlotNo(m)
    BY <1>2, <2>2 DEF Ground, StoreOK
  <2> QED
    BY <1>2, <2>2, <2>3, SlotNoFacts
<1>5. CreateOK(proc[i]) /\ proc[i].found = "none"
  BY CallGround DEF NamesInv
<1>6. \A r \in Places : Entry(k, r) => Rec(k, r).name # p
  BY <1>0, <1>1, <1>5 DEF CreateOK
<1>7. /\ RecordsDiffer' /\ HasEntry(k, p, SlotNo(m))'
      /\ \A l \in Slots : \A name, y : HasEntry(l, name, y) => HasEntry(l, name, y)'
  <2>1. RecordsDiffer
    BY DEF NamesInv
  <2> QED
    BY <1>3, <1>4, <1>6, <2>1, NewEntry
<1>8. /\ proc'[i] = c /\ \A j \in Procs \ {i} : proc'[j] = proc[j]
      /\ \A q : SlotOf(q)' = SlotOf(q)
  BY CallGround DEF SlotOf
<1>9. RecordsOK'
  <2>1. \A name, n : Resolved(name, n)' <=> Resolved(name, n)
    BY DEF Resolved
  <2>2. \A j \in Procs : \A l, name, n : Pends(proc[j], l, name, n) => Pends(proc[j], l, name, n)'
    <3>1. \A l, name, n : ~Pends(proc[i], l, name, n)
      BY DEF Pends, Adding
    <3> QED
      BY <1>8, <3>1 DEF Pends
  <2>3. \A l, name, n : RecordOK(l, name, n) => RecordOK(l, name, n)'
    BY <2>1, <2>2 DEF RecordOK
  <2>4. RecordOK(k, p, SlotNo(m))'
    <3>1. Pends(proc[i], k, p, SlotNo(m))'
      BY <1>0, <1>1, <1>8 DEF Pends, Adding
    <3>2. p \in Paths
      BY <1>0, CallGround, CallFacts
    <3> QED
      BY <3>1, <3>2 DEF RecordOK
  <2>5. ASSUME NEW l \in Slots, NEW r \in Places, Entry(l, r)'
        PROVE  RecordOK(l, Rec(l, r).name, Rec(l, r).ino)'
    <3>1. CASE l = k /\ r = r0
      BY <1>3, <2>4, <3>1
    <3>2. CASE l # k \/ r # r0
      <4>1. Entry(l, r) /\ Rec(l, r)' = Rec(l, r)
        BY <1>3, <2>5, <3>2
      <4>2. RecordOK(l, Rec(l, r).name, Rec(l, r).ino)
        BY <4>1 DEF NamesInv, RecordsOK
      <4> QED
        BY <2>3, <4>1, <4>2
    <3> QED
      BY <3>1, <3>2
  <2> QED
    BY <2>5 DEF RecordsOK
<1>10. CoresOK'
  <2> SUFFICES ASSUME NEW q \in Paths, core[q] # NoInode PROVE CoreOK(q)'
    BY DEF CoresOK
  <2>1. CoreOK(q)
    BY DEF NamesInv, CoresOK
  <2>2. (Grown(q)' <=> Grown(q)) /\ (Resized(q)' <=> Resized(q)) /\ (Going(q)' <=> Going(q))
    <3>1. /\ Grows(proc[i], q) <=> Grows(proc[i], q)'
          /\ Resizes(proc[i], q) <=> Resizes(proc[i], q)'
          /\ Goes(proc[i], q) <=> Goes(proc[i], q)'
      BY <1>8 DEF Grows, Resizes, Goes
    <3> QED
      BY <1>8, <3>1, CallsOf
  <2>3. q # Root => SlotOf(Parent[q]) \in Slots
    <3>1. q # Root => core[Parent[q]] # NoInode /\ Parent[q] \in Paths
      BY <2>1 DEF CoreOK, NoInode
    <3> QED
      BY <3>1 DEF NamesInv, CoresOK, CoreOK
  <2>4. q # Root => HasEntry(SlotOf(Parent[q]), q, Number(core[q]))'
    BY <1>7, <1>8, <2>1, <2>3 DEF CoreOK
  <2> QED
    BY <1>8, <2>1, <2>2, <2>4 DEF CoreOK
<1>11. ASSUME NEW j \in Procs PROVE CreateOK(proc[j])' /\ UnlinkOK(proc[j])'
  <2>1. UnlinkOK(proc[j])'
    <3>1. proc'[j].op # "unlink"
      BY <1>8, OneChanger DEF Ground
    <3> QED
      BY <3>1 DEF UnlinkOK
  <2>2. CASE j = i
    <3>1. c.new.mode = Kind[p]
      BY <1>0, <1>5 DEF CreateOK
    <3>2. SlotOf(Parent[c.path])' = k /\ c.path = p
      BY <1>0, <1>1, <1>8
    <3> QED
      BY <1>7, <1>8, <2>1, <2>2, <3>1, <3>2 DEF CreateOK, Adding, Added, Recorded
  <2>3. CASE j # i /\ proc[j].op # "create"
    BY <1>8, <2>1, <2>3 DEF CreateOK
  <2>4. CASE j # i /\ proc[j].op = "create"
    <3>1. proc[j].pc = "lock_dir" /\ proc[j].found = "none" /\ proc'[j] = proc[j]
      BY <1>8, <2>4, OneChanger, CallGround DEF Ground
    <3>2. PICK l : l = SlotOf(Parent[proc[j].path])
      OBVIOUS
    <3>3. l = SlotOf(Parent[proc[j].path])' /\ l \in Slots
      BY <1>8, <2>4, <3>1, <3>2, DirSeen
    <3>4. proc[j].path # p
      BY <1>0, <2>4 DEF Ground, FsInv, CallsInv, CallsApart
    <3>5. \A r \in Places : Entry(l, r) => Rec(l, r).name # proc[j].path
      BY <2>4, <3>1, <3>2 DEF NamesInv, CreateOK
    <3>6. \A r \in Places : Entry(l, r)' => Rec(l, r)'.name # proc[j].path
      <4>1. ASSUME NEW r \in Places, Entry(l, r)', l = k, r = r0
            PROVE  Rec(l, r)'.name # proc[j].path
        BY <1>3, <3>4, <4>1
      <4>2. ASSUME NEW r \in Places, Entry(l, r)', l # k \/ r # r0
            PROVE  Rec(l, r)'.name # proc[j].path
        BY <1>3, <3>3, <3>5, <4>2
      <4> QED
        BY <4>1, <4>2
    <3> QED
      BY <2>1, <3>1, <3>3, <3>6 DEF CreateOK, Adding, Added, Recorded
  <2> QED
    BY <2>2, <2>3, <2>4
<1> QED
  BY <1>7, <1>9, <1>10, <1>11 DEF NamesInv

\* A dead inode is taken again, if there is one: an empty record of the
\* directory gets the name at once.
LEMMA SearchDoes ==
  ASSUME Ground, NamesInv, NobodyCreatesBeside, NEW i \in Procs, Search(i)
  PROVE  LET p == proc[i].path  d == Parent[p] IN
         /\ UNCHANGED <<sb, store, core>> /\ proc[i].pc = "search"
         /\ proc[i].op = "create" /\ proc[i].found = "none" /\ proc[i].new.mode = Kind[p]
         /\ \/ UNCHANGED dir /\ Go(i, "lock_free")
            \/ \E c \in Call, m \in Slots :
                 /\ proc' = [proc EXCEPT ![i] = c]
                 /\ c.op = "create" /\ c.path = p /\ c.pc = "lock_add"
                 /\ c.ret = proc[i].ret
                 /\ c.new.mode = Kind[p] /\ c.new.ino = SlotNo(m)
                 /\ m < sb.count /\ store[m].ino = 0 /\ store[m].dead = SlotNo(m)
                 /\ \/ UNCHANGED dir /\ c.found = "elsewhere"
                    \/ /\ c.found = "samedir"
                       /\ \E r0 \in Holes(d) : \E x :
                            /\ x = [name |-> p, ino |-> SlotNo(m)]
                            /\ Wrote(SlotOf(d), r0, x)
<1>0. PICK p : p = proc[i].path
  OBVIOUS
<1> DEFINE d == Parent[p]
           dead == SlotsOf(store, 0)
           m == Min(dead)
<1>1. /\ UNCHANGED <<sb, store, core>> /\ sb'.count = sb.count /\ proc[i].pc = "search"
      /\ proc[i].op = "create" /\ proc[i].found = "none" /\ proc[i] \in Call
      /\ p \in Paths /\ proc[i].new \in Inode /\ proc[i].new.mode = Kind[p]
  <2>1. proc[i].pc = "search" /\ proc[i].op = "create"
    BY CallGround DEF Search, CallOK, Creating
  <2>2. CreateOK(proc[i])
    BY DEF NamesInv
  <2>3. proc[i].new.mode = Kind[p]
    BY <1>0, <2>1, <2>2 DEF CreateOK
  <2> QED
    BY <1>0, <2>1, <2>3, CallGround, CallFacts DEF Search
<1>2. CASE dead = {}
  <2>1. UNCHANGED dir /\ Go(i, "lock_free")
    BY <1>2 DEF Search
  <2> QED
    BY <1>0, <1>1, <2>1
<1>3. CASE dead # {}
  <2>1. m \in dead
    <3>1. dead \in SUBSET Nat
      BY DEF SlotsOf, Slots
    <3> QED
      BY <1>3, <3>1, MinFacts
  <2>2. /\ m \in Slots /\ m < sb.count /\ m # 0 /\ store[m].ino = 0
        /\ store[m].dead = SlotNo(m) /\ SlotNo(m) \in Nat /\ store[m].block \in Blocks
    <3>1. PICK owner \in [Blocks -> Nat] : AllocInv(owner)
      BY DEF Ground, Allocated
    <3>2. m \in Slots /\ m < sb.count /\ m # 0 /\ store[m].dead = SlotNo(m)
      BY <1>1, <2>1, <3>1, DeadSlot DEF Ground
    <3> QED
      BY <2>1, <3>2, SlotNoFacts DEF SlotsOf, Ground, FsInv, TypeOK, Inode
  <2>3. /\ dir' = IF Holes(d) = {} THEN dir
                  ELSE [dir EXCEPT ![core[d].block][Min(Holes(d))] =
                                     [name |-> p, ino |-> SlotNo(m)]]
        /\ proc' = [proc EXCEPT ![i].pc = "lock_add",
                      ![i].new = [@ EXCEPT !.ino = SlotNo(m), !.block = store[m].block],
                      ![i].found = IF Holes(d) = {} THEN "elsewhere" ELSE "samedir"]
    BY <1>0, <1>3, <2>2 DEF Search
  <2> HIDE DEF m
  <2> DEFINE c == [proc[i] EXCEPT !.pc = "lock_add",
                     !.new = [@ EXCEPT !.ino = SlotNo(m), !.block = store[m].block],
                     !.found = IF Holes(d) = {} THEN "elsewhere" ELSE "samedir"]
  <2>4. proc' = [proc EXCEPT ![i] = c]
    BY <1>1, <2>3, CallGround
  <2>5. /\ c \in Call /\ c.op = "create" /\ c.path = p /\ c.pc = "lock_add"
        /\ c.found = (IF Holes(d) = {} THEN "elsewhere" ELSE "samedir")
        /\ c.new.mode = Kind[p] /\ c.new.ino = SlotNo(m) /\ c.ret = proc[i].ret
    BY <1>0, <1>1, <2>2 DEF Call, Label, LockOf, Inode
  <2> HIDE DEF c
  <2>6. CASE Holes(d) = {}
    <3>1. UNCHANGED dir /\ c.found = "elsewhere"
      BY <2>3, <2>5, <2>6
    <3> QED
      BY <1>0, <1>1, <2>2, <2>4, <2>5, <3>1
  <2>7. CASE Holes(d) # {}
    <3>1. Min(Holes(d)) \in Holes(d)
      <4>1. Holes(d) \in SUBSET Nat
        BY DEF Holes, Records
      <4> QED
        BY <2>7, <4>1, MinFacts
    <3>2. PICK r0 \in Holes(d) : r0 = Min(Holes(d))
      BY <3>1
    <3>3. PICK x : x = [name |-> p, ino |-> SlotNo(m)]
      OBVIOUS
    <3>4. core[d] = store[SlotOf(d)]
      BY <1>0, <1>1, DirSeen
    <3>5. Wrote(SlotOf(d), r0, x)
      BY <2>3, <2>7, <3>2, <3>3, <3>4 DEF Wrote
    <3>6. c.found = "samedir"
      BY <2>5, <2>7
    <3> QED
      BY <1>0, <1>1, <2>2, <2>4, <2>5, <3>3, <3>5, <3>6
  <2> QED
    BY <2>6, <2>7
<1> QED
  BY <1>2, <1>3

LEMMA SearchNames ==
  ASSUME Ground, NamesInv, NobodyCreatesBeside, NEW i \in Procs, Search(i)
  PROVE  NamesInv'
<1>0. PICK p : p = proc[i].path
  OBVIOUS
<1>1. PICK d : d = Parent[p]
  OBVIOUS
<1>2. /\ UNCHANGED <<sb, store, core>> /\ sb'.count = sb.count /\ proc[i].pc = "search"
      /\ proc[i].op = "create" /\ proc[i].found = "none" /\ proc[i].new.mode = Kind[p]
      /\ \/ UNCHANGED dir /\ Go(i, "lock_free")
         \/ \E c \in Call, m \in Slots :
              /\ proc' = [proc EXCEPT ![i] = c]
              /\ c.op = "create" /\ c.path = p /\ c.pc = "lock_add"
              /\ c.new.mode = Kind[p] /\ c.new.ino = SlotNo(m)
              /\ m < sb.count /\ store[m].ino = 0 /\ store[m].dead = SlotNo(m)
              /\ \/ UNCHANGED dir /\ c.found = "elsewhere"
                 \/ /\ c.found = "samedir"
                    /\ \E r0 \in Holes(d) : \E x :
                         /\ x = [name |-> p, ino |-> SlotNo(m)]
                         /\ Wrote(SlotOf(d), r0, x)
  BY <1>0, <1>1, SearchDoes
<1>3. CASE UNCHANGED dir /\ Go(i, "lock_free")
  <2>1. "lock_free" \in Label
    BY DEF Label, LockOf
  <2> QED
    BY <1>2, <1>3, <2>1, MoveNames DEF Adding, Added, Recorded
<1>4. ASSUME NEW c \in Call, NEW m \in Slots,
             proc' = [proc EXCEPT ![i] = c],
             c.op = "create", c.path = p, c.pc = "lock_add",
             c.new.mode = Kind[p], c.new.ino = SlotNo(m),
             m < sb.count, store[m].ino = 0, store[m].dead = SlotNo(m),
             UNCHANGED dir, c.found = "elsewhere"
      PROVE  NamesInv'
  BY <1>0, <1>2, <1>4, PrepareNames
<1>5. ASSUME NEW c \in Call, NEW m \in Slots,
             proc' = [proc EXCEPT ![i] = c],
             c.op = "create", c.path = p, c.pc = "lock_add",
             c.new.mode = Kind[p], c.new.ino = SlotNo(m),
             m < sb.count, store[m].ino = 0, store[m].dead = SlotNo(m),
             c.found = "samedir", NEW r0 \in Holes(d), NEW x,
             x = [name |-> p, ino |-> SlotNo(m)], Wrote(SlotOf(d), r0, x)
      PROVE  NamesInv'
  <2>1. At(i, "search") /\ UNCHANGED <<sb, store, core>> /\ proc[i].op = "create"
    BY <1>2
  <2>2. c.path = proc[i].path /\ x = [name |-> proc[i].path, ino |-> SlotNo(m)]
    BY <1>0, <1>5
  <2>3. r0 \in Holes(Parent[proc[i].path]) /\ Wrote(SlotOf(Parent[proc[i].path]), r0, x)
    BY <1>0, <1>1, <1>5
  <2>4. c.new.mode = proc[i].new.mode
    BY <1>0, <1>2, <1>5
  <2>5. /\ proc' = [proc EXCEPT ![i] = c]
        /\ c.op = "create" /\ c.pc = "lock_add" /\ c.found = "samedir"
        /\ c.new.ino = SlotNo(m)
        /\ m < sb.count /\ store[m].ino = 0 /\ store[m].dead = SlotNo(m)
    BY <1>5
  <2> QED
    BY <2>1, <2>2, <2>3, <2>4, <2>5, FillNames
<1> QED
  BY <1>2, <1>3, <1>4, <1>5

\* An empty inode in slot m, which was not in use, changes no record.
LEMMA SlotFilled ==
  ASSUME Ground, NamesInv, NEW m \in Slots, m < sb.count => store[m].ino = 0,
         \A l \in Slots \ {m} : l < sb'.count <=> l < sb.count,
         NEW new, new.size = 0, store' = [store EXCEPT ![m] = new], UNCHANGED dir
  PROVE  /\ store'[m] = new /\ \A l \in Slots \ {m} : store'[l] = store[l]
         /\ \A l \in Slots : \A r \in Places :
              /\ Entry(l, r)' <=> Entry(l, r)
              /\ Entry(l, r) => Rec(l, r)' = Rec(l, r) /\ l # m
         /\ RecordsDiffer'
         /\ \A l \in Slots : \A name, n : HasEntry(l, name, n)' <=> HasEntry(l, name, n)
<1>1. store'[m] = new /\ \A l \in Slots \ {m} : store'[l] = store[l]
  BY DEF Ground, FsInv, TypeOK
<1>2. \A l \in Slots : \A r \in Places :
        /\ Entry(l, r)' <=> Entry(l, r)
        /\ Entry(l, r) => Rec(l, r)' = Rec(l, r) /\ l # m
  <2>1. ASSUME NEW r \in Places PROVE ~Entry(m, r) /\ ~Entry(m, r)'
    <3>1. ~(r < store'[m].size)
      BY <1>1 DEF Places
    <3> QED
      BY <3>1 DEF Entry, IsDir
  <2>2. ASSUME NEW l \in Slots \ {m}, NEW r \in Places
        PROVE  (Entry(l, r)' <=> Entry(l, r)) /\ Rec(l, r)' = Rec(l, r)
    <3>1. store'[l] = store[l] /\ (l < sb'.count <=> l < sb.count)
      BY <1>1
    <3>2. Rec(l, r)' = Rec(l, r)
      BY <3>1 DEF Rec
    <3>3. IsDir(l)' <=> IsDir(l)
      BY <3>1 DEF IsDir
    <3> QED
      BY <3>1, <3>2, <3>3 DEF Entry
  <2> QED
    BY <2>1, <2>2
<1>3. /\ RecordsDiffer'
      /\ \A l \in Slots : \A name, n : HasEntry(l, name, n)' <=> HasEntry(l, name, n)
  BY <1>2, SameEntries DEF NamesInv
<1> QED
  BY <1>1, <1>2, <1>3

\* A create puts its inode in slot m, which was not in use.
LEMMA StoreNames ==
  ASSUME Ground, NamesInv, NobodyCreatesBeside, NEW i \in Procs,
         proc[i].op = "create", At(i, "add"), Go(i, "record"),
         NEW m \in Slots, m # 0, m < sb.count => store[m].ino = 0,
         m < sb'.count, \A l \in Slots \ {m} : l < sb'.count <=> l < sb.count,
         store' = [store EXCEPT ![m] = proc[i].new], proc[i].new.ino = SlotNo(m),
         UNCHANGED <<dir, core>>
  PROVE  NamesInv'
<1>0. PICK p : p = proc[i].path
  OBVIOUS
<1>1. PICK new : new = proc[i].new
  OBVIOUS
<1>2. /\ CreateOK(proc[i]) /\ CallOK(i, proc[i]) /\ p \in Paths /\ new.size = 0
      /\ new.ino = SlotNo(m) /\ SlotNo(m) # 0 /\ new.mode = Kind[p]
  <2>1. CreateOK(proc[i])
    BY DEF NamesInv
  <2>2. CallOK(i, proc[i]) /\ p \in Paths
    BY <1>0, CallGround, CallFacts
  <2>3. new.mode = Kind[p]
    BY <1>0, <1>1, <2>1 DEF CreateOK
  <2>4. new.size = 0
    BY <1>1, <2>2 DEF CallOK
  <2> QED
    BY <1>1, <2>1, <2>2, <2>3, <2>4, SlotNoFacts
<1>3. store'[m] = new /\ \A l \in Slots \ {m} : store'[l] = store[l]
  BY <1>1 DEF Ground, FsInv, TypeOK
<1>4. /\ proc'[i] = [proc[i] EXCEPT !.pc = "record"]
      /\ proc'[i].pc = "record" /\ proc'[i].op = "create" /\ proc'[i].path = p
      /\ proc'[i].new = new /\ proc'[i].found = proc[i].found
      /\ \A j \in Procs \ {i} : proc'[j] = proc[j]
      /\ \A q : SlotOf(q)' = SlotOf(q)
  BY <1>0, <1>1, CallGround DEF Call, SlotOf
<1>5. \A l \in Slots : \A r \in Places :
        /\ Entry(l, r)' <=> Entry(l, r)
        /\ Entry(l, r) => Rec(l, r)' = Rec(l, r) /\ l # m
  BY <1>1, <1>2, SlotFilled
<1>6. /\ RecordsDiffer'
      /\ \A l \in Slots : \A name, n : HasEntry(l, name, n)' <=> HasEntry(l, name, n)
  BY <1>1, <1>2, SlotFilled
<1>7. RecordsOK'
  <2>1. ASSUME NEW l \in Slots, NEW r \in Places, Entry(l, r)'
        PROVE  RecordOK(l, Rec(l, r).name, Rec(l, r).ino)'
    <3>1. PICK name : name = Rec(l, r).name
      OBVIOUS
    <3>2. PICK n : n = Rec(l, r).ino
      OBVIOUS
    <3>3. /\ Entry(l, r) /\ Rec(l, r)'.name = name /\ Rec(l, r)'.ino = n /\ n # 0
      BY <1>5, <2>1, <3>1, <3>2 DEF Entry
    <3>4. RecordOK(l, name, n)
      BY <3>1, <3>2, <3>3 DEF NamesInv, RecordsOK
    <3>5. CASE Resolved(name, n)
      <4>1. PICK x \in Slots : /\ x # 0 /\ x < sb.count /\ store[x].ino = n
                               /\ store[x].mode = Kind[name]
        BY <3>5 DEF Resolved
      <4>2. x # m
        BY <3>3, <4>1
      <4>3. Resolved(name, n)'
        BY <1>3, <4>1, <4>2 DEF Resolved
      <4> QED
        BY <3>3, <3>4, <4>3 DEF RecordOK
    <3>6. CASE Pends(proc[i], l, name, n)
      <4>1. name = p /\ n = SlotNo(m)
        BY <1>0, <3>6 DEF Pends
      <4>2. Resolved(name, n)'
        BY <1>2, <1>3, <4>1 DEF Resolved
      <4> QED
        BY <3>3, <3>4, <4>2 DEF RecordOK
    <3>7. ASSUME NEW j \in Procs, j # i, Pends(proc[j], l, name, n)
          PROVE  RecordOK(l, Rec(l, r).name, Rec(l, r).ino)'
      <4>1. Pends(proc[j], l, name, n)'
        BY <1>4, <3>7 DEF Pends
      <4> QED
        BY <3>3, <3>4, <4>1 DEF RecordOK
    <3> QED
      BY <3>4, <3>5, <3>6, <3>7 DEF RecordOK
  <2> QED
    BY <2>1 DEF RecordsOK
<1>8. CoresOK'
  <2> SUFFICES ASSUME NEW q \in Paths, core[q] # NoInode PROVE CoreOK(q)'
    BY DEF CoresOK
  <2>1. CoreOK(q)
    BY DEF NamesInv, CoresOK
  <2>2. (Grown(q)' <=> Grown(q)) /\ (Resized(q)' <=> Resized(q)) /\ (Going(q)' <=> Going(q))
    <3>1. /\ Grows(proc[i], q) <=> Grows(proc[i], q)'
          /\ Resizes(proc[i], q) <=> Resizes(proc[i], q)'
          /\ Goes(proc[i], q) <=> Goes(proc[i], q)'
      BY <1>4 DEF Grows, Resizes, Goes
    <3> QED
      BY <1>4, <3>1, CallsOf
  <2>3. ~Going(q)
    BY OneChanger DEF Ground, Going, Goes
  <2>4. SlotOf(q) \in Slots \ {m} /\ SlotOf(q) < sb.count
    BY <2>1, <2>3 DEF CoreOK
  <2>5. q # Root => SlotOf(Parent[q]) \in Slots
    <3>1. q # Root => core[Parent[q]] # NoInode /\ Parent[q] \in Paths
      BY <2>1 DEF CoreOK, NoInode
    <3> QED
      BY <3>1 DEF NamesInv, CoresOK, CoreOK
  <2>6. q # Root => HasEntry(SlotOf(Parent[q]), q, Number(core[q]))'
    BY <1>4, <1>6, <2>1, <2>5 DEF CoreOK
  <2>7. store'[SlotOf(q)] = store[SlotOf(q)] /\ SlotOf(q) < sb'.count
    BY <1>3, <2>4
  <2> QED
    BY <1>4, <2>1, <2>2, <2>3, <2>4, <2>6, <2>7 DEF CoreOK
<1>9. ASSUME NEW j \in Procs PROVE CreateOK(proc[j])' /\ UnlinkOK(proc[j])'
  <2>1. UnlinkOK(proc[j])'
    <3>1. proc'[j].op # "unlink"
      BY <1>4, OneChanger DEF Ground
    <3> QED
      BY <3>1 DEF UnlinkOK
  <2>2. CASE j = i
    <3>1. PICK k : k = SlotOf(Parent[p])
      OBVIOUS
    <3>2. k = SlotOf(Parent[proc[i].path])' /\ k \in Slots
      BY <1>0, <1>4, <3>1, DirSeen
    <3>3. proc[i].found = "samedir" => HasEntry(k, p, SlotNo(m))'
      BY <1>0, <1>2, <1>6, <3>1, <3>2 DEF CreateOK
    <3>4. proc[i].found # "samedir" => \A r \in Places : Entry(k, r)' => Rec(k, r)'.name # p
      <4>1. proc[i].found # "samedir" => \A r \in Places : Entry(k, r) => Rec(k, r).name # p
        BY <1>0, <1>2, <3>1 DEF CreateOK
      <4> QED
        BY <1>5, <3>2, <4>1
    <3>5. ASSUME proc[i].found # "samedir", NEW l \in Slots, NEW r \in Places, Entry(l, r)'
          PROVE  Rec(l, r)'.ino # SlotNo(m)
      <4>1. Entry(l, r) /\ Rec(l, r)' = Rec(l, r)
        BY <1>5, <3>5
      <4>2. Resolved(Rec(l, r).name, Rec(l, r).ino)
        BY <3>5, <4>1, NoDeadRecord DEF Adding
      <4>3. PICK x \in Slots : x < sb.count /\ store[x].ino = Rec(l, r).ino
        BY <4>2 DEF Resolved
      <4>4. CASE Rec(l, r).ino = SlotNo(m)
        <5>1. SlotNo(x) = SlotNo(m)
          BY <1>2, <4>3, <4>4 DEF Ground, StoreOK
        <5> QED
          BY <1>2, <4>3, <4>4, <5>1, SlotNoFacts
      <4> QED
        BY <4>1, <4>4
    <3>6. \E x \in Slots : /\ x # 0 /\ x < sb'.count
                           /\ store'[x] = new /\ new.ino = SlotNo(x)
      BY <1>2, <1>3
    <3>7. CreateOK(proc[i])'
      BY <1>2, <1>4, <3>2, <3>3, <3>4, <3>5, <3>6 DEF CreateOK, Adding, Added, Recorded
    <3> QED
      BY <2>1, <2>2, <3>7
  <2>3. CASE j # i /\ proc[j].op # "create"
    BY <1>4, <2>1, <2>3 DEF CreateOK
  <2>4. CASE j # i /\ proc[j].op = "create"
    <3>1. proc[j].pc = "lock_dir" /\ proc[j].found = "none" /\ proc'[j] = proc[j]
      BY <1>4, <2>4, OneChanger, CallGround DEF Ground
    <3>2. PICK l : l = SlotOf(Parent[proc[j].path])
      OBVIOUS
    <3>3. l = SlotOf(Parent[proc[j].path])' /\ l \in Slots
      BY <1>4, <2>4, <3>1, <3>2, DirSeen
    <3>4. \A r \in Places : Entry(l, r) => Rec(l, r).name # proc[j].path
      BY <2>4, <3>1, <3>2 DEF NamesInv, CreateOK
    <3>5. \A r \in Places : Entry(l, r)' => Rec(l, r)'.name # proc[j].path
      BY <1>5, <3>3, <3>4
    <3> QED
      BY <2>1, <3>1, <3>3, <3>5 DEF CreateOK, Adding, Added, Recorded
  <2> QED
    BY <2>2, <2>3, <2>4
<1> QED
  BY <1>6, <1>7, <1>8, <1>9 DEF NamesInv

\* inode_add: the dead slot, or the next one, gets the inode of the create.
LEMMA AddDoes ==
  ASSUME Ground, NamesInv, NobodyCreatesBeside, NEW i \in Procs, Add(i)
  PROVE  /\ UNCHANGED <<dir, core>> /\ proc[i].pc = "add" /\ proc[i].op = "create"
         /\ Go(i, "record")
         /\ \E m \in Slots :
              /\ m # 0 /\ (m < sb.count => store[m].ino = 0)
              /\ m < sb'.count /\ \A l \in Slots \ {m} : l < sb'.count <=> l < sb.count
              /\ store' = [store EXCEPT ![m] = proc[i].new] /\ proc[i].new.ino = SlotNo(m)
<1> DEFINE new == proc[i].new
           slots == {k \in SlotsOf(store, 0) : store[k].dead = new.ino}
<1>1. /\ UNCHANGED <<dir, core>> /\ proc[i].pc = "add" /\ Go(i, "record")
      /\ proc[i].op = "create"
  BY CallGround DEF Add, CallOK, Creating
<1>2. CreateOK(proc[i])
  BY DEF NamesInv
<1>3. CASE proc[i].found = "none"
  <2>1. /\ store' = [store EXCEPT ![sb.count] = new] /\ sb' = [sb EXCEPT !.count = @ + 1]
    BY <1>3 DEF Add
  <2>2. /\ sb.count \in Nat /\ sb.count < MaxObjects /\ sb.count > 1
        /\ new.ino = SlotNo(sb.count)
    BY <1>1, <1>3, CallGround DEF CallOK, Counted, Ground, StoreOK
  <2>3. PICK m \in Slots : m = sb.count
    BY <2>2 DEF Slots
  <2>4. sb'.count = m + 1
    BY <2>1, <2>3 DEF Ground, FsInv, TypeOK
  <2>5. /\ m # 0 /\ ~(m < sb.count) /\ m < sb'.count
        /\ \A l \in Slots \ {m} : l < sb'.count <=> l < sb.count
    BY <2>2, <2>3, <2>4 DEF Slots
  <2>6. store' = [store EXCEPT ![m] = proc[i].new] /\ proc[i].new.ino = SlotNo(m)
    BY <2>1, <2>2, <2>3
  <2> QED
    BY <1>1, <2>5, <2>6
<1>4. CASE proc[i].found # "none"
  <2>1. store' = (IF slots = {} THEN store ELSE [store EXCEPT ![Min(slots)] = new])
        /\ sb' = sb
    BY <1>4 DEF Add
  <2>2. PICK m \in Slots : /\ m < sb.count /\ store[m].ino = 0
                           /\ store[m].dead = SlotNo(m) /\ new.ino = SlotNo(m)
    BY <1>1, <1>2, <1>4 DEF CreateOK, Adding
  <2>3. PICK owner \in [Blocks -> Nat] : AllocInv(owner)
    BY DEF Ground, Allocated
  <2>4. \A k \in SlotsOf(store, 0) : k \in Slots /\ k # 0 /\ store[k].dead = SlotNo(k)
    BY <1>1, <2>3, DeadSlot DEF Ground
  <2>5. m \in SlotsOf(store, 0)
    BY <2>2 DEF SlotsOf
  <2>6. slots = {m}
    BY <2>2, <2>4, <2>5, SlotNoFacts
  <2>7. Min(slots) = m /\ slots # {}
    <3>1. {m} \in SUBSET Nat
      BY DEF Slots
    <3> QED
      BY <2>6, <3>1, MinFacts
  <2>8. store' = [store EXCEPT ![m] = proc[i].new] /\ sb'.count = sb.count /\ m # 0
    BY <2>1, <2>4, <2>5, <2>7
  <2> QED
    BY <1>1, <2>2, <2>8
<1> QED
  BY <1>3, <1>4

LEMMA AddNames ==
  ASSUME Ground, NamesInv, NobodyCreatesBeside, NEW i \in Procs, Add(i)
  PROVE  NamesInv'
BY AddDoes, StoreNames

\* The record goes past the end of the directory: it does not count yet.
LEMMA RecordDoes ==
  ASSUME Ground, NamesInv, NEW i \in Procs, Record(i), proc[i].found # "samedir",
         NEW k, k = SlotOf(Parent[proc[i].path])
  PROVE  /\ k \in Slots /\ store[k].size \in Places
         /\ Rec(k, store[k].size)' = [name |-> proc[i].path, ino |-> proc[i].new.ino]
         /\ \A l \in Slots : \A r \in Places :
              /\ Entry(l, r)' <=> Entry(l, r)
              /\ Entry(l, r) => Rec(l, r)' = Rec(l, r)
<1>0. PICK p : p = proc[i].path
  OBVIOUS
<1> DEFINE d == Parent[p]
<1>1. /\ UNCHANGED <<sb, store, core>> /\ sb'.count = sb.count /\ proc[i].pc = "record"
      /\ proc[i].op = "create" /\ CallOK(i, proc[i])
  BY CallGround DEF Record, CallOK, Creating
<1>2. k = SlotOf(d)
  BY <1>0
<1>3. /\ d \in Paths /\ k \in Slots /\ IsDir(k) /\ core[d] = store[k]
      /\ k < sb.count
  BY <1>0, <1>1, <1>2, DirSeen DEF IsDir
<1>4. PICK r0 : r0 = store[k].size
  OBVIOUS
<1>5. r0 \in Places /\ r0 < DirCap
  BY <1>0, <1>1, <1>3, <1>4 DEF CallOK, Creating, Ground, FsInv, TypeOK, Inode, Places
<1>6. PICK x : x = [name |-> p, ino |-> proc[i].new.ino]
  OBVIOUS
<1>7. Wrote(k, r0, x) /\ store' = store
  BY <1>0, <1>1, <1>3, <1>4, <1>6 DEF Record, Wrote
<1>8. /\ Rec(k, r0)' = x
      /\ \A l \in Slots : \A r \in Places :
           l < sb.count /\ (l # k \/ r # r0) => Rec(l, r)' = Rec(l, r)
  BY <1>3, <1>5, <1>7, RecWritten
<1>9. \A l : IsDir(l)' <=> IsDir(l)
  BY <1>1 DEF IsDir
<1>10. \A l \in Slots : \A r \in Places :
        /\ Entry(l, r)' <=> Entry(l, r)
        /\ Entry(l, r) => Rec(l, r)' = Rec(l, r)
  <2>1. ASSUME NEW l \in Slots, NEW r \in Places, l = k, r = r0
        PROVE  ~Entry(l, r)' /\ ~Entry(l, r)
    <3>1. ~(r < store[l].size) /\ ~(r < store'[l].size)
      BY <1>4, <1>5, <1>7, <2>1 DEF Places
    <3> QED
      BY <3>1 DEF Entry
  <2>2. ASSUME NEW l \in Slots, NEW r \in Places, l # k \/ r # r0
        PROVE  /\ Entry(l, r)' <=> Entry(l, r)
               /\ Entry(l, r) => Rec(l, r)' = Rec(l, r)
    <3>1. IsDir(l) => Rec(l, r)' = Rec(l, r)
      BY <1>8, <2>2 DEF IsDir
    <3> QED
      BY <1>7, <1>9, <3>1 DEF Entry
  <2> QED
    BY <2>1, <2>2
<1>11. Rec(k, store[k].size)' = x
  BY <1>4, <1>7, <1>8, <1>1 DEF Rec
<1> QED
  BY <1>0, <1>2, <1>3, <1>4, <1>5, <1>6, <1>10, <1>11

LEMMA RecordNames ==
  ASSUME Ground, NamesInv, NobodyCreatesBeside, NEW i \in Procs, Record(i)
  PROVE  NamesInv'
<1>0. PICK p : p = proc[i].path
  OBVIOUS
<1> DEFINE d == Parent[p]
<1>1. /\ UNCHANGED <<sb, store, core>> /\ sb'.count = sb.count /\ proc[i].pc = "record"
      /\ Go(i, "lock_children") /\ proc[i].op = "create" /\ CreateOK(proc[i])
      /\ CallOK(i, proc[i])
  BY CallGround DEF Record, CallOK, Creating, NamesInv
<1>2. PICK c \in Call :
           /\ proc' = [proc EXCEPT ![i] = c]
           /\ c.pc = "lock_children" /\ c.op = proc[i].op /\ c.path = proc[i].path
           /\ c.new = proc[i].new /\ c.found = proc[i].found
  <2>1. Go(i, "lock_children") /\ "lock_children" \in Label /\ TypeOK
    BY <1>1 DEF Label, LockOf, Ground, FsInv
  <2> QED
    BY <2>1, AdvanceFacts, Zenon
<1>3. /\ \A k, name, n : ~Pends(proc[i], k, name, n)
      /\ \A q : /\ Grows(c, q) <=> Grows(proc[i], q)
                /\ Resizes(c, q) <=> Resizes(proc[i], q)
                /\ Goes(c, q) <=> Goes(proc[i], q)
      /\ UnlinkOK(c)
  BY <1>1, <1>2 DEF Pends, Adding, Grows, Resizes, Goes, UnlinkOK
<1>4. CASE proc[i].found = "samedir"
  <2>1. UNCHANGED <<store, dir, core>>
    BY <1>4 DEF Record
  <2>2. CreateOK(c)
    BY <1>1, <1>2, <1>4 DEF CreateOK, Adding, Added, Recorded
  <2> QED
    BY <1>1, <1>2, <1>3, <2>1, <2>2, ProcNames
<1>5. CASE proc[i].found # "samedir"
  <2>1. PICK k : k = SlotOf(d)
    OBVIOUS
  <2>3. /\ k \in Slots /\ store[k].size \in Places
        /\ Rec(k, store[k].size)' = [name |-> p, ino |-> proc[i].new.ino]
        /\ \A l \in Slots : \A r \in Places :
             /\ Entry(l, r)' <=> Entry(l, r)
             /\ Entry(l, r) => Rec(l, r)' = Rec(l, r)
    <3>1. k = SlotOf(Parent[proc[i].path])
      BY <1>0, <2>1
    <3> QED
      BY <1>0, <1>5, <3>1, RecordDoes
  <2>2. PICK r0 \in Places : r0 = store[k].size
    BY <2>3
  <2>4. /\ RecordsDiffer'
        /\ \A l \in Slots : \A name, n : HasEntry(l, name, n)' <=> HasEntry(l, name, n)
    BY <2>3, SameEntries DEF NamesInv
  <2>5. /\ proc'[i] = c /\ \A j \in Procs \ {i} : proc'[j] = proc[j]
        /\ \A q : SlotOf(q)' = SlotOf(q)
    BY <1>1, <1>2, CallGround DEF SlotOf
  <2>6. RecordsOK'
    <3>1. \A name, n : Resolved(name, n)' <=> Resolved(name, n)
      BY <1>1 DEF Resolved
    <3>2. \A j \in Procs : \A l, name, n : Pends(proc[j], l, name, n) => Pends(proc[j], l, name, n)'
      BY <1>1, <1>3, <2>5 DEF Pends
    <3>3. \A l, name, n : RecordOK(l, name, n) => RecordOK(l, name, n)'
      BY <3>1, <3>2 DEF RecordOK
    <3> QED
      BY <2>3, <3>3 DEF NamesInv, RecordsOK
  <2>7. CoresOK'
    <3> SUFFICES ASSUME NEW q \in Paths, core[q] # NoInode PROVE CoreOK(q)'
      BY <1>1 DEF CoresOK
    <3>1. CoreOK(q)
      BY DEF NamesInv, CoresOK
    <3>2. (Grown(q)' <=> Grown(q)) /\ (Resized(q)' <=> Resized(q)) /\ (Going(q)' <=> Going(q))
      <4>1. /\ Grows(proc[i], q) <=> Grows(proc[i], q)'
            /\ Resizes(proc[i], q) <=> Resizes(proc[i], q)'
            /\ Goes(proc[i], q) <=> Goes(proc[i], q)'
        BY <1>3, <2>5 DEF Grows, Resizes, Goes
      <4> QED
        BY <2>5, <4>1, CallsOf
    <3>3. q # Root => SlotOf(Parent[q]) \in Slots
      <4>1. q # Root => core[Parent[q]] # NoInode /\ Parent[q] \in Paths
        BY <3>1 DEF CoreOK, NoInode
      <4> QED
        BY <4>1 DEF NamesInv, CoresOK, CoreOK
    <3>4. q # Root => HasEntry(SlotOf(Parent[q]), q, Number(core[q]))'
      BY <1>1, <2>4, <2>5, <3>1, <3>3 DEF CoreOK
    <3> QED
      BY <1>1, <2>5, <3>1, <3>2, <3>4 DEF CoreOK
  <2>8. ASSUME NEW j \in Procs PROVE CreateOK(proc[j])' /\ UnlinkOK(proc[j])'
    <3>1. UnlinkOK(proc[j])'
      <4>1. proc'[j].op # "unlink"
        BY <1>1, <1>2, <2>5, OneChanger DEF Ground
      <4> QED
        BY <4>1 DEF UnlinkOK
    <3>2. CASE j = i
      <4>1. k = SlotOf(Parent[c.path])' /\ c.path = p
        BY <1>0, <1>2, <2>1, <2>5
      <4>2. /\ c.new.mode = Kind[p]
            /\ \A r \in Places : Entry(k, r) => Rec(k, r).name # p
            /\ \E m \in Slots : /\ m # 0 /\ m < sb.count
                                /\ store[m] = c.new /\ c.new.ino = SlotNo(m)
            /\ \A l \in Slots : \A r \in Places :
                 Entry(l, r) => Rec(l, r).ino # c.new.ino
        BY <1>0, <1>1, <1>2, <1>5, <2>1 DEF CreateOK, Added
      <4>3. /\ \A r \in Places : Entry(k, r)' => Rec(k, r)'.name # p
            /\ \A l \in Slots : \A r \in Places :
                 Entry(l, r)' => Rec(l, r)'.ino # c.new.ino
        BY <2>3, <4>2
      <4>4. store'[k].size < DirCap /\ Rec(k, store[k].size)' = [name |-> p, ino |-> c.new.ino]
        BY <1>1, <1>2, <2>2, <2>3 DEF Places
      <4>5. CreateOK(proc[i])'
        BY <1>1, <1>2, <1>5, <2>5, <4>1, <4>2, <4>3, <4>4 DEF CreateOK, Adding, Added, Recorded
      <4> QED
        BY <3>1, <3>2, <4>5
    <3>3. CASE j # i /\ proc[j].op # "create"
      BY <2>5, <3>1, <3>3 DEF CreateOK
    <3>4. CASE j # i /\ proc[j].op = "create"
      <4>1. proc[j].pc = "lock_dir" /\ proc[j].found = "none" /\ proc'[j] = proc[j]
        BY <1>1, <2>5, <3>4, OneChanger, CallGround DEF Ground
      <4>2. PICK l : l = SlotOf(Parent[proc[j].path])
        OBVIOUS
      <4>3. l = SlotOf(Parent[proc[j].path])' /\ l \in Slots
        BY <2>5, <3>4, <4>1, <4>2, DirSeen
      <4>4. \A r \in Places : Entry(l, r) => Rec(l, r).name # proc[j].path
        BY <3>4, <4>1, <4>2 DEF NamesInv, CreateOK
      <4>5. \A r \in Places : Entry(l, r)' => Rec(l, r)'.name # proc[j].path
        BY <2>3, <4>3, <4>4
      <4> QED
        BY <3>1, <4>1, <4>3, <4>5 DEF CreateOK, Adding, Added, Recorded
    <3> QED
      BY <3>2, <3>3, <3>4
  <2> QED
    BY <2>4, <2>6, <2>7, <2>8 DEF NamesInv
<1> QED
  BY <1>4, <1>5

\* unlink empties the record whose inode is dead in its slot.
LEMMA ForgetDoes ==
  ASSUME Ground, NamesInv, NobodyCreatesBeside, NEW i \in Procs, Forget(i)
  PROVE  LET p == proc[i].path  n == core[p].dead IN
         /\ UNCHANGED <<sb, store>> /\ proc[i].pc = "forget" /\ proc[i].op = "unlink"
         /\ p \in Paths \ {Root} /\ core[p].mode = "file" /\ core[p].ino = 0
         /\ core[p] # NoInode /\ CoreOK(p) /\ Return(i, "ok")
         /\ core'[p] = NoInode /\ \A q \in Paths \ {p} : core'[q] = core[q]
         /\ \A j \in Procs : proc[j].op # "create"
         /\ n = SlotNo(SlotOf(p)) /\ n # 0
         /\ \A l \in Slots : \A r \in Places :
              /\ Entry(l, r)' => Entry(l, r) /\ Rec(l, r)' = Rec(l, r) /\ Rec(l, r).ino # n
              /\ Entry(l, r) /\ Rec(l, r).ino # n => Entry(l, r)' /\ Rec(l, r)' = Rec(l, r)
<1>0. PICK p : p = proc[i].path
  OBVIOUS
<1> DEFINE d == Parent[p]
<1>1. /\ UNCHANGED <<sb, store>> /\ proc[i].pc = "forget" /\ proc[i].op = "unlink"
      /\ p \in Paths \ {Root} /\ d \in Paths /\ core[d].mode = "dir"
      /\ core[p].mode = "file" /\ core[p].ino = 0 /\ core[p] # NoInode
      /\ core' = [core EXCEPT ![p] = NoInode]
  <2>1. proc[i].pc = "forget" /\ CallOK(i, proc[i])
    BY CallGround DEF Forget
  <2>2. proc[i].op = "unlink" /\ core[p].mode = "file"
    BY <1>0, <2>1 DEF CallOK
  <2>3. core[p].ino = 0 /\ p \in Paths \ {Root} /\ d \in Paths /\ core[d].mode = "dir"
    BY <1>0, <2>2, CallGround, ParentIsDir
  <2> QED
    <3>1. UNCHANGED <<sb, store>> /\ core' = [core EXCEPT ![p] = NoInode]
      BY <1>0 DEF Forget
    <3>2. core[p] # NoInode
      BY <2>2 DEF NoInode
    <3> QED
      BY <2>1, <2>2, <2>3, <3>1, <3>2
<1>2. core'[p] = NoInode /\ \A q \in Paths \ {p} : core'[q] = core[q]
  BY <1>1 DEF Ground, FsInv, TypeOK
<1>3. Return(i, "ok")
  BY DEF Forget
<1>4. \A j \in Procs : proc[j].op # "create"
  BY <1>1, OneChanger DEF Ground
<1>5. PICK k : k = SlotOf(d)
  OBVIOUS
<1>6. /\ k \in Slots /\ IsDir(k) /\ core[d] = store[k] /\ k < sb.count
      /\ Records(d) = {r \in Places : r < store[k].size}
      /\ \A r \in Places : RecordOf(d, r) = Rec(k, r)
  <2>1. ~Grown(d)
    BY <1>4 DEF Grown, Grows
  <2> QED
    BY <1>1, <1>5, <2>1, SeenInCore DEF IsDir
<1>7. PICK n : n = core[p].dead
  OBVIOUS
<1>8. CoreOK(p)
  BY <1>1 DEF NamesInv, CoresOK
<1>9. /\ SlotOf(p) \in Slots /\ n = SlotNo(SlotOf(p)) /\ n # 0 /\ HasEntry(k, p, n)
  <2>1. Number(core[p]) = n
    BY <1>1, <1>7 DEF Number
  <2> QED
    BY <1>1, <1>5, <1>8, <2>1, SlotNoFacts DEF CoreOK
<1>10. PICK r0 \in Places : Entry(k, r0) /\ Rec(k, r0).name = p /\ Rec(k, r0).ino = n
  BY <1>9 DEF HasEntry
<1>11. \A l \in Slots : \A r \in Places :
         Entry(l, r) /\ Rec(l, r).ino = n => l = k /\ r = r0
  BY <1>6, <1>10 DEF NamesInv, RecordsDiffer
<1>12. PICK x : x = [Rec(k, r0) EXCEPT !.ino = 0]
  OBVIOUS
<1>13. Wrote(k, r0, x) /\ store' = store
  <2> DEFINE Q == {q \in Records(d) : dir[core[d].block][q].ino = n}
  <2>1. Q = {r0}
    <3>1. r0 \in Q
      BY <1>6, <1>10 DEF Entry, Rec
    <3>2. ASSUME NEW q \in Q PROVE q = r0
      <4>1. q \in Places /\ q < store[k].size /\ Rec(k, q).ino = n
        BY <1>6 DEF Rec
      <4>2. Entry(k, q)
        BY <1>6, <1>9, <4>1 DEF Entry
      <4> QED
        BY <1>6, <1>11, <4>1, <4>2
    <3> QED
      BY <3>1, <3>2
  <2>2. Min(Q) = r0
    <3>1. {r0} \in SUBSET Nat
      BY DEF Places
    <3> QED
      BY <2>1, <3>1, MinFacts
  <2>3. dir' = [dir EXCEPT ![core[d].block][Min(Q)].ino = 0]
    BY <1>0, <1>7 DEF Forget
  <2> HIDE DEF Q
  <2>4. dir' = [dir EXCEPT ![store[k].block][r0].ino = 0]
    BY <1>6, <2>2, <2>3
  <2>5. x = [dir[store[k].block][r0] EXCEPT !.ino = 0]
    BY <1>12 DEF Rec
  <2> QED
    BY <1>1, <2>4, <2>5 DEF Wrote
<1>14. /\ Rec(k, r0)' = x
       /\ \A l \in Slots : \A r \in Places :
            l < sb.count /\ (l # k \/ r # r0) => Rec(l, r)' = Rec(l, r)
  BY <1>6, <1>13, RecWritten
<1>15. x.ino = 0
  <2>1. Rec(k, r0) \in [name : Paths \cup {NoName}, ino : Nat]
    <3>1. dir \in [Blocks -> DirBlock] /\ store[k].block \in Blocks
      BY <1>6 DEF Ground, FsInv, TypeOK, Inode
    <3>2. dir[store[k].block] \in [Places -> [name : Paths \cup {NoName}, ino : Nat]]
      BY <3>1 DEF DirBlock, Places
    <3> QED
      BY <3>2 DEF Rec
  <2> QED
    BY <1>12, <2>1
<1>16. \A l : IsDir(l)' <=> IsDir(l)
  BY <1>1 DEF IsDir
<1>17. ~Entry(k, r0)'
  BY <1>14, <1>15 DEF Entry
<1>18. ASSUME NEW l \in Slots, NEW r \in Places, l # k \/ r # r0
       PROVE  /\ Entry(l, r)' <=> Entry(l, r)
              /\ Entry(l, r) => Rec(l, r)' = Rec(l, r) /\ Rec(l, r).ino # n
  <2>1. IsDir(l) => Rec(l, r)' = Rec(l, r)
    BY <1>14, <1>18 DEF IsDir
  <2>2. Entry(l, r)' <=> Entry(l, r)
    BY <1>13, <1>16, <2>1 DEF Entry
  <2> QED
    BY <1>11, <1>18, <2>1, <2>2 DEF Entry
<1>19. \A l \in Slots : \A r \in Places : Entry(l, r)' =>
         /\ Entry(l, r) /\ Rec(l, r)' = Rec(l, r) /\ Rec(l, r).ino # n
  BY <1>17, <1>18
<1>20. ASSUME NEW l \in Slots, NEW r \in Places, Entry(l, r), Rec(l, r).ino # n
       PROVE  Entry(l, r)' /\ Rec(l, r)' = Rec(l, r)
  BY <1>10, <1>18, <1>20
<1> QED
  BY <1>0, <1>1, <1>2, <1>3, <1>4, <1>7, <1>8, <1>9, <1>19, <1>20

LEMMA ForgetNames ==
  ASSUME Ground, NamesInv, NobodyCreatesBeside, NEW i \in Procs, Forget(i)
  PROVE  NamesInv'
<1>0. PICK p : p = proc[i].path
  OBVIOUS
<1>1. PICK n : n = core[p].dead
  OBVIOUS
<1>2. /\ UNCHANGED <<sb, store>> /\ proc[i].op = "unlink"
      /\ p \in Paths \ {Root} /\ core[p].mode = "file" /\ core[p] # NoInode /\ CoreOK(p)
      /\ core'[p] = NoInode /\ \A q \in Paths \ {p} : core'[q] = core[q]
      /\ \A j \in Procs : proc[j].op # "create"
      /\ n = SlotNo(SlotOf(p)) /\ Return(i, "ok")
  BY <1>0, <1>1, ForgetDoes
<1>3. /\ proc'[i].pc = "idle" /\ proc'[i].op = "none"
      /\ \A j \in Procs \ {i} : proc'[j] = proc[j]
  BY <1>2, CallGround DEF Return, Idle
<1>4. /\ \A l \in Slots : \A r \in Places : Entry(l, r)' =>
           Entry(l, r) /\ Rec(l, r)' = Rec(l, r) /\ Rec(l, r).ino # n
      /\ \A l \in Slots : \A r \in Places : Entry(l, r) /\ Rec(l, r).ino # n =>
           Entry(l, r)' /\ Rec(l, r)' = Rec(l, r)
  BY <1>0, <1>1, ForgetDoes
<1>5. RecordsDiffer'
  BY <1>4 DEF NamesInv, RecordsDiffer
<1>6. ASSUME NEW l \in Slots, NEW name, NEW y, y # n, HasEntry(l, name, y)
       PROVE  HasEntry(l, name, y)'
  BY <1>4, <1>6 DEF HasEntry
<1>7. ASSUME NEW j \in Procs, j # i, proc[j].op = "unlink"
       PROVE  /\ proc[j].path \in Paths /\ proc[j].path # p
              /\ core'[proc[j].path] = core[proc[j].path]
              /\ SlotOf(proc[j].path)' = SlotOf(proc[j].path)
              /\ SlotOf(Parent[proc[j].path])' = SlotOf(Parent[proc[j].path])
  <2>1. PICK o : o = proc[j].path
    OBVIOUS
  <2>2. o # p
    BY <1>0, <1>2, <1>7, <2>1 DEF Ground, FsInv, CallsInv, CallsApart
  <2>3. o \in Paths /\ Parent[o] \in Paths /\ core[Parent[o]].mode = "dir"
    BY <1>7, <2>1, ParentIsDir
  <2>4. core'[o] = core[o] /\ core'[Parent[o]] = core[Parent[o]]
    BY <1>2, <2>2, <2>3
  <2>5. SlotOf(o)' = SlotOf(o) /\ SlotOf(Parent[o])' = SlotOf(Parent[o])
    BY <2>4 DEF SlotOf
  <2> QED
    BY <1>3, <1>7, <2>1, <2>2, <2>3, <2>4, <2>5
<1>8. RecordsOK'
  <2>1. ASSUME NEW l \in Slots, NEW r \in Places, Entry(l, r)'
        PROVE  RecordOK(l, Rec(l, r).name, Rec(l, r).ino)'
    <3>1. PICK name : name = Rec(l, r).name
      OBVIOUS
    <3>2. PICK y : y = Rec(l, r).ino
      OBVIOUS
    <3>3. /\ Entry(l, r) /\ Rec(l, r)'.name = name /\ Rec(l, r)'.ino = y /\ y # n
      BY <1>4, <2>1, <3>1, <3>2
    <3>4. RecordOK(l, name, y)
      BY <3>1, <3>2, <3>3 DEF NamesInv, RecordsOK
    <3>5. CASE Resolved(name, y)
      <4>1. Resolved(name, y)'
        BY <1>2, <3>5 DEF Resolved
      <4> QED
        BY <3>3, <3>4, <4>1 DEF RecordOK
    <3>6. ASSUME NEW j \in Procs, Pends(proc[j], l, name, y)
          PROVE  RecordOK(l, Rec(l, r).name, Rec(l, r).ino)'
      <4>1. proc[j].op = "unlink" /\ proc[j].pc \in {"save_rest", "forget"}
        BY <1>2, <3>6, CallGround DEF Pends, CallOK, Creating, Adding
      <4>2. y = core[proc[j].path].dead /\ name = proc[j].path
            /\ l = SlotOf(Parent[proc[j].path])
        BY <3>6, <4>1 DEF Pends, Adding
      <4>3. j # i
        BY <1>0, <1>1, <3>3, <4>2
      <4>4. /\ proc'[j] = proc[j] /\ y = core'[proc[j].path].dead
            /\ l = SlotOf(Parent[proc[j].path])'
        BY <1>3, <1>7, <4>1, <4>2, <4>3
      <4>5. Pends(proc[j], l, name, y)'
        BY <4>1, <4>2, <4>4 DEF Pends
      <4> QED
        BY <3>3, <3>4, <4>5 DEF RecordOK
    <3> QED
      BY <3>4, <3>5, <3>6 DEF RecordOK
  <2> QED
    BY <2>1 DEF RecordsOK
<1>9. CoresOK'
  <2> SUFFICES ASSUME NEW q \in Paths, core'[q] # NoInode PROVE CoreOK(q)'
    BY DEF CoresOK
  <2>1. q # p /\ core'[q] = core[q] /\ core[q] # NoInode
    BY <1>2
  <2>2. CoreOK(q)
    BY <2>1 DEF NamesInv, CoresOK
  <2>3. (Grown(q)' <=> Grown(q)) /\ (Resized(q)' <=> Resized(q)) /\ (Going(q)' <=> Going(q))
    <3>1. /\ Grows(proc[i], q) <=> Grows(proc[i], q)'
          /\ Resizes(proc[i], q) <=> Resizes(proc[i], q)'
          /\ Goes(proc[i], q) <=> Goes(proc[i], q)'
      BY <1>0, <1>2, <1>3, <2>1 DEF Grows, Resizes, Goes
    <3> QED
      BY <1>3, <3>1, CallsOf
  <2>4. Number(core[q]) # n
    <3>1. SlotOf(q) \in Slots /\ Number(core[q]) = SlotNo(SlotOf(q))
      BY <2>2 DEF CoreOK
    <3>2. SlotOf(q) # SlotOf(p)
      BY <1>2, <2>1, CoresDiffer
    <3>3. SlotOf(p) \in Slots
      BY <1>2 DEF CoreOK
    <3> QED
      BY <1>2, <3>1, <3>2, <3>3, SlotNoFacts
  <2>5. q # Root => /\ core[Parent[q]].mode = "dir" /\ Parent[q] \in Paths
                    /\ core'[Parent[q]] = core[Parent[q]]
                    /\ SlotOf(Parent[q]) \in Slots
    <3>1. q # Root => core[Parent[q]].mode = "dir" /\ Parent[q] \in Paths
      BY <2>2 DEF CoreOK
    <3>2. q # Root => core[Parent[q]] # NoInode /\ Parent[q] # p
      BY <1>2, <3>1 DEF NoInode
    <3> QED
      BY <1>2, <3>1, <3>2 DEF NamesInv, CoresOK, CoreOK
  <2>6. SlotOf(q)' = SlotOf(q) /\ (q # Root => SlotOf(Parent[q])' = SlotOf(Parent[q]))
    BY <2>1, <2>5 DEF SlotOf
  <2>7. q # Root => HasEntry(SlotOf(Parent[q]), q, Number(core[q]))'
    <3>1. ASSUME q # Root
          PROVE  /\ HasEntry(SlotOf(Parent[q]), q, Number(core[q]))
                 /\ SlotOf(Parent[q]) \in Slots
                 /\ SlotOf(Parent[q])' = SlotOf(Parent[q])
                 /\ Number(core[q])' = Number(core[q])
      BY <2>1, <2>2, <2>5, <2>6, <3>1 DEF CoreOK
    <3>2. PICK s, y : s = SlotOf(Parent[q]) /\ y = Number(core[q])
      OBVIOUS
    <3>3. q # Root => HasEntry(s, q, y)'
      BY <1>6, <2>4, <3>1, <3>2
    <3> QED
      BY <3>1, <3>2, <3>3 DEF HasEntry
  <2> QED
    BY <1>2, <2>1, <2>2, <2>3, <2>5, <2>6, <2>7 DEF CoreOK
<1>10. ASSUME NEW j \in Procs PROVE CreateOK(proc[j])' /\ UnlinkOK(proc[j])'
  <2>1. CreateOK(proc[j])'
    <3>1. proc'[j].op # "create"
      BY <1>2, <1>3
    <3> QED
      BY <3>1 DEF CreateOK
  <2>2. UnlinkOK(proc[j])'
    <3>1. CASE proc'[j].op # "unlink"
      BY <3>1 DEF UnlinkOK
    <3>2. CASE proc'[j].op = "unlink"
      <4>1. j # i /\ proc'[j] = proc[j] /\ proc[j].op = "unlink"
        BY <1>3, <3>2
      <4>2. UnlinkOK(proc[j]) /\ SlotOf(proc[j].path)' = SlotOf(proc[j].path)
        BY <1>7, <4>1 DEF NamesInv
      <4> QED
        BY <1>2, <4>1, <4>2 DEF UnlinkOK
    <3> QED
      BY <3>1, <3>2
  <2> QED
    BY <2>1, <2>2
<1> QED
  BY <1>5, <1>8, <1>9, <1>10 DEF NamesInv

\* The inode that a create has put in the store is not in core yet.
LEMMA CreatedApart ==
  ASSUME Ground, NamesInv, NEW j \in Procs, proc[j].op = "create", proc[j].pc \in Added,
         NEW q \in Paths, core[q] # NoInode
  PROVE  proc[j].new.ino # SlotNo(SlotOf(q))
<1>0. PICK p : p = proc[j].path
  OBVIOUS
<1>1. PICK n : n = proc[j].new.ino
  OBVIOUS
<1>2. PICK k : k = SlotOf(Parent[p])
  OBVIOUS
<1>3. CreateOK(proc[j]) /\ CoreOK(q) /\ core[p] = NoInode /\ k \in Slots
  <2>1. CreateOK(proc[j]) /\ CoreOK(q)
    BY DEF NamesInv, CoresOK
  <2>2. core[p] = NoInode
    BY <1>0, CallGround DEF CallOK
  <2>3. Parent[p] \in Paths /\ core[Parent[p]] # NoInode
    BY <1>0, ParentIsDir DEF NoInode
  <2>4. k \in Slots
    BY <1>2, <2>3 DEF NamesInv, CoresOK, CoreOK
  <2> QED
    BY <2>1, <2>2, <2>4
<1>4. SUFFICES ASSUME n = SlotNo(SlotOf(q)) PROVE FALSE
  BY <1>1
<1>5. q # Root
  <2>1. \E m \in Slots : m # 0 /\ n = SlotNo(m)
    BY <1>1, <1>3 DEF CreateOK
  <2> QED
    BY <1>3, <1>4, <2>1, SlotNoFacts DEF CoreOK
<1>6. PICK l : l = SlotOf(Parent[q])
  OBVIOUS
<1>7. HasEntry(l, q, n) /\ l \in Slots
  <2>1. Number(core[q]) = n /\ core[Parent[q]].mode = "dir" /\ Parent[q] \in Paths
    BY <1>3, <1>4, <1>5 DEF CoreOK
  <2>2. core[Parent[q]] # NoInode
    BY <2>1 DEF NoInode
  <2>3. l \in Slots
    BY <1>6, <2>1, <2>2 DEF NamesInv, CoresOK, CoreOK
  <2> QED
    BY <1>3, <1>5, <1>6, <2>1, <2>3 DEF CoreOK
<1>8. PICK r \in Places : Entry(l, r) /\ Rec(l, r).name = q /\ Rec(l, r).ino = n
  BY <1>7 DEF HasEntry
<1>9. CASE proc[j].found # "samedir"
  BY <1>1, <1>3, <1>7, <1>8, <1>9 DEF CreateOK
<1>10. CASE proc[j].found = "samedir"
  <2>1. HasEntry(k, p, n)
    BY <1>0, <1>1, <1>2, <1>3, <1>10 DEF CreateOK
  <2>2. PICK s \in Places : Entry(k, s) /\ Rec(k, s).name = p /\ Rec(k, s).ino = n
    BY <2>1 DEF HasEntry
  <2>3. l = k /\ r = s
    BY <1>3, <1>7, <1>8, <2>2 DEF NamesInv, RecordsDiffer
  <2> QED
    BY <1>3, <1>8, <2>2, <2>3
<1> QED
  BY <1>9, <1>10

\* A call of i saves the inode of its file, in the slot that the file has.
FileSaved(i, c, s) ==
  LET p == proc[i].path IN
  /\ proc[i].op \in {"write", "unlink"}
  /\ c.op = "none" \/ (c.op = proc[i].op /\ c.path = p)
  /\ proc' = [proc EXCEPT ![i] = c]
  /\ s.mode = "file" /\ store[SlotOf(p)].mode = "file"
  /\ store[SlotOf(p)].ino # 0 \/ \A j \in Procs : proc[j].op # "create"
  /\ store' = [store EXCEPT ![SlotOf(p)] = s]
  /\ UNCHANGED <<sb, dir, core>>

\* Saving a file changes its slot only, and no directory.
LEMMA FileSlot ==
  ASSUME Ground, NamesInv, NEW i \in Procs, NEW c, NEW s, FileSaved(i, c, s)
  PROVE  LET p == proc[i].path  k == SlotOf(p) IN
         /\ p \in Paths /\ core[p].mode = "file" /\ core[p] # NoInode /\ CoreOK(p)
         /\ k \in Slots /\ k < sb.count
         /\ store'[k] = s /\ \A l \in Slots \ {k} : store'[l] = store[l]
         /\ proc'[i] = c /\ \A j \in Procs \ {i} : proc'[j] = proc[j]
         /\ \A l \in Slots : \A r \in Places :
              /\ Entry(l, r)' <=> Entry(l, r)
              /\ Entry(l, r) => Rec(l, r)' = Rec(l, r)
         /\ RecordsDiffer'
         /\ \A l \in Slots : \A name, n : HasEntry(l, name, n)' <=> HasEntry(l, name, n)
         /\ \A q : SlotOf(q)' = SlotOf(q)
<1>0. PICK p : p = proc[i].path
  OBVIOUS
<1>1. PICK k : k = SlotOf(p)
  OBVIOUS
<1>2. /\ p \in Paths /\ core[p].mode = "file" /\ core[p] # NoInode
      /\ UNCHANGED <<sb, dir, core>>
  <2>1. proc[i].op \in {"write", "unlink"} /\ UNCHANGED <<sb, dir, core>>
    BY DEF FileSaved
  <2>2. core[p].mode = "file" /\ p \in Paths
    BY <1>0, <2>1, CallGround, CallFacts DEF CallOK
  <2> QED
    BY <2>1, <2>2 DEF NoInode
<1>3. CoreOK(p)
  BY <1>2 DEF NamesInv, CoresOK
<1>4. k \in Slots /\ k < sb.count
  BY <1>1, <1>3 DEF CoreOK
<1>5. /\ store' = [store EXCEPT ![k] = s] /\ s.mode = "file" /\ store[k].mode = "file"
      /\ proc' = [proc EXCEPT ![i] = c]
  BY <1>0, <1>1 DEF FileSaved
<1>6. /\ store'[k] = s /\ \A l \in Slots \ {k} : store'[l] = store[l]
      /\ proc'[i] = c /\ \A j \in Procs \ {i} : proc'[j] = proc[j]
  BY <1>4, <1>5, CallGround DEF Ground, FsInv, TypeOK
<1>7. ~IsDir(k) /\ ~IsDir(k)'
  BY <1>5, <1>6 DEF IsDir
<1>8. ASSUME NEW l \in Slots \ {k}, NEW r
      PROVE  (IsDir(l)' <=> IsDir(l)) /\ (Entry(l, r)' <=> Entry(l, r)) /\ Rec(l, r)' = Rec(l, r)
  <2>1. store'[l] = store[l]
    BY <1>6
  <2>2. Rec(l, r)' = Rec(l, r)
    BY <1>2, <2>1 DEF Rec
  <2>3. IsDir(l)' <=> IsDir(l)
    BY <1>2, <2>1 DEF IsDir
  <2> QED
    BY <2>1, <2>2, <2>3 DEF Entry
<1>9. \A l \in Slots : \A r \in Places :
        /\ Entry(l, r)' <=> Entry(l, r)
        /\ Entry(l, r) => Rec(l, r)' = Rec(l, r)
  BY <1>7, <1>8 DEF Entry
<1>10. /\ RecordsDiffer'
       /\ \A l \in Slots : \A name, n : HasEntry(l, name, n)' <=> HasEntry(l, name, n)
  BY <1>9, SameEntries DEF NamesInv
<1>11. \A q : SlotOf(q)' = SlotOf(q)
  BY <1>2 DEF SlotOf
<1> QED
  BY <1>0, <1>1, <1>2, <1>3, <1>4, <1>6, <1>9, <1>10, <1>11

\* The other calls, and the other inodes in core.
LEMMA FileOthers ==
  ASSUME Ground, NamesInv, NEW i \in Procs, NEW c, NEW s, FileSaved(i, c, s)
  PROVE  /\ \A j \in Procs \ {i} :
              /\ CreateOK(proc[j])' /\ UnlinkOK(proc[j])'
              /\ \A l, name, n : Pends(proc[j], l, name, n) => Pends(proc[j], l, name, n)'
         /\ \A q \in Paths \ {proc[i].path} : core[q] # NoInode => CoreOK(q)'
<1>0. PICK p : p = proc[i].path
  OBVIOUS
<1>1. PICK k : k = SlotOf(p)
  OBVIOUS
<1>2. /\ p \in Paths /\ core[p].mode = "file" /\ core[p] # NoInode
      /\ k \in Slots /\ k < sb.count /\ CoreOK(p)
      /\ store'[k] = s /\ \A l \in Slots \ {k} : store'[l] = store[l]
      /\ proc'[i] = c /\ \A j \in Procs \ {i} : proc'[j] = proc[j]
      /\ \A q : SlotOf(q)' = SlotOf(q)
  BY <1>0, <1>1, FileSlot
<1>3. /\ \A l \in Slots : \A r \in Places :
           /\ Entry(l, r)' <=> Entry(l, r)
           /\ Entry(l, r) => Rec(l, r)' = Rec(l, r)
      /\ \A l \in Slots : \A name, n : HasEntry(l, name, n)' <=> HasEntry(l, name, n)
  BY FileSlot
<1>4. /\ proc[i].op \in {"write", "unlink"} /\ UNCHANGED <<sb, dir, core>>
      /\ c.op = "none" \/ (c.op = proc[i].op /\ c.path = p)
      /\ s.mode = "file" /\ store[k].mode = "file"
      /\ store[k].ino # 0 \/ \A j \in Procs : proc[j].op # "create"
  BY <1>0, <1>1 DEF FileSaved
<1>5. ASSUME NEW j \in Procs \ {i}, proc[j].op = "unlink"
      PROVE  SlotOf(proc[j].path) \in Slots \ {k}
  <2>1. proc[j].path \in Paths /\ core[proc[j].path].mode = "file"
    BY <1>5, CallGround, CallFacts DEF CallOK
  <2>2. proc[j].path # p
    BY <1>0, <1>4, <1>5 DEF Ground, FsInv, CallsInv, CallsApart
  <2>3. core[proc[j].path] # NoInode
    BY <2>1 DEF NoInode
  <2> QED
    BY <1>1, <1>2, <2>1, <2>2, <2>3, CoresDiffer DEF NamesInv, CoresOK, CoreOK
<1>6. ASSUME NEW j \in Procs \ {i} PROVE UnlinkOK(proc[j])'
  <2>1. UnlinkOK(proc[j]) /\ proc'[j] = proc[j]
    BY <1>2 DEF NamesInv
  <2> QED
    BY <1>2, <1>5, <2>1 DEF UnlinkOK
<1>7. ASSUME NEW j \in Procs \ {i}, NEW l, NEW name, NEW n, Pends(proc[j], l, name, n)
      PROVE  Pends(proc[j], l, name, n)'
  BY <1>2, <1>4, <1>7 DEF Pends
<1>8. ASSUME NEW j \in Procs \ {i} PROVE CreateOK(proc[j])'
  <2>1. CreateOK(proc[j]) /\ proc'[j] = proc[j]
    BY <1>2 DEF NamesInv
  <2>2. CASE proc[j].op # "create"
    BY <2>1, <2>2 DEF CreateOK
  <2>3. CASE proc[j].op = "create"
    <3>1. PICK b : b = SlotOf(Parent[proc[j].path])
      OBVIOUS
    <3>2. b = SlotOf(Parent[proc[j].path])' /\ b \in Slots
      <4>1. core[Parent[proc[j].path]] # NoInode /\ Parent[proc[j].path] \in Paths
        BY <2>3, ParentIsDir DEF NoInode
      <4> QED
        BY <1>2, <2>1, <3>1, <4>1 DEF NamesInv, CoresOK, CoreOK
    <3>3. b # k
      <4>1. core[Parent[proc[j].path]] # NoInode /\ Parent[proc[j].path] \in Paths
            /\ Parent[proc[j].path] # p
        BY <1>2, <2>3, ParentIsDir DEF NoInode
      <4> QED
        BY <1>1, <1>2, <3>1, <4>1, CoresDiffer
    <3>4. \A r : Rec(b, r)' = Rec(b, r) /\ store'[b] = store[b]
      BY <1>2, <1>4, <3>2, <3>3 DEF Rec
    <3>5. proc[j].pc \in Adding /\ proc[j].found # "none" =>
            \E m \in Slots : /\ m < sb'.count /\ store'[m].ino = 0
                             /\ store'[m].dead = SlotNo(m) /\ proc[j].new.ino = SlotNo(m)
      <4> SUFFICES ASSUME proc[j].pc \in Adding, proc[j].found # "none"
                   PROVE  \E m \in Slots : /\ m < sb'.count /\ store'[m].ino = 0
                            /\ store'[m].dead = SlotNo(m) /\ proc[j].new.ino = SlotNo(m)
        OBVIOUS
      <4>1. PICK m \in Slots : /\ m < sb.count /\ store[m].ino = 0
                               /\ store[m].dead = SlotNo(m) /\ proc[j].new.ino = SlotNo(m)
        BY <2>1, <2>3 DEF CreateOK
      <4>2. m # k
        BY <1>4, <2>3, <4>1
      <4> QED
        BY <1>2, <1>4, <4>1, <4>2
    <3>6. proc[j].pc \in Added =>
            \E m \in Slots : /\ m # 0 /\ m < sb'.count
                             /\ store'[m] = proc[j].new /\ proc[j].new.ino = SlotNo(m)
      <4> SUFFICES ASSUME proc[j].pc \in Added
                   PROVE  \E m \in Slots : /\ m # 0 /\ m < sb'.count
                            /\ store'[m] = proc[j].new /\ proc[j].new.ino = SlotNo(m)
        OBVIOUS
      <4>1. PICK m \in Slots : /\ m # 0 /\ m < sb.count
                               /\ store[m] = proc[j].new /\ proc[j].new.ino = SlotNo(m)
        BY <2>1, <2>3 DEF CreateOK
      <4>2. m # k
        BY <1>1, <1>2, <2>3, <4>1, CreatedApart
      <4> QED
        BY <1>2, <1>4, <4>1, <4>2
    <3>7. /\ proc[j].found # "samedir" =>
               \A r \in Places : Entry(b, r)' => Rec(b, r)'.name # proc[j].path
          /\ proc[j].found = "samedir" => HasEntry(b, proc[j].path, proc[j].new.ino)'
      <4>1. /\ proc[j].found # "samedir" =>
                 \A r \in Places : Entry(b, r) => Rec(b, r).name # proc[j].path
            /\ proc[j].found = "samedir" => HasEntry(b, proc[j].path, proc[j].new.ino)
        BY <2>1, <2>3, <3>1 DEF CreateOK
      <4>2. proc[j].found = "samedir" => HasEntry(b, proc[j].path, proc[j].new.ino)'
        <5>1. PICK n : n = proc[j].new.ino
          OBVIOUS
        <5>2. PICK name : name = proc[j].path
          OBVIOUS
        <5>3. proc[j].found = "samedir" => HasEntry(b, name, n)'
          BY <1>3, <3>2, <4>1, <5>1, <5>2
        <5> QED
          BY <2>1, <5>1, <5>2, <5>3
      <4> QED
        BY <1>3, <3>2, <4>1, <4>2
    <3>8. proc[j].pc \in Added /\ proc[j].found # "samedir" =>
            \A l \in Slots : \A r \in Places : Entry(l, r)' => Rec(l, r)'.ino # proc[j].new.ino
      <4>1. proc[j].pc \in Added /\ proc[j].found # "samedir" =>
              \A l \in Slots : \A r \in Places : Entry(l, r) => Rec(l, r).ino # proc[j].new.ino
        BY <2>1, <2>3 DEF CreateOK
      <4> QED
        BY <1>3, <4>1
    <3>9. proc[j].pc \in Recorded /\ proc[j].found # "samedir" =>
            /\ store'[b].size < DirCap
            /\ Rec(b, store[b].size)' = [name |-> proc[j].path, ino |-> proc[j].new.ino]
      <4>1. PICK r : r = store[b].size
        OBVIOUS
      <4>2. r = store'[b].size
        BY <3>4, <4>1
      <4>3. proc[j].pc \in Recorded /\ proc[j].found # "samedir" =>
              r < DirCap /\ Rec(b, r) = [name |-> proc[j].path, ino |-> proc[j].new.ino]
        BY <2>1, <2>3, <3>1, <4>1 DEF CreateOK
      <4>4. Rec(b, store[b].size)' = Rec(b, r)'
        BY <4>2 DEF Rec
      <4> QED
        BY <3>4, <4>2, <4>3, <4>4
    <3>10. sb' = sb
      BY <1>4
    <3>11. /\ proc[j].pc \notin {"lock_dir", "lock_count", "count"} =>
                proc[j].new.mode = Kind[proc[j].path]
           /\ proc[j].found = "samedir" => proc[j].pc \notin {"lock_save", "save"}
           /\ proc[j].pc \in Adding /\ proc[j].found = "none" =>
                proc[j].new.ino = SlotNo(sb.count)
      BY <2>1, <2>3 DEF CreateOK
    <3> QED
      BY <2>1, <2>3, <3>2, <3>5, <3>6, <3>7, <3>8, <3>9, <3>10, <3>11 DEF CreateOK
  <2> QED
    BY <2>2, <2>3
<1>9. ASSUME NEW q \in Paths \ {p}, core[q] # NoInode PROVE CoreOK(q)'
  <2>1. CoreOK(q)
    BY <1>9 DEF NamesInv, CoresOK
  <2>2. (Grown(q)' <=> Grown(q)) /\ (Resized(q)' <=> Resized(q)) /\ (Going(q)' <=> Going(q))
    <3>1. ~Grows(proc[i], q) /\ ~Resizes(proc[i], q) /\ ~Goes(proc[i], q)
      BY <1>0, <1>4 DEF Grows, Resizes, Goes
    <3>2. ~Grows(proc'[i], q) /\ ~Resizes(proc'[i], q) /\ ~Goes(proc'[i], q)
      BY <1>2, <1>4 DEF Grows, Resizes, Goes
    <3>3. /\ Grows(proc[i], q) <=> Grows(proc[i], q)'
          /\ Resizes(proc[i], q) <=> Resizes(proc[i], q)'
          /\ Goes(proc[i], q) <=> Goes(proc[i], q)'
      BY <3>1, <3>2 DEF Grows, Resizes, Goes
    <3> QED
      BY <1>2, <3>3, CallsOf
  <2>3. SlotOf(q) \in Slots \ {k}
    BY <1>1, <1>2, <1>9, <2>1, CoresDiffer DEF CoreOK
  <2>4. store'[SlotOf(q)] = store[SlotOf(q)]
    BY <1>2, <2>3
  <2>5. q # Root => HasEntry(SlotOf(Parent[q]), q, Number(core[q]))'
    <3>1. ASSUME q # Root
          PROVE  SlotOf(Parent[q]) \in Slots /\ HasEntry(SlotOf(Parent[q]), q, Number(core[q]))
      <4>1. core[Parent[q]] # NoInode /\ Parent[q] \in Paths
        BY <2>1, <3>1 DEF CoreOK, NoInode
      <4> QED
        BY <2>1, <3>1, <4>1 DEF NamesInv, CoresOK, CoreOK
    <3> QED
      BY <1>2, <1>3, <1>4, <3>1
  <2> QED
    BY <1>2, <1>4, <2>1, <2>2, <2>4, <2>5 DEF CoreOK
<1> QED
  BY <1>0, <1>6, <1>7, <1>8, <1>9

\* What Save finds: the slot that the inode has.
LEMMA SlotFound ==
  ASSUME Ground, NamesInv, NEW o \in Paths, core[o] # NoInode,
         store[SlotOf(o)].ino # 0
  PROVE  LET n == Number(core[o])
             slots == {k \in Slots : k <= sb.count /\ store[k].ino = n}
         IN slots # {} /\ Min(slots) = SlotOf(o)
<1>1. PICK k : k = SlotOf(o)
  OBVIOUS
<1>2. PICK n : n = Number(core[o])
  OBVIOUS
<1> DEFINE slots == {l \in Slots : l <= sb.count /\ store[l].ino = n}
<1>3. k \in Slots /\ k < sb.count /\ n = SlotNo(k) /\ n # 0 /\ sb.count \in Nat
  <2>1. CoreOK(o)
    BY DEF NamesInv, CoresOK
  <2> QED
    BY <1>1, <1>2, <2>1, SlotNoFacts DEF CoreOK, Ground, StoreOK
<1>4. slots = {k}
  <2>1. k \in slots
    BY <1>1, <1>3 DEF Ground, StoreOK, Slots
  <2>2. ASSUME NEW l \in slots PROVE l = k
    <3>1. l < sb.count
      <4>1. store[l] # NoInode
        BY <1>3 DEF NoInode
      <4> QED
        BY <4>1 DEF Ground, StoreOK
    <3>2. SlotNo(l) = SlotNo(k)
      BY <1>3, <3>1 DEF Ground, StoreOK
    <3> QED
      BY <1>3, <3>2, SlotNoFacts
  <2> QED
    BY <2>1, <2>2
<1>5. Min(slots) = k
  <2>1. {k} \in SUBSET Nat
    BY <1>3 DEF Slots
  <2> QED
    BY <1>4, <2>1, MinFacts
<1> QED
  BY <1>1, <1>2, <1>4, <1>5

\* inode_save of a file that was written.
LEMMA WriteSaved ==
  ASSUME Ground, NamesInv, NEW i \in Procs, NEW c, FileSaved(i, c, core[proc[i].path]),
         proc[i].op = "write", At(i, "save"), c.op = "none", c.pc = "idle"
  PROVE  NamesInv'
<1>0. PICK p : p = proc[i].path
  OBVIOUS
<1>1. PICK k : k = SlotOf(p)
  OBVIOUS
<1>2. PICK s : s = core[p]
  OBVIOUS
<1>3. FileSaved(i, c, s)
  BY <1>0, <1>2
<1>4. /\ p \in Paths /\ core[p].mode = "file" /\ core[p] # NoInode
      /\ k \in Slots /\ k < sb.count /\ CoreOK(p)
      /\ store'[k] = s /\ \A l \in Slots \ {k} : store'[l] = store[l]
      /\ proc'[i] = c /\ \A j \in Procs \ {i} : proc'[j] = proc[j]
      /\ \A q : SlotOf(q)' = SlotOf(q)
  BY <1>0, <1>1, <1>3, FileSlot
<1>5. /\ \A l \in Slots : \A r \in Places :
           /\ Entry(l, r)' <=> Entry(l, r)
           /\ Entry(l, r) => Rec(l, r)' = Rec(l, r)
      /\ RecordsDiffer'
      /\ \A l \in Slots : \A name, n : HasEntry(l, name, n)' <=> HasEntry(l, name, n)
  BY <1>3, FileSlot
<1>6. /\ UNCHANGED <<sb, dir, core>> /\ store[k].mode = "file"
  BY <1>0, <1>1, <1>3 DEF FileSaved
<1>7. ~Going(p) /\ ~Grown(p)
  <2>1. ASSUME NEW j \in Procs PROVE ~Goes(proc[j], p)
    BY <1>0 DEF Goes, Ground, FsInv, CallsInv, CallsApart
  <2>2. ASSUME NEW j \in Procs PROVE ~Grows(proc[j], p)
    BY <1>4, CallGround DEF Grows, CallOK
  <2> QED
    BY <2>1, <2>2 DEF Going, Grown
<1>8. s.ino = store[k].ino /\ s.ino # 0
  <2>1. core[p].ino # 0 /\ store[k].ino # 0 /\ Number(core[p]) = SlotNo(k)
    BY <1>1, <1>4, <1>7 DEF CoreOK
  <2> QED
    BY <1>2, <1>4, <2>1 DEF Number, Ground, StoreOK
<1>9. \A name, n : Resolved(name, n)' <=> Resolved(name, n)
  <2>1. \A m \in Slots : store'[m].ino = store[m].ino /\ store'[m].mode = store[m].mode
    BY <1>2, <1>4, <1>6, <1>8
  <2> QED
    BY <1>6, <2>1 DEF Resolved
<1>10. RecordsOK'
  <2>1. \A j \in Procs : \A l, name, n : Pends(proc[j], l, name, n) => Pends(proc[j], l, name, n)'
    <3>1. \A l, name, n : ~Pends(proc[i], l, name, n)
      BY DEF Pends, Adding
    <3> QED
      BY <1>3, <3>1, FileOthers
  <2>2. \A l, name, n : RecordOK(l, name, n) => RecordOK(l, name, n)'
    BY <1>9, <2>1 DEF RecordOK
  <2> QED
    BY <1>5, <2>2 DEF NamesInv, RecordsOK
<1>11. CoreOK(p)'
  <2>1. ~Resized(p)'
    <3>1. ASSUME NEW j \in Procs, Resizes(proc'[j], p) PROVE FALSE
      <4>1. j # i /\ proc'[j] = proc[j] /\ Resizes(proc[j], p)
        BY <1>4, <3>1 DEF Resizes
      <4>2. "ino" \in Holds(i) /\ "ino" \in Holds(j)
        BY <4>1 DEF Holds, HeldBy, Resizes
      <4>3. lock["ino"] = i /\ lock["ino"] = j
        BY <4>2 DEF Ground, OwnInv, Owned, Locks
      <4> QED
        BY <4>1, <4>3
    <3> QED
      BY <3>1 DEF Resized, Resizes
  <2>2. ~Grown(p)' /\ ~Going(p)'
    <3>1. ASSUME NEW j \in Procs PROVE ~Grows(proc'[j], p) /\ ~Goes(proc'[j], p)
      <4>1. ~Grows(proc[j], p) /\ ~Goes(proc[j], p)
        BY <1>7 DEF Grown, Going
      <4> QED
        BY <1>4, <4>1 DEF Grows, Goes
    <3> QED
      BY <3>1 DEF Grown, Going, Grows, Goes
  <2>3. p # Root => HasEntry(SlotOf(Parent[p]), p, Number(core[p]))'
    <3>1. ASSUME p # Root
          PROVE  SlotOf(Parent[p]) \in Slots /\ HasEntry(SlotOf(Parent[p]), p, Number(core[p]))
      <4>1. core[Parent[p]] # NoInode /\ Parent[p] \in Paths
        BY <1>4, <3>1 DEF CoreOK, NoInode
      <4> QED
        BY <1>4, <3>1, <4>1 DEF NamesInv, CoresOK, CoreOK
    <3> QED
      BY <1>4, <1>5, <1>6, <3>1
  <2>4. core'[p] = store'[k] /\ store'[k].ino # 0 /\ SlotOf(p)' = k
    BY <1>1, <1>2, <1>4, <1>6, <1>8
  <2> QED
    BY <1>1, <1>2, <1>4, <1>6, <1>8, <2>1, <2>2, <2>3, <2>4 DEF CoreOK
<1>12. CoresOK'
  <2>1. \A q \in Paths \ {p} : core[q] # NoInode => CoreOK(q)'
    BY <1>0, <1>3, FileOthers
  <2> QED
    BY <1>6, <1>11, <2>1 DEF CoresOK
<1>13. ASSUME NEW j \in Procs PROVE CreateOK(proc[j])' /\ UnlinkOK(proc[j])'
  <2>1. CASE j # i
    BY <1>3, <2>1, FileOthers
  <2>2. CASE j = i
    BY <1>4, <2>2 DEF CreateOK, UnlinkOK
  <2> QED
    BY <2>1, <2>2
<1> QED
  BY <1>5, <1>10, <1>12, <1>13 DEF NamesInv

\* The two halves of the save of an unlink: first the number goes, then the
\* rest of the dead inode is there.
LEMMA UnlinkSaved ==
  ASSUME Ground, NamesInv, NobodyCreatesBeside, NEW i \in Procs, NEW c, NEW s,
         FileSaved(i, c, s), proc[i].op = "unlink", s.ino = 0,
         c.op = "unlink", c.path = proc[i].path,
         \/ /\ At(i, "save") /\ c.pc = "save_rest"
            /\ c.slot = SlotOf(proc[i].path)
         \/ At(i, "save_rest") /\ c.pc = "forget"
  PROVE  NamesInv'
<1>0. PICK p : p = proc[i].path
  OBVIOUS
<1>1. PICK k : k = SlotOf(p)
  OBVIOUS
<1>2. PICK n : n = SlotNo(k)
  OBVIOUS
<1>3. PICK b : b = SlotOf(Parent[p])
  OBVIOUS
<1>4. /\ p \in Paths /\ core[p].mode = "file" /\ core[p] # NoInode
      /\ k \in Slots /\ k < sb.count /\ CoreOK(p)
      /\ store'[k] = s /\ \A l \in Slots \ {k} : store'[l] = store[l]
      /\ proc'[i] = c /\ \A j \in Procs \ {i} : proc'[j] = proc[j]
      /\ \A q : SlotOf(q)' = SlotOf(q)
  BY <1>0, <1>1, FileSlot
<1>5. /\ \A l \in Slots : \A r \in Places :
           /\ Entry(l, r)' <=> Entry(l, r)
           /\ Entry(l, r) => Rec(l, r)' = Rec(l, r)
      /\ RecordsDiffer'
      /\ \A l \in Slots : \A name, x : HasEntry(l, name, x)' <=> HasEntry(l, name, x)
  BY FileSlot
<1>6. UNCHANGED <<sb, dir, core>> /\ store[k].mode = "file" /\ s.mode = "file"
  BY <1>0, <1>1 DEF FileSaved
<1>7. \A j \in Procs : proc[j].op # "create"
  BY OneChanger DEF Ground
<1>8. /\ p # Root /\ core[p].ino = 0 /\ core[p].dead = n /\ n # 0
      /\ HasEntry(b, p, n) /\ b \in Slots
  <2>1. core[p].ino = 0 /\ p # Root /\ core[Parent[p]].mode = "dir" /\ Parent[p] \in Paths
    BY <1>0, CallGround, ParentIsDir
  <2>2. core[p].dead = n /\ n # 0 /\ Number(core[p]) = n
    BY <1>1, <1>2, <1>4, <2>1, SlotNoFacts DEF CoreOK, Number
  <2>3. b \in Slots
    <3>1. core[Parent[p]] # NoInode
      BY <2>1 DEF NoInode
    <3> QED
      BY <1>3, <2>1, <3>1 DEF NamesInv, CoresOK, CoreOK
  <2> QED
    BY <1>3, <1>4, <2>1, <2>2, <2>3 DEF CoreOK
<1>9. PICK r0 \in Places : Entry(b, r0) /\ Rec(b, r0).name = p /\ Rec(b, r0).ino = n
  BY <1>8 DEF HasEntry
<1>10. RecordsOK'
  <2>1. ASSUME NEW l \in Slots, NEW r \in Places, Entry(l, r)'
        PROVE  RecordOK(l, Rec(l, r).name, Rec(l, r).ino)'
    <3>1. PICK name : name = Rec(l, r).name
      OBVIOUS
    <3>2. PICK y : y = Rec(l, r).ino
      OBVIOUS
    <3>3. /\ Entry(l, r) /\ Rec(l, r)'.name = name /\ Rec(l, r)'.ino = y
      BY <1>5, <2>1, <3>1, <3>2
    <3>4. RecordOK(l, name, y)
      BY <3>1, <3>2, <3>3 DEF NamesInv, RecordsOK
    <3>5. CASE y = n
      <4>1. l = b /\ r = r0
        <5>1. RecordsDiffer
          BY DEF NamesInv
        <5>2. Rec(l, r).ino = Rec(b, r0).ino
          BY <1>9, <3>2, <3>5
        <5> QED
          BY <1>8, <1>9, <3>3, <5>1, <5>2 DEF RecordsDiffer
      <4>2. name = p
        BY <1>9, <3>1, <4>1
      <4>3. Pends(proc[i], l, name, y)'
        <5>1. proc'[i].pc \in {"save_rest", "forget"} /\ proc'[i].path = p
          BY <1>0, <1>4
        <5>2. y = core'[p].dead /\ l = SlotOf(Parent[p])'
          BY <1>3, <1>4, <1>6, <1>8, <3>5, <4>1
        <5> QED
          BY <4>2, <5>1, <5>2 DEF Pends
      <4> QED
        BY <3>3, <3>4, <4>3 DEF RecordOK
    <3>6. CASE y # n /\ Resolved(name, y)
      <4>1. PICK m \in Slots : /\ m # 0 /\ m < sb.count /\ store[m].ino = y
                               /\ store[m].mode = Kind[name]
        BY <3>6 DEF Resolved
      <4>2. m # k
        <5>1. y # 0
          BY <3>2, <3>3 DEF Entry
        <5> QED
          BY <1>2, <3>6, <4>1, <5>1 DEF Ground, StoreOK
      <4>3. Resolved(name, y)'
        BY <1>4, <1>6, <4>1, <4>2 DEF Resolved
      <4> QED
        BY <3>3, <3>4, <4>3 DEF RecordOK
    <3>7. ASSUME y # n, NEW j \in Procs, Pends(proc[j], l, name, y)
          PROVE  RecordOK(l, Rec(l, r).name, Rec(l, r).ino)'
      <4>1. j # i
        BY <1>0, <1>8, <3>7 DEF Pends, Adding
      <4>2. Pends(proc[j], l, name, y)'
        BY <3>7, <4>1, FileOthers
      <4> QED
        BY <3>3, <3>4, <4>2 DEF RecordOK
    <3> QED
      BY <3>4, <3>5, <3>6, <3>7 DEF RecordOK
  <2> QED
    BY <2>1 DEF RecordsOK
<1>11. CoreOK(p)'
  <2>1. Going(p)'
    BY <1>0, <1>4 DEF Going, Goes
  <2>2. ~Grown(p)'
    <3>1. \A j \in Procs : proc'[j].op # "create"
      BY <1>4, <1>7
    <3> QED
      BY <3>1 DEF Grown, Grows
  <2>3. HasEntry(SlotOf(Parent[p]), p, Number(core[p]))'
    <3>1. HasEntry(b, p, n)'
      BY <1>5, <1>8
    <3>2. SlotOf(Parent[p])' = b /\ Number(core[p])' = n
      BY <1>3, <1>4, <1>6, <1>8 DEF Number
    <3> QED
      BY <3>1, <3>2 DEF HasEntry
  <2> QED
    BY <1>1, <1>4, <1>6, <1>8, <2>1, <2>2, <2>3 DEF CoreOK
<1>12. CoresOK'
  <2>1. \A q \in Paths \ {p} : core[q] # NoInode => CoreOK(q)'
    BY <1>0, FileOthers
  <2> QED
    BY <1>6, <1>11, <2>1 DEF CoresOK
<1>13. ASSUME NEW j \in Procs PROVE CreateOK(proc[j])' /\ UnlinkOK(proc[j])'
  <2>1. CASE j # i
    BY <2>1, FileOthers
  <2>2. CASE j = i
    <3>1. CreateOK(proc[i])'
      BY <1>4 DEF CreateOK
    <3>2. UnlinkOK(proc[i])'
      <4>1. proc'[i].path = p /\ SlotOf(p)' = k /\ store'[k].ino = 0
        BY <1>0, <1>1, <1>4
      <4> QED
        BY <1>0, <1>1, <1>4, <4>1 DEF UnlinkOK
    <3> QED
      BY <2>2, <3>1, <3>2
  <2> QED
    BY <2>1, <2>2
<1> QED
  BY <1>5, <1>10, <1>12, <1>13 DEF NamesInv

\* A create of i saves its directory d, whose slot is k; it has written the
\* record x behind the last one.
DirSaved(i, d, k, r0, x) ==
  /\ proc[i].op = "create" /\ proc[i].pc = "save"
  /\ d = Parent[proc[i].path] /\ k = SlotOf(d) /\ r0 = store[k].size
  /\ x = [name |-> proc[i].path, ino |-> proc[i].new.ino]
  /\ store' = [store EXCEPT ![k] = core[d]] /\ UNCHANGED <<sb, dir>>

\* That record counts from then on.
LEMMA GrowDoes ==
  ASSUME Ground, NamesInv, NEW i \in Procs, NEW d, NEW k, NEW r0, NEW x,
         DirSaved(i, d, k, r0, x)
  PROVE  /\ store'[k] = core[d] /\ \A l \in Slots \ {k} : store'[l] = store[l]
         /\ store'[k].mode = store[k].mode /\ store'[k].ino = store[k].ino
         /\ store[k].mode = "dir" /\ r0 \in Places /\ x.ino # 0 /\ Gained(k, r0, x)
<1>0. PICK p : p = proc[i].path
  OBVIOUS
<1>1. /\ proc[i].op = "create" /\ proc[i].pc = "save"
      /\ d = Parent[p] /\ k = SlotOf(d) /\ r0 = store[k].size
      /\ x = [name |-> p, ino |-> proc[i].new.ino]
      /\ store' = [store EXCEPT ![k] = core[d]] /\ UNCHANGED <<sb, dir>>
  BY <1>0 DEF DirSaved
<1>2. PICK new : new = proc[i].new
  OBVIOUS
<1>3. /\ p \in Paths \ {Root} /\ d \in Paths /\ core[d].mode = "dir"
      /\ core[d] # NoInode /\ CoreOK(d)
      /\ k \in Slots /\ k < sb.count /\ CreateOK(proc[i])
  <2>1. p \in Paths \ {Root} /\ d \in Paths /\ core[d].mode = "dir"
    BY <1>0, <1>1, ParentIsDir
  <2>2. core[d] # NoInode
    BY <1>1, <2>1 DEF NoInode
  <2>3. CoreOK(d)
    BY <1>1, <2>1, <2>2 DEF NamesInv, CoresOK
  <2>4. k \in Slots /\ k < sb.count
    BY <1>1, <2>3 DEF CoreOK
  <2> QED
    BY <1>1, <2>1, <2>2, <2>3, <2>4 DEF NamesInv
<1>6. ~Going(d) /\ ~Resized(d) /\ core[d].ino # 0
  <2>1. ASSUME NEW j \in Procs PROVE ~Goes(proc[j], d) /\ ~Resizes(proc[j], d)
    BY <1>1, <1>3, CallGround DEF Goes, Resizes, CallOK
  <2>2. ~Going(d) /\ ~Resized(d)
    BY <1>1, <2>1 DEF Going, Resized
  <2> QED
    BY <1>1, <1>3, <2>2 DEF CoreOK
<1>7. core[d] = [store[k] EXCEPT !.size = @ + 1]
  <2>1. Grown(d)
    BY <1>0, <1>1 DEF Grown, Grows
  <2> QED
    BY <1>1, <1>3, <2>1 DEF CoreOK
<1>9. /\ store'[k] = core[d] /\ \A l \in Slots \ {k} : store'[l] = store[l]
      /\ store'[k].mode = store[k].mode /\ store'[k].ino = store[k].ino
      /\ store'[k].block = store[k].block /\ store'[k].size = r0 + 1
      /\ r0 \in Nat /\ store[k].ino # 0 /\ store[k].mode = "dir"
  <2>1. store \in [Slots -> Inode]
    BY DEF Ground, FsInv, TypeOK
  <2>2. /\ store'[k] = core[d] /\ \A l \in Slots \ {k} : store'[l] = store[l]
    BY <1>1, <1>3, <2>1
  <2>3. store[k].ino # 0
    BY <1>1, <1>3, <1>6 DEF CoreOK
  <2>4. PICK o \in Inode : o = store[k]
    BY <1>1, <1>3, <2>1
  <2>5. /\ core[d].mode = store[k].mode /\ core[d].ino = store[k].ino
        /\ core[d].block = store[k].block /\ core[d].size = r0 + 1 /\ r0 \in Nat
    BY <1>1, <1>7, <2>4 DEF Inode
  <2> QED
    BY <1>1, <1>3, <2>2, <2>3, <2>5
<1>10. \A l \in Slots : \A r :
         Rec(l, r)' = Rec(l, r) /\ (IsDir(l)' <=> IsDir(l))
  BY <1>1, <1>9 DEF Rec, IsDir
<1>11. IsDir(k)
  BY <1>1, <1>3, <1>9 DEF IsDir
<1>12. /\ proc[i].found # "samedir" /\ new.mode = Kind[p]
       /\ \A r \in Places : Entry(k, r) => Rec(k, r).name # p
       /\ \A l \in Slots : \A r \in Places : Entry(l, r) => Rec(l, r).ino # new.ino
       /\ r0 < DirCap /\ Rec(k, r0) = [name |-> p, ino |-> new.ino]
  BY <1>0, <1>1, <1>2, <1>3 DEF CreateOK, Added, Recorded
<1>13. PICK m \in Slots : m # 0 /\ m < sb.count /\ store[m] = new /\ new.ino = SlotNo(m)
  BY <1>0, <1>1, <1>2, <1>3 DEF CreateOK, Added
<1>14. r0 \in Places /\ new.ino # 0 /\ m # k
  <2>1. r0 \in Places
    BY <1>1, <1>9, <1>12 DEF Places
  <2>2. m # k
    BY <1>1, <1>2, <1>3, <1>13, CreatedApart DEF Added
  <2> QED
    BY <1>1, <1>13, <2>1, <2>2, SlotNoFacts
<1>15. /\ ~Entry(k, r0) /\ Entry(k, r0)' /\ Rec(k, r0)' = [name |-> p, ino |-> new.ino]
  <2>1. Rec(k, r0)' = [name |-> p, ino |-> new.ino]
    BY <1>1, <1>3, <1>10, <1>12
  <2>2. ~(r0 < store[k].size) /\ r0 < store'[k].size
    BY <1>1, <1>9
  <2> QED
    BY <1>1, <1>3, <1>10, <1>11, <1>14, <2>1, <2>2 DEF Entry
<1>16. \A l \in Slots : \A r \in Places : l # k \/ r # r0 =>
         /\ Entry(l, r)' <=> Entry(l, r)
         /\ Entry(l, r) => Rec(l, r)' = Rec(l, r)
  <2>1. ASSUME NEW r \in Places, r # r0 PROVE Entry(k, r)' <=> Entry(k, r)
    <3>1. r < store'[k].size <=> r < store[k].size
      BY <1>1, <1>9, <2>1 DEF Places
    <3> QED
      BY <1>1, <1>3, <1>10, <3>1 DEF Entry
  <2>2. ASSUME NEW l \in Slots \ {k}, NEW r \in Places PROVE Entry(l, r)' <=> Entry(l, r)
    BY <1>1, <1>9, <1>10 DEF Entry
  <2> QED
    BY <1>1, <1>10, <2>1, <2>2
<1>17. x = [name |-> p, ino |-> new.ino] /\ x.ino # 0
  BY <1>0, <1>1, <1>2, <1>14
<1>18. Gained(k, r0, x)
  BY <1>1, <1>3, <1>14, <1>15, <1>16, <1>17 DEF Gained
<1> QED
  BY <1>1, <1>9, <1>14, <1>17, <1>18

\* The directory that a create has made longer is saved, and so the record
\* counts; the new inode goes into core.
LEMMA GrowSaved ==
  ASSUME Ground, NamesInv, NobodyCreatesBeside, NEW i \in Procs,
         proc[i].op = "create", At(i, "save"), Return(i, "ok"),
         store' = [store EXCEPT ![SlotOf(Parent[proc[i].path])] = core[Parent[proc[i].path]]],
         core' = [core EXCEPT ![proc[i].path] = proc[i].new],
         UNCHANGED <<sb, dir>>
  PROVE  NamesInv'
<1>0. PICK p : p = proc[i].path
  OBVIOUS
<1> PICK d : d = Parent[p]
  OBVIOUS
<1>1. PICK k : k = SlotOf(d)
  OBVIOUS
<1>2. PICK new : new = proc[i].new
  OBVIOUS
<1>3. /\ p \in Paths \ {Root} /\ d \in Paths /\ core[p] = NoInode /\ core[p].mode = "none"
      /\ core[d].mode = "dir" /\ core[d] # NoInode /\ d # p /\ CoreOK(d)
      /\ k \in Slots /\ k < sb.count /\ CreateOK(proc[i])
  <2>1. /\ p \in Paths \ {Root} /\ d \in Paths /\ core[p] = NoInode /\ core[d].mode = "dir"
    BY <1>0, ParentIsDir, CallGround DEF CallOK
  <2>2. core[p].mode = "none" /\ d # p /\ core[d] # NoInode
    BY <2>1 DEF NoInode
  <2>3. CoreOK(d)
    BY <2>1, <2>2 DEF NamesInv, CoresOK
  <2>4. k \in Slots /\ k < sb.count
    BY <1>1, <2>3 DEF CoreOK
  <2> QED
    BY <2>1, <2>2, <2>3, <2>4 DEF NamesInv
<1>4. core'[p] = new /\ \A q \in Paths \ {p} : core'[q] = core[q]
  BY <1>0, <1>2, <1>3 DEF Ground, FsInv, TypeOK
<1>5. /\ proc'[i].pc = "idle" /\ proc'[i].op = "none"
      /\ \A j \in Procs \ {i} : proc'[j] = proc[j]
  BY CallGround DEF Return, Idle
<1>6. ~Going(d) /\ ~Resized(d) /\ core[d].ino # 0
  <2>1. ASSUME NEW j \in Procs PROVE ~Goes(proc[j], d) /\ ~Resizes(proc[j], d)
    BY <1>3, CallGround DEF Goes, Resizes, CallOK
  <2>2. ~Going(d) /\ ~Resized(d)
    BY <2>1 DEF Going, Resized
  <2> QED
    BY <1>3, <2>2 DEF CoreOK
<1>8. PICK r0 : r0 = store[k].size
  OBVIOUS
<1>14. PICK x : x = [name |-> p, ino |-> new.ino]
  OBVIOUS
<1>9. /\ store'[k] = core[d] /\ \A l \in Slots \ {k} : store'[l] = store[l]
      /\ store'[k].mode = store[k].mode /\ store'[k].ino = store[k].ino
      /\ r0 \in Places /\ new.ino # 0 /\ Gained(k, r0, x)
  <2>1. DirSaved(i, d, k, r0, x)
    BY <1>0, <1>1, <1>2, <1>8, <1>14 DEF DirSaved
  <2>2. /\ store'[k] = core[d] /\ \A l \in Slots \ {k} : store'[l] = store[l]
        /\ store'[k].mode = store[k].mode /\ store'[k].ino = store[k].ino
        /\ r0 \in Places /\ x.ino # 0 /\ Gained(k, r0, x)
    BY <2>1, GrowDoes
  <2> QED
    BY <1>14, <2>2
<1>12. /\ proc[i].found # "samedir" /\ new.mode = Kind[p]
       /\ \A r \in Places : Entry(k, r) => Rec(k, r).name # p
       /\ \A l \in Slots : \A r \in Places : Entry(l, r) => Rec(l, r).ino # new.ino
       /\ r0 < DirCap /\ Rec(k, r0) = [name |-> p, ino |-> new.ino]
  BY <1>0, <1>1, <1>2, <1>3, <1>8 DEF CreateOK, Added, Recorded
<1>13. PICK m \in Slots : m # 0 /\ m < sb.count /\ store[m] = new /\ new.ino = SlotNo(m)
  BY <1>0, <1>2, <1>3 DEF CreateOK, Added
<1>10. m # k
  BY <1>1, <1>2, <1>3, <1>13, CreatedApart DEF Added
<1>15. /\ ~Entry(k, r0) /\ Entry(k, r0)' /\ Rec(k, r0)' = [name |-> p, ino |-> new.ino]
  BY <1>9, <1>14 DEF Gained
<1>16. \A l \in Slots : \A r \in Places : l # k \/ r # r0 =>
         /\ Entry(l, r)' <=> Entry(l, r)
         /\ Entry(l, r) => Rec(l, r)' = Rec(l, r)
  BY <1>9 DEF Gained
<1>17. /\ RecordsDiffer' /\ HasEntry(k, p, new.ino)'
       /\ \A l \in Slots : \A name, y : HasEntry(l, name, y) => HasEntry(l, name, y)'
  <2>1. PICK n : n = new.ino
    OBVIOUS
  <2>2. RecordsDiffer
    BY DEF NamesInv
  <2>3. /\ RecordsDiffer' /\ HasEntry(k, p, n)'
        /\ \A l \in Slots : \A name, y : HasEntry(l, name, y) => HasEntry(l, name, y)'
    BY <1>3, <1>9, <1>12, <1>15, <1>16, <2>1, <2>2, NewEntry
  <2> QED
    BY <2>1, <2>3
<1>18. \A name, y : Resolved(name, y)' <=> Resolved(name, y)
  <2>1. \A l \in Slots : store'[l].ino = store[l].ino /\ store'[l].mode = store[l].mode
    BY <1>9
  <2> QED
    BY <2>1 DEF Resolved
<1>19. RecordsOK'
  <2>1. ASSUME NEW l \in Slots, NEW r \in Places, Entry(l, r)'
        PROVE  RecordOK(l, Rec(l, r).name, Rec(l, r).ino)'
    <3>1. CASE l = k /\ r = r0
      <4>1. Resolved(p, new.ino)
        BY <1>12, <1>13 DEF Resolved
      <4>2. PICK n : n = new.ino
        OBVIOUS
      <4>3. Resolved(p, n)' /\ Rec(l, r)'.name = p /\ Rec(l, r)'.ino = n
        BY <1>15, <1>18, <3>1, <4>1, <4>2
      <4> QED
        BY <1>3, <4>3 DEF RecordOK
    <3>2. CASE l # k \/ r # r0
      <4>1. PICK name : name = Rec(l, r).name
        OBVIOUS
      <4>2. PICK y : y = Rec(l, r).ino
        OBVIOUS
      <4>3. /\ Entry(l, r) /\ Rec(l, r)'.name = name /\ Rec(l, r)'.ino = y
        BY <1>16, <2>1, <3>2, <4>1, <4>2
      <4>4. name \in Paths
        BY <4>1, <4>3 DEF NamesInv, RecordsOK, RecordOK
      <4>5. Resolved(name, y)
        BY <4>1, <4>2, <4>3, NoDeadRecord DEF Adding
      <4> QED
        BY <1>18, <4>3, <4>4, <4>5 DEF RecordOK
    <3> QED
      BY <3>1, <3>2
  <2> QED
    BY <2>1 DEF RecordsOK
<1>20. SlotOf(d)' = k /\ core'[d] = core[d]
  BY <1>1, <1>3, <1>4 DEF SlotOf
<1>21. CoreOK(p)'
  <2>1. ~Grown(p)' /\ ~Resized(p)' /\ ~Going(p)'
    BY <1>3, <1>5, FreshCore
  <2>2. HasEntry(SlotOf(Parent[p]), p, SlotNo(m))'
    BY <1>13, <1>17, <1>20 DEF HasEntry
  <2>3. store'[m] = new /\ m < sb'.count
    BY <1>9, <1>10, <1>13
  <2>4. core'[Parent[p]].mode = "dir"
    BY <1>3, <1>20
  <2> QED
    BY <1>3, <1>4, <1>12, <1>13, <2>1, <2>2, <2>3, <2>4, FreshOK DEF Ground
<1>22. ASSUME NEW q \in Paths, q # p, core'[q] # NoInode PROVE CoreOK(q)'
  <2>1. core'[q] = core[q] /\ core[q] # NoInode
    BY <1>4, <1>22
  <2>2. CoreOK(q)
    BY <2>1 DEF NamesInv, CoresOK
  <2>3. q # Root => /\ Parent[q] \in Paths /\ core[Parent[q]].mode = "dir"
                    /\ core'[Parent[q]] = core[Parent[q]]
                    /\ SlotOf(Parent[q]) \in Slots
    <3>1. q # Root => Parent[q] \in Paths /\ core[Parent[q]].mode = "dir"
      BY <2>2 DEF CoreOK
    <3>2. q # Root => Parent[q] # p /\ core[Parent[q]] # NoInode
      BY <1>3, <3>1 DEF NoInode
    <3> QED
      BY <1>4, <3>1, <3>2 DEF NamesInv, CoresOK, CoreOK
  <2>4. SlotOf(q)' = SlotOf(q) /\ (q # Root => SlotOf(Parent[q])' = SlotOf(Parent[q]))
    BY <2>1, <2>3 DEF SlotOf
  <2>5. q # Root => HasEntry(SlotOf(Parent[q]), q, Number(core[q]))'
    <3>1. ASSUME q # Root
          PROVE  /\ HasEntry(SlotOf(Parent[q]), q, Number(core[q]))
                 /\ SlotOf(Parent[q]) \in Slots
                 /\ SlotOf(Parent[q])' = SlotOf(Parent[q])
                 /\ Number(core[q])' = Number(core[q])
      BY <2>1, <2>2, <2>3, <2>4, <3>1 DEF CoreOK
    <3>2. PICK s, y : s = SlotOf(Parent[q]) /\ y = Number(core[q])
      OBVIOUS
    <3>3. q # Root => HasEntry(s, q, y)'
      BY <1>17, <3>1, <3>2
    <3> QED
      BY <3>1, <3>2, <3>3 DEF HasEntry
  <2>6. /\ Resizes(proc[i], q) <=> Resizes(proc[i], q)'
        /\ Goes(proc[i], q) <=> Goes(proc[i], q)'
        /\ q # d => (Grows(proc[i], q) <=> Grows(proc[i], q)')
    BY <1>0, <1>5 DEF Grows, Resizes, Goes
  <2>7. /\ Resized(q)' <=> Resized(q)
        /\ Going(q)' <=> Going(q)
        /\ q # d => (Grown(q)' <=> Grown(q))
    BY <1>5, <2>6, CallsOf
  <2>8. CASE q = d
    <3>1. ~Grown(d)'
      <4>1. ASSUME NEW j \in Procs, Grows(proc'[j], d) PROVE FALSE
        <5>1. j # i /\ proc[j].op = "create" /\ Parent[proc[j].path] = d
          BY <1>5, <4>1 DEF Grows
        <5> QED
          BY <1>0, <5>1 DEF Ground, FsInv, CallsInv, CallsApart
      <4> QED
        BY <4>1 DEF Grown, Grows
    <3> QED
      BY <1>1, <1>3, <1>6, <1>9, <2>1, <2>2, <2>3, <2>4, <2>5, <2>7, <2>8, <3>1 DEF CoreOK
  <2>9. CASE q # d
    <3>1. SlotOf(q) # k
      BY <1>1, <1>3, <2>1, <2>9, CoresDiffer
    <3>2. store'[SlotOf(q)] = store[SlotOf(q)]
      BY <1>9, <2>2, <3>1 DEF CoreOK
    <3> QED
      BY <2>1, <2>2, <2>3, <2>4, <2>5, <2>7, <2>9, <3>2 DEF CoreOK
  <2> QED
    BY <2>8, <2>9
<1>23. CoresOK'
  BY <1>21, <1>22 DEF CoresOK
<1>24. ASSUME NEW j \in Procs PROVE CreateOK(proc[j])' /\ UnlinkOK(proc[j])'
  <2>1. UnlinkOK(proc[j])'
    <3>1. proc'[j].op # "unlink"
      BY <1>5, OneChanger DEF Ground
    <3> QED
      BY <3>1 DEF UnlinkOK
  <2>2. CASE proc'[j].op # "create"
    BY <2>1, <2>2 DEF CreateOK
  <2>3. CASE proc'[j].op = "create"
    <3>1. j # i /\ proc'[j] = proc[j] /\ proc[j].op = "create"
      BY <1>5, <2>3
    <3>2. proc[j].pc = "lock_dir" /\ proc[j].found = "none"
      BY <3>1, OneChanger, CallGround DEF Ground
    <3>3. PICK l : l = SlotOf(Parent[proc[j].path])
      OBVIOUS
    <3>4. l = SlotOf(Parent[proc[j].path])' /\ l \in Slots
      <4>1. core'[Parent[proc[j].path]] = core[Parent[proc[j].path]]
        BY <1>3, <1>4, <3>1, ParentIsDir
      <4>2. SlotOf(Parent[proc[j].path])' = SlotOf(Parent[proc[j].path])
        BY <3>1, <4>1 DEF SlotOf
      <4> QED
        BY <3>1, <3>2, <3>3, <4>2, DirSeen
    <3>5. proc[j].path # p
      BY <1>0, <3>1 DEF Ground, FsInv, CallsInv, CallsApart
    <3>6. \A r \in Places : Entry(l, r) => Rec(l, r).name # proc[j].path
      BY <3>1, <3>2, <3>3 DEF NamesInv, CreateOK
    <3>7. \A r \in Places : Entry(l, r)' => Rec(l, r)'.name # proc[j].path
      <4>1. ASSUME NEW r \in Places, Entry(l, r)', l = k, r = r0
            PROVE  Rec(l, r)'.name # proc[j].path
        BY <1>15, <3>5, <4>1
      <4>2. ASSUME NEW r \in Places, Entry(l, r)', l # k \/ r # r0
            PROVE  Rec(l, r)'.name # proc[j].path
        BY <1>16, <3>4, <3>6, <4>2
      <4> QED
        BY <4>1, <4>2
    <3> QED
      BY <2>1, <3>1, <3>2, <3>4, <3>7 DEF CreateOK, Adding, Added, Recorded
  <2> QED
    BY <2>2, <2>3
<1> QED
  BY <1>17, <1>19, <1>23, <1>24 DEF NamesInv

\* inode_save: of a directory that grew, a file that was written, or a dead
\* one.
LEMMA SaveDoes ==
  ASSUME Ground, NamesInv, NobodyCreatesBeside, NEW i \in Procs, Save(i)
  PROVE  LET p == proc[i].path  d == Parent[p] IN
         /\ UNCHANGED <<sb, dir>>
         /\ \/ /\ proc[i].op = "create" /\ proc[i].pc = "save" /\ Return(i, "ok")
               /\ store' = [store EXCEPT ![SlotOf(d)] = core[d]]
               /\ core' = [core EXCEPT ![p] = proc[i].new]
            \/ /\ proc[i].op = "write" /\ proc[i].pc = "save" /\ Return(i, "ok")
               /\ \E c : FileSaved(i, c, core[p]) /\ c.op = "none" /\ c.pc = "idle"
            \/ /\ proc[i].op = "unlink"
               /\ \E c, s :
                    /\ FileSaved(i, c, s) /\ s.ino = 0
                    /\ c.op = "unlink" /\ c.path = p /\ c.ret = proc[i].ret
                    /\ \/ proc[i].pc = "save" /\ c.pc = "save_rest" /\ c.slot = SlotOf(p)
                       \/ proc[i].pc = "save_rest" /\ c.pc = "forget"
<1>0. PICK p : p = proc[i].path
  OBVIOUS
<1>1. PICK o : o = IF proc[i].op = "create" THEN Parent[p] ELSE p
  OBVIOUS
<1>2. PICK k : k = SlotOf(o)
  OBVIOUS
<1> DEFINE n == IF core[o].ino = 0 THEN core[o].dead ELSE core[o].ino
           slots == {l \in Slots : l <= sb.count /\ store[l].ino = n}
<1>3. /\ proc[i].pc \in {"save", "save_rest"} /\ proc[i].op \in {"create", "write", "unlink"}
      /\ proc[i].pc = "save_rest" => proc[i].op = "unlink"
      /\ UNCHANGED <<sb, dir>> /\ p \in Paths /\ proc[i] \in Call
  BY <1>0, CallGround, CallFacts DEF Save, CallOK
<1>4. o \in Paths /\ core[o] # NoInode /\ core[o] \in Inode /\ CoreOK(o)
  <2>1. CASE proc[i].op = "create"
    <3>1. o \in Paths /\ core[o].mode = "dir"
      BY <1>0, <1>1, <2>1, ParentIsDir
    <3> QED
      BY <3>1 DEF NoInode, NamesInv, CoresOK, Ground, FsInv, TypeOK
  <2>2. CASE proc[i].op # "create"
    <3>1. o = p /\ core[o].mode = "file"
      BY <1>0, <1>1, <1>3, <2>2, CallGround DEF CallOK
    <3> QED
      BY <1>3, <3>1 DEF NoInode, NamesInv, CoresOK, Ground, FsInv, TypeOK
  <2> QED
    BY <2>1, <2>2
<1>5. n = Number(core[o]) /\ k \in Slots /\ store[k].mode = core[o].mode
  BY <1>2, <1>4 DEF Number, CoreOK
<1>6. store[k].ino # 0 => slots # {} /\ Min(slots) = k
  BY <1>2, <1>4, <1>5, SlotFound
<1>7. proc[i].op # "unlink" => core[o].ino # 0 /\ store[k].ino # 0
  <2>1. ASSUME proc[i].op # "unlink", NEW j \in Procs, Goes(proc[j], o) PROVE FALSE
    <3>1. proc[j].op = "unlink" /\ proc[j].path = o /\ core[o].mode = "file" /\ j # i
      BY <2>1, CallGround DEF Goes, CallOK
    <3>2. proc[i].op # "create"
      BY <3>1, OneChanger DEF Ground
    <3>3. o = proc[i].path /\ proc[i].op # "none"
      BY <1>0, <1>1, <1>3, <3>2
    <3> QED
      BY <3>1, <3>3 DEF Ground, FsInv, CallsInv, CallsApart
  <2>2. proc[i].op # "unlink" => ~Going(o)
    BY <2>1 DEF Going
  <2> QED
    BY <1>2, <1>4, <2>2 DEF CoreOK
<1>8. proc[i].op = "unlink" =>
        /\ o = p /\ core[p].ino = 0 /\ core[p].mode = "file"
        /\ proc[i].pc = "save" <=> store[k].ino # 0
        /\ proc[i].pc = "save_rest" => proc[i].slot = k
  <2>1. UnlinkOK(proc[i])
    BY DEF NamesInv
  <2> QED
    BY <1>0, <1>1, <1>2, <1>3, <2>1, CallGround DEF UnlinkOK, CallOK
<1>13. o = IF proc[i].op = "create" THEN Parent[proc[i].path] ELSE proc[i].path
  BY <1>0, <1>1
<1>14. \/ proc[i].pc = "save" /\ slots = {}
       \/ proc[i].pc = "save" /\ slots # {} /\ core[o].ino # 0
       \/ /\ proc[i].pc = "save" /\ slots # {} /\ core[o].ino = 0
          /\ store' = [store EXCEPT ![Min(slots)].ino = 0]
          /\ proc' = [proc EXCEPT ![i].pc = "save_rest", ![i].slot = Min(slots)]
          /\ UNCHANGED <<dstore, core, lock, sig>>
       \/ proc[i].pc = "save_rest"
  BY <1>13, Zenon DEF Save, n, slots
<1>15. proc[i].pc = "save" /\ slots # {} /\ core[o].ino = 0
       => /\ store' = [store EXCEPT ![Min(slots)].ino = 0]
          /\ proc' = [proc EXCEPT ![i].pc = "save_rest", ![i].slot = Min(slots)]
          /\ core' = core
  <2> HIDE DEF slots
  <2> QED
    BY <1>14
<1> HIDE DEF n, slots
<1>9. ASSUME proc[i].op # "unlink"
      PROVE  /\ store' = [store EXCEPT ![k] = core[o]] /\ Return(i, "ok")
             /\ core' = IF proc[i].op = "create"
                        THEN [core EXCEPT ![p] = proc[i].new] ELSE core
  <2>1. proc[i].pc = "save" /\ slots # {} /\ Min(slots) = k /\ core[o].ino # 0
    BY <1>3, <1>6, <1>7, <1>9
  <2>2. store' = [store EXCEPT ![Min(slots)] = core[o]] /\ Saved(i, {"sb"}, "ok")
    BY <1>0, <1>1, <2>1 DEF Save, n, slots
  <2> QED
    BY <1>0, <1>9, <2>1, <2>2 DEF Saved
<1>10. CASE proc[i].op = "create"
  <2>1. Return(i, "ok") /\ core' = [core EXCEPT ![p] = proc[i].new]
        /\ store' = [store EXCEPT ![k] = core[o]] /\ proc[i].pc = "save"
        /\ o = Parent[p]
    BY <1>1, <1>3, <1>9, <1>10
  <2> QED
    BY <1>0, <1>2, <1>3, <1>10, <2>1
<1>11. CASE proc[i].op = "write"
  <2>1. o = p /\ proc[i].pc = "save" /\ core[p].mode = "file"
    BY <1>0, <1>1, <1>3, <1>11, CallGround DEF CallOK
  <2>2. PICK c : c = [Idle EXCEPT !.ret = "ok"]
    OBVIOUS
  <2>3. c.op = "none" /\ c.pc = "idle" /\ proc' = [proc EXCEPT ![i] = c]
    BY <1>9, <1>11, <2>2 DEF Return, Idle
  <2>4. store' = [store EXCEPT ![k] = core[p]] /\ core' = core
    BY <1>9, <1>11, <2>1
  <2>5. FileSaved(i, c, core[p])
    BY <1>0, <1>2, <1>3, <1>5, <1>7, <1>11, <2>1, <2>3, <2>4 DEF FileSaved
  <2> QED
    BY <1>0, <1>3, <1>9, <1>11, <2>1, <2>3, <2>5
<1>12. CASE proc[i].op = "unlink"
  <2>1. /\ o = p /\ core[p].ino = 0 /\ core[p].mode = "file" /\ store[k].mode = "file"
        /\ \A j \in Procs : proc[j].op # "create"
    BY <1>5, <1>8, <1>12, OneChanger DEF Ground
  <2>2. CASE proc[i].pc = "save"
    <3>1. slots # {} /\ Min(slots) = k
      BY <1>6, <1>8, <1>12, <2>2
    <3>2. /\ store' = [store EXCEPT ![Min(slots)].ino = 0]
          /\ proc' = [proc EXCEPT ![i].pc = "save_rest", ![i].slot = Min(slots)]
          /\ core' = core
      BY <1>15, <2>1, <2>2, <3>1
    <3>3. PICK c : c = [proc[i] EXCEPT !.pc = "save_rest", !.slot = k]
      OBVIOUS
    <3>4. PICK s : s = [store[k] EXCEPT !.ino = 0]
      OBVIOUS
    <3>5. /\ c.op = "unlink" /\ c.path = p /\ c.pc = "save_rest" /\ c.slot = k
          /\ c.ret = proc[i].ret
          /\ proc' = [proc EXCEPT ![i] = c]
      BY <1>0, <1>3, <1>12, <3>1, <3>2, <3>3, CallGround DEF Call
    <3>6. s.ino = 0 /\ s.mode = "file" /\ store' = [store EXCEPT ![k] = s]
      <4>1. store[k] \in Inode
        BY <1>5 DEF Ground, FsInv, TypeOK
      <4> QED
        BY <2>1, <3>1, <3>2, <3>4, <4>1 DEF Inode
    <3>7. FileSaved(i, c, s)
      BY <1>0, <1>2, <1>3, <1>12, <2>1, <3>2, <3>5, <3>6 DEF FileSaved
    <3> QED
      BY <1>0, <1>2, <1>3, <1>12, <2>1, <2>2, <3>5, <3>6, <3>7
  <2>3. CASE proc[i].pc = "save_rest"
    <3>1. /\ store' = [store EXCEPT ![k] = core[p]] /\ core' = core /\ Go(i, "forget")
      <4>1. store' = [store EXCEPT ![proc[i].slot] = core[p]] /\ Saved(i, {"sb"}, "ok")
        BY <1>0, <1>12, <2>3 DEF Save
      <4> QED
        BY <1>8, <1>12, <2>3, <4>1 DEF Saved
    <3>2. PICK c : c = [proc[i] EXCEPT !.pc = "forget"]
      OBVIOUS
    <3>3. /\ c.op = "unlink" /\ c.path = p /\ c.pc = "forget" /\ c.ret = proc[i].ret
          /\ proc' = [proc EXCEPT ![i] = c]
      BY <1>0, <1>3, <1>12, <3>1, <3>2, CallGround DEF Call
    <3>4. FileSaved(i, c, core[p])
      BY <1>0, <1>2, <1>3, <1>12, <2>1, <3>1, <3>3 DEF FileSaved
    <3> QED
      BY <1>0, <1>3, <1>12, <2>1, <2>3, <3>3, <3>4
  <2> QED
    BY <1>3, <2>2, <2>3
<1> QED
  BY <1>3, <1>10, <1>11, <1>12

LEMMA SaveNames ==
  ASSUME Ground, NamesInv, NobodyCreatesBeside, NEW i \in Procs, Save(i)
  PROVE  NamesInv'
<1>1. PICK p : p = proc[i].path
  OBVIOUS
<1>2. CASE /\ proc[i].op = "create" /\ proc[i].pc = "save" /\ Return(i, "ok")
           /\ store' = [store EXCEPT ![SlotOf(Parent[p])] = core[Parent[p]]]
           /\ core' = [core EXCEPT ![p] = proc[i].new]
           /\ UNCHANGED <<sb, dir>>
  BY <1>1, <1>2, GrowSaved
<1>3. ASSUME proc[i].op = "write", proc[i].pc = "save", NEW c,
             FileSaved(i, c, core[p]), c.op = "none", c.pc = "idle"
      PROVE  NamesInv'
  BY <1>1, <1>3, WriteSaved
<1>4. ASSUME proc[i].op = "unlink", NEW c, NEW s, FileSaved(i, c, s), s.ino = 0,
             c.op = "unlink", c.path = p,
             \/ proc[i].pc = "save" /\ c.pc = "save_rest" /\ c.slot = SlotOf(p)
             \/ proc[i].pc = "save_rest" /\ c.pc = "forget"
      PROVE  NamesInv'
  BY <1>1, <1>4, UnlinkSaved
<1> QED
  BY <1>1, <1>2, <1>3, <1>4, SaveDoes

\* Every step keeps the names, but for a crash; signals there are none.
LEMMA NextNames ==
  ASSUME Signalled = {}, NobodyCreatesBeside, Ground, NamesInv, [Next]_vars,
         crashes' = 0
  PROVE  NamesInv'
<1>1. ASSUME NEW i \in Procs, Step(i) PROVE NamesInv'
  <2>1. ~Interrupted(i)
    BY DEF Interrupted, Ground, OwnInv
  <2> QED
    BY <1>1, <2>1, AcquireNames, CountNames, SearchNames, TakeBlockNames, AddNames,
       RecordNames, ChildrenNames, SaveNames, ForgetNames, ResizeNames DEF Step
<1>2. ASSUME NEW i \in Procs, NEW p \in Paths, Create(i, p) \/ Unlink(i, p) \/ Write(i, p)
      PROVE  NamesInv'
  BY <1>2, EnterNames, UnlinkNames
<1>3. ASSUME NEW p \in Paths, Lookup(p) \/ Evict(p) PROVE NamesInv'
  BY <1>3, LookupNames, EvictNames
<1>4. ASSUME NEW i \in Procs, Signal(i) PROVE NamesInv'
  BY <1>4 DEF Signal
<1>5. CASE CrashAndMount
  BY <1>5, StillUp DEF Ground
<1>6. CASE Writeback \/ UNCHANGED vars
  <2>1. UNCHANGED <<sb, store, dir, core, proc>> /\ sb'.count = sb.count
    BY <1>6 DEF Writeback, vars
  <2>2. ASSUME NEW j \in Procs
        PROVE  /\ CreateOK(proc[j])' /\ UnlinkOK(proc[j])'
               /\ \A k, name, n : Pends(proc[j], k, name, n) => Pends(proc[j], k, name, n)'
    BY <2>1, OtherCalls, ParentIsDir
  <2>3. RecordsOK' /\ RecordsDiffer'
    BY <2>1, <2>2, CoreRecords
  <2>4. ASSUME NEW q \in Paths, core'[q] # NoInode PROVE CoreOK(q)'
    <3>1. (Grown(q)' <=> Grown(q)) /\ (Resized(q)' <=> Resized(q)) /\ (Going(q)' <=> Going(q))
      BY <2>1 DEF Grown, Grows, Resized, Resizes, Going, Goes
    <3> QED
      BY <2>1, <2>4, <3>1, OtherCore
  <2> QED
    BY <2>2, <2>3, <2>4 DEF NamesInv, CoresOK
<1> QED
  BY <1>1, <1>2, <1>3, <1>4, <1>5, <1>6 DEF Next

\* What the names rest on is kept.
NamesGround == Ground /\ NamesInv

\* NamesInv is inductive on top of TypeOK, CallsInv, Owned and Allocated.
LEMMA NamesInductive ==
  ASSUME Signalled = {}, NobodyCreatesBeside
  PROVE  Spec => [](crashes = 0 => NamesGround)
<1>1. Init => OwnInv /\ Allocated /\ NamesInv
  <2>1. HeldBy(Idle) = {}
    BY DEF HeldBy, Idle
  <2>2. Init => OwnInv
    BY <2>1 DEF Init, OwnInv, Owned, Holds
  <2> QED
    BY <2>2, AllocInit, InitNames
<1>2. FsInv /\ FsInv' /\ (crashes = 0 => OwnInv /\ Allocated /\ NamesInv) /\ [Next]_vars
        => (crashes = 0 => OwnInv /\ Allocated /\ NamesInv)'
  <2> SUFFICES ASSUME FsInv, FsInv', crashes = 0 => OwnInv /\ Allocated /\ NamesInv,
                      [Next]_vars, crashes' = 0
               PROVE  OwnInv' /\ Allocated' /\ NamesInv'
    OBVIOUS
  <2>1. OwnInv /\ Allocated /\ NamesInv
    BY StillUp
  <2>2. Ground
    BY <2>1, StoreFacts DEF Ground
  <2> QED
    BY <2>1, <2>2, OwnedNext, NextAlloc, NextNames
<1>3. FsInv /\ OwnInv /\ Allocated /\ NamesInv => NamesGround
  BY StoreFacts DEF Ground, NamesGround
<1> QED
  BY <1>1, <1>2, <1>3, Inductive, PTL DEF Spec

\* NamesSound: whenever a directory is not being changed, each name that lookup
\* can match is that of an inode in use, of the kind the name was created
\* with, and no inode has two names; without signals, up to the first crash,
\* when whoever unlinks is the only one who creates.
THEOREM NamesAreSound ==
  ASSUME Signalled = {}, NobodyCreatesBeside
  PROVE  Spec => [](crashes = 0 => NamesSound)
<1>1. NamesGround => NamesSound
  BY SoundNames DEF NamesGround
<1> QED
  BY <1>1, NamesInductive, PTL

\* Coherent: what an idle file or directory has in core is what its slot of the
\* inode store and the one record of its directory say, so that an eviction
\* loses nothing; under the same assumptions.
THEOREM CoreIsCoherent ==
  ASSUME Signalled = {}, NobodyCreatesBeside
  PROVE  Spec => [](crashes = 0 => Coherent)
<1>1. NamesGround => Coherent
  BY CoresAreCoherent DEF NamesGround
<1> QED
  BY <1>1, NamesInductive, PTL
=============================================================================
