# A TLA+ verification project for kernel_linux

The repository is a collection of Linux kernel modules and small programs, most of them
exercises, together with a copy of udev-113 that the chapter on device nodes works with.
This directory holds TLA+ models of the parts that have concurrent or persistent logic of
their own, TLC configurations that check them on small instances, and TLAPS proofs of their
most important properties for every instance.

Modelled are the **globalfifo** driver (chapter 12 of Song's book), the **simplefs** file
system, **globalmem** (chapter 7), and of **udev** the daemon, `udevsettle`, what the event
processes do to `/dev`, how they rename network interfaces, and how they run through the
rules.

## 1. Inventory

Paths are below `src/`.  For each component: its state, its operations, how it interacts
with the rest, what is hard about it, and what makes it correct.

### globalfifo, `song/kernel/drivers/globalfifo/ch12`  (modelled)

- *State*: a buffer `mem` with `current_len` bytes in it, a mutex, the wait queues `r_wait`
  and `w_wait`, the `fasync` list.
- *Operations*: probe, remove, open, release, read, write, poll, the ioctl `FIFO_CLEAR`,
  fasync.
- *Interaction*: processes meet only through the device: the mutex, the two queues, the
  `state` of each sleeping task, `SIGIO`.
- *Hard*: the wait loops set the task's state, drop the mutex, sleep, look for a signal and
  take the mutex again, so that a wakeup may come at any point in between; three exits
  (`out`, `out2`, the straight path) of which one must not unlock; a queue entry on the
  stack; poll registers on both queues; `copy_*_user` may fail half way.
- *Correct*: no lost wakeup; the mutex is held exactly between the locks; no entry outlives
  its call; bytes come out once, in order.

`ch8` and `ch9` are earlier stages of the same driver (no `SIGIO`, no platform device).
What differs is the order of initialisation and registration.  (not modelled)

### simplefs, `io/fs/simplefs`  (name space and allocation modelled)

- *State*: on disk a super block (object count, map of free blocks), an inode store block,
  one block of records per directory; in memory the buffer cache of these blocks, a
  `simplefs_inode` per dentry, three global mutexes.
- *Operations*: create, mkdir, unlink, lookup, read, write, readdir, mount; `mkfs-simplefs`
  writes the first image.
- *Interaction*: the VFS serialises the operations in one directory by its `i_mutex`, but
  not those in different directories; write-back may write the inode store at any time; the
  machine may stop at any time.
- *Hard*: unlink leaves a "dead" inode (number 0, its old number kept aside, its block
  still allocated) that a later create takes over, and searches for without a lock; the
  object count, the inode store, the directory's child count (in core and in the store), the
  records and the free map are five pieces of state changed at different steps; every lock is
  interruptible and its failure has an exit of its own, some of which are wrong; the blocks
  reach the disk in an order.
- *Correct*: a block and an inode number belong to one object; every name is that of one
  inode; in-core and stored inodes agree; a name on disk has its inode on disk; a file made
  is found after a crash; every call returns and has all of its effect or none.

### udevd and udevsettle, `.../c3/udev/udev-113`  (modelled)

- *State*: `exec_list` (events that wait) and `running_list` (events with a process), the flags
  `run_exec_q`, `stop_exec_q`, `sigchilds_waiting`, the signal pipe, two limits; on disk one
  file per device with unfinished events, one per failed device, and the last number received.
- *Operations*: the loop around `select()`: control messages, the kernel's events, the pipe,
  `reap_sigchilds`, `msg_queue_manager`; the handler of `SIGCHLD`; `udevsettle`'s polling.
- *Interaction*: the kernel sends numbered events; udevd forks a child per event; the children
  end at any moment; other programs read the files.
- *Hard*: a signal between any two steps against two flags that are tested and cleared in
  different places; events that must not overtake those they depend on, along the tree of
  devices; a queue that is looked at only when somebody set a flag; one file for all events of a
  device; three reads of `udevsettle` at three moments.
- *Correct*: an event does not run beside an older one it has to wait for, nor before it; every child
  is noticed; every event ends; the files show exactly what is unfinished.

### the event processes of udev  (modelled, with the limits of section 7)

- *Nodes, links, database* (`udev_node.c`, `udev_db.c`, `udev_device.c`): files in `/dev`, an entry per
  device, an index from each name to the devices that claim it.  Processes of different devices
  race on the files of a name they both claim; priorities decide who has it.
- *Network interfaces* (`rename_netif`): interfaces that exchange names wait for each other.
  *Correct*: not in a circle.
- *Rules* (`udev_rules_parse.c`, `udev_rules.c`): tokens become rules, a run through them collects
  name, links, permissions, programs, environment.  *Hard*: four kinds of assignment, "final" ones,
  rules that are dropped because an earlier one has set the name, `GOTO`, lists whose keys are
  compared by prefix.  *Correct*: the result is what the rules that applied say, as a whole.

### globalmem, `song/kernel/drivers/globalmem/ch7`  (modelled)

- *State*: a memory, a mutex, the position of a shared open file.
- *Hard*: faults in the middle of a copy; the position is read, clipped and moved outside of the
  mutex; offsets are cut to 32 bits.
- *Correct*: calls are atomic; no copy leaves the memory.

### The other components (not modelled)

| component | state and operations | what is hard | what makes it correct |
|---|---|---|---|
| globalmem `ch6`, multi | ch7 without its mutex, and several devices of it | reads see half a write | - |
| vmem_disk, SimpleLinuxRamDisk, blocktest | a memory disk; a request or bio loop | segments, requests past the end, teardown order | every accepted request is completed once, with the bytes of its sectors |
| second | a timer that rearms itself; open, release, read | `del_timer` against a running handler | no tick after release |
| adc, buttons, brock, poll/fasync drivers | flags, a wait queue, an interrupt | unlocked flags, ignored results of interrupted waits | an event is reported once, the semaphore is given back |
| ring buffer, command list, red-black tree | index and pointer structures, one thread | boundary arithmetic | first in, first out; search finds what was inserted |
| notifier chains | the kernel's chains, called in priority order | registration order | call order is by priority |
| thread timer | threads made from a signal handler | never joined | - |

The rest keeps no state of its own or none that properties are about: the user programs
that test globalfifo, `/proc` formatting, calls that register with the driver core
(bus, kobject, platform), register and I2C drivers, exercises that print kernel data
structures or take one lock, packet sniffers, udev's tools that send or print one message
and its probes in `extras/`.  Code copied from the Linux Test Project (`tbase.c`, `xcbase.c`)
and the kernel's `list.h` is left aside.  `PROJECT.json` lists every component with its
files, and under "hazards" the lines at which the modelled code is hard to test.  Those of
the code that is not modelled, with those of modelled files that no model reaches, are in
section 7.

## 2. globalfifo

| module | what it is |
|---|---|
| `GlobalFifo` | the driver, one action per step at which it touches shared state |
| `ByteQueue` | what it promises: a queue of bytes with calls that take effect at once |
| `GlobalFifoProps` | the properties, the inductive invariant, the refinement mapping |
| `GlobalFifo_proofs` | the proofs |
| `MCGlobalFifo` | the instances that TLC checks |

**Correspondence.**  Each process has at most one open file and one system call under way,
`call[p]`; `pc[p]` names the next step of it.  A read is `Lock`, `Enqueue`
(`add_wait_queue`), then the loop `PrepareSleep` (state set, mutex held), `UnlockSleep`,
`Schedule`, `Interrupted` or `Retry`, `Relock`; then `ReadCopy` (copy_to_user, which may
fault), `ReadShift` (the memcpy to the front and `current_len -= count`), `Wake`, `Unlock`,
`Dequeue`, `Return`.  Writes differ in `WriteCopy`, `WriteCommit` and `Sigio`.  poll is
`Enqueue` on both queues, `Scan`, `Unlock`, `PollDecide` and the sleep of `do_poll`, for which
`state = "INTERRUPTIBLE"` stands for `pwq->triggered = 0`.  Partial transfers are modelled:
read and write move the lesser of the count and what is there.

**External**, modelled as the driver uses it: a mutex with no order among its waiters;
`wake_up_interruptible`, which makes every task on a queue runnable; `schedule()`, which
comes back to a task that is runnable or has a signal.

`Remove` may come at any moment: an open file keeps `globalfifo` from being unloaded, but neither
`rmmod globalfifo-dev` (`globalfifo-dev.c:33-36`) nor an unbind through sysfs.  Without open files the
device can be probed again.  With one the memory of the device is freed under it, and what
follows has no outcome a model could state: `gone` is set, and the behaviour ends there (`Ended`).

**Abstract specification.**  `ByteQueue` has no mutex, no buffer and no wait queue: a read
takes a prefix of the queue, a write appends a prefix of its data, each at one instant
between call and return; a call may fail without effect (fault, signal, `O_NONBLOCK`).  The
mapping `Contents` reads the first `current_len` bytes of `mem`; a read or write has its effect
when it changes `current_len`, and until then its result counts as not given (`Effective`).

**Runs.**

| run | shows | instance |
|---|---|---|
| `fifo_two` | the inductive invariant `IInv` with the types, `NoStaleWaiter`, and that the driver implements `ByteQueue` | reader (also poll, bad ioctl) and writer (also `FIFO_CLEAR`), buffer of 2, reads of 0 to 2, writes of 1 to 3 bytes, signals to the reader, `SIGIO`, removal; 1,645,150 states |
| `fifo_three` | mutual exclusion, no lost wakeup of readers or writers, every sleeper queued; no deadlock | two readers, one that also polls, a writer, buffer of 1, no `FIFO_CLEAR`; 2,516,802 states |
| `fifo_live` | a sleeper over data (over room) wakes or the data (room) is gone; non-blocking and signalled calls return | reader and writer, fair; 45,884 states |

*Why these bounds.*  A buffer of two with transfers of up to three bytes has every case of
the clipping and of the shift: empty, part, full, and a request larger than what is
there.  Two values beside the zero byte tell order and repetition apart.  A lost wakeup
needs a sleeper, one to wake it, and a third to take the byte first: the three processes of
`fifo_three`.

*FIFO_CLEAR* empties the FIFO and wakes nobody (`globalfifo.c:63`), so a blocked writer sleeps
on over an empty FIFO.  Nothing in the repository promises otherwise, so this is a listed
hazard and not a finding; `NoLostWriteWakeup` is checked where nobody issues that ioctl.

*Fairness.*  `WF(Run(p))`: the scheduler runs every runnable task.  `SF(Acquire(p))`: the
kernel's mutex queues its waiters, so that it does not pass one over for ever while it is
free again and again.  No fairness on calls, signals, opening or probing: nothing obliges
anybody to make them.

**Proofs** (`GlobalFifo_proofs`), for all sets of processes, buffer sizes and byte types,
from the four named assumptions of `GlobalFifo`.  `Inductive` proves `IInv`, the conjunction of

- `TypeOK` and `MutexHeldInCritical`;
- `LabelInv`: which operation may be at which label;
- `QueueInv`: a process is on exactly the queues of its operation, between `Enqueue` and
  `Dequeue`; `StateInv`, `FileInv`, `RetInv`: what the task state, the open file and the result may
  be at each label;
- `CopyInv`: between the copy and the change of `current_len`, what was copied is still what
  `mem` and the count say; without it `current_len` could leave the buffer, so `TypeOK` needs
  it, and it needs mutual exclusion;
- `NoLostReadWakeup`: inductive once the queue membership of sleepers is known.

`ControlStep`, `TypeStep`, `CopyStep` and `WakeupStep` prove that each part is kept, one step
per action.  From `IInv` follow `TypeCorrect`, `MutualExclusion`, `ReadersAreWoken`,
`SleepersAreQueued` and `ReturnsClean`.

`WritersAreWoken` is `NoLostWriteWakeup` where nobody issues `FIFO_CLEAR` (`NobodyClears`); with
that ioctl it is false, as said above.  `DriverIsByteQueue` is the refinement: each action of
the driver is one action of `ByteQueue` or a stutter.  It needs `CallInv` (outside of a system
call nothing is in progress, a non-blocking call never sleeps) and lemmas on what the copy and
the shift of `mem` do to `Contents`.  Only liveness stays model-checked.

## 3. simplefs

| module | what it is |
|---|---|
| `SimpleFs` | create, mkdir, unlink, lookup, the size update of write, eviction, write-back, crash and mount |
| `NameSpace` | what it promises: a tree of names changed by atomic calls |
| `SimpleFsProps` | the properties and the refinement mapping |
| `SimpleFs_proofs`, `SimpleFsNames_proofs` | the proofs |
| `MCSimpleFs` | the instances that TLC checks |

**Correspondence.**

| in the model | in the code |
|---|---|
| `sb` | the super block buffer (`inodes_count`, `free_blocks`), written through by `simplefs_sb_sync`, so one copy |
| `store`, `dstore` | the inode store block in the buffer cache and on disk |
| `dir`, `ddir` | the directory blocks, the same |
| `core[p]` | the `simplefs_inode` behind the dentry of path `p`; `NoInode` when there is no dentry, or a negative one |
| `lock` | `simplefs_directory_children_update_lock` ("dir"), `simplefs_inodes_mgmt_lock` ("ino"), `simplefs_sb_lock` ("sb") |
| `Create .. Count .. Search .. TakeBlock .. Add .. Record .. Children .. Save` | `simplefs_create_fs_object` and, in it, `simplefs_sb_get_objects_count`, `get_dead_inode_no` with the search for an empty record, `simplefs_sb_get_a_freeblock`, `simplefs_inode_add`, the record and its sync, the child count, `simplefs_inode_save` |
| `Unlink, Save, Forget` | `simplefs_unlink` |
| `Write, Resize, Save` | what `simplefs_write` does to inodes |
| `Lookup`, `Evict` | `simplefs_lookup`; the dentry and inode cache (external) |
| `Acquire`, `Interrupted` | every `mutex_lock_interruptible`, and each of its failure exits |
| `CrashAndMount` | a power failure, then `simplefs_fill_super` |

A step ends at every mutex and at every unlocked access to a block that another process may
be changing; within a mutex the code is one action, but for the copy of a dead inode into
its slot, which `get_dead_inode_no` can see half done (`Save`, two steps).  `Interrupted` has
the exits as the code has them: `inode_add` returns void and create goes on; its second exit
keeps the first mutex; `get_a_freeblock` unlocks the mutex it did not get.

**External.**  The VFS: it holds the `i_mutex` of the directory across lookup, create and
unlink (`Busy`), creates only what lookup did not find, looks up only in directories, keeps the
inodes in use and may drop the others.  The disk: a block is written whole.  A free mutex is granted whether or not a
signal is pending, as `mutex_lock_interruptible` does.

**Bounds and abstractions**, each named in the module.  Files are a path, an inode and a
size; their bytes are left out.  `DirCap` is a bound of the model: `Create` stops at it, where the
code writes past the end of a full directory block (hazard at `simple.c:641`), so that what `TypeOK`
says of a directory's size is no claim about the code.  `MaxObjects` and the width of the free map are both 64 in the code, so that
the blocks run out before the count does; here they are separate constants, and the
instances choose them so that either is the first to run out.
`IntBits` is the width of `1 << i` in the block search; the model has the sign extension at bit
31 and the undefined shifts past it, and the instances stay below (more than 28 objects
would be needed).  `Stale` is what `dead_inode_no` may hold in memory fresh from
`kmem_cache_alloc`.

**Abstract specification.**  `NameSpace` has a tree of names and the sizes of its files.  A
create that returns 0 has made its name at one instant of the call, one that fails with
`ENOSPC` has done nothing; unlink takes effect as it returns; nothing else (another process, a
lookup, an eviction, write-back) changes a name or a size.  The mapping walks from the root
and reads what lookup would find, whatever is in core.

`GivenOutOnce` is the conjunction of `BlocksDisjoint` and `InodesDistinct` in memory and
`DiskBlocksDisjoint`; `NamesSound` that of `NamesResolve` and `OneName`.

**Runs that pass.**

| run | question | instance |
|---|---|---|
| `fs_owner` | do store, free map, records and in-core inodes agree while one process creates and unlinks and another writes? `LocksAreOwned`, `GivenOutOnce`, `NamesSound`, `Coherent` | the full tree (mkfs's file, a file, a directory, a file in it), 6 blocks, 5 objects, no signals, no crash; 599,829 states |
| `fs_crash` | is what create returned for still there after a crash at any moment (a zero slot excepted, see below), and is every name on disk, in every directory, resolved? `TypeOK`, `CallsInv`, `NamesSound`, `DiskNamesResolve`, `CreatedIsDurable` | two processes that create and write, 4 objects, one crash; the fifth object gets `ENOSPC`; 82,164 states |
| `fs_signal` | are blocks and inode numbers still given out once when any interruptible lock may fail? `GivenOutOnce` | two processes that create and write, signals to both; 580,186 states up to the exchange of the two (`AlikeProcs`, sound because they may do the same) |
| `fs_names` | does it implement `NameSpace`, and does every call return? | one process creates and unlinks, one writes, a smaller tree, fair; 10,882 states |

*Why these bounds.*  Two processes can be in two directories at once, which is all the VFS
allows to overlap.  A directory in the root with a file in it gives every relation two
directories can have; four or five objects are enough to fill the store, to free an inode and
take it over in the same and in the other directory.  After one crash the image is one that
a crash can leave, and a second crash starts from such an image again.

*Fairness.*  As for globalfifo: `WF(Step(i))`, and `SF(Acquire(i))` because each mutex queues
its waiters.

The README of simplefs also says that block 2 holds the initial file; mkfs and the code put
the root directory there and the file in block 3, and so does `Init`.

**Where the properties stop.**  The passing runs state what holds.  Exploring the same model
beyond their bounds shows where that ends, at these places:

- *a reused inode*: when create takes over a dead inode, the directory block with the new name is
  synced before the inode store has been written, so that a crash leaves a name without its inode
  (the comment at `simple.c:623` has this order help consistency "even in most crashes");
- *a signal in the block search*: the exit at `simple.c:159` unlocks the mutex of another process,
  so that the super block is no more under its lock (`simple.c:21`).  With signals `NamesResolve`,
  `OneName`, `Coherent` and `DiskNamesResolve` fail too, because create ignores that `inode_add` was
  interrupted; with signals and unlink the allocation properties fail as well;
- *a crash between super block and inode store* (`simple.c:134`) leaves a zero slot, which the next
  create takes for a dead inode with block 0, the super block.  That create returns 0 and leaves a
  record of inode 0, which no lookup finds.  `fs_crash` reaches it, and `CreatedIsDurable` excepts it:
  after a crash it speaks only of inodes with a number.  `BlocksDisjoint`, `Coherent` and
  `DiskBlocksDisjoint` fail then, hence `fs_crash` does not check them;
- *the super block's lock*: `SuperBlockIsLocked` speaks of the sections between a lock and an unlock
  of `simplefs_sb_lock`.  `inodes_count` is read outside of them too (`simple.c:85`, `197`, `295`);
- *create against unlink in another directory*: create can read a slot that the unlink has half
  written and names an inode that is not in the store; `NamesResolve`, `Coherent` and
  `BlocksDisjoint` fail.  No run has both at once.

**Proofs** (`SimpleFs_proofs` and, of the disk and the name space, `SimpleFsNames_proofs`), for all
trees of paths, sets of processes, maps of blocks and object limits that meet the assumptions of `SimpleFs`, *with* signals and crashes:

- `Inductive` proves `FsInv == TypeOK /\ CallsInv`.  `TypeOK` alone is not inductive: that the
  object count stays within the store (and, in the model, a directory within `DirCap`) depends on tests
  made several steps (and several unlocked gaps) before the change.  `CallsInv` says what a
  call relies on from its first step to its last: who holds the directory mutex, that two
  calls never change one directory, that the room found by `Create` and the count found by
  `Count` are still there.  It survives the signals because every wrong exit concerns the
  other two mutexes, and the crashes because the directories on disk fit their block too.
  One lemma per action (`AcquireStep` .. `MachineStep`), combined by `NextInv`.
- `TypeCorrect`, `CallsAreKept`: its two halves, as `fs_crash` checks them.  Of `TypeCorrect` it is the
  object count that says something of the code.
- `LocksExclude`: when nobody is signalled, each mutex is held by exactly the process in one
  of its sections (`LocksAreOwned`, as in `fs_owner`), proved on top of `FsInv`;
  `SuperBlockExclusive` states the consequence for the sections of the super block's mutex; with
  signals it is false.

- `NothingGivenTwice`: `GivenOutOnce`, with signals, the wide shift and any number of processes, if
  whoever unlinks is the only one who creates (`NobodyCreatesBeside`), up to the first crash.  Both conditions are where the property ends (see above):
  `get_dead_inode_no` reads the store without a lock, and a crash separates the object count,
  which is written through, from the store.  The invariant `Allocated` says that some function
  `owner` tells for every block which inode number got it, for good, and that everything that
  mentions an inode agrees with it: the slots in memory and on disk, the in-core inodes, and
  the inode each call has in hand.  Slots are never freed, so that number and slot go together
  (`SlotNo`), and a dead slot remembers its number but for the moment in which a copy is half
  done.  `GivenOutOnce` follows because `owner` is a function.  `RangeAssumption` (the blocks have
  no gap) is for the search of a free one.

- `NamesAreSound` and `CoreIsCoherent`: `NamesSound` and `Coherent`, without signals, under
  `NobodyCreatesBeside` and up to the first crash; the paragraph "Where the properties stop" has what goes wrong without either.
  Both are false in the middle of a call by what they would say of the file or directory it works
  on, so that the invariant, `NamesInv`, has to say how far each call is.  Its parts:
  - `RecordsOK`: each record that counts names an inode in use of the kind of the name, or one that a
    call under way is about to bring to life (the name was put into an empty record before
    `inode_add`) or has just unlinked (`Pends`);
  - `RecordsDiffer`: no two records have one number, no two of a directory have one name;
  - `CoresOK`: an inode in core is that of its slot, but for the size that a create gave its
    directory (`Grown`) or a write its file (`Resized`), and but for the file an unlink has marked
    dead (`Going`);
  - `CreateOK`, `UnlinkOK`: what a create has found and done so far, how far an unlink is.

  One lemma per action (`AcquireNames` .. `SaveNames`), on top of `Owned` and `Allocated`; `StoreOK`
  is what `Allocated` says of the store alone.  The three kinds of `inode_save` share `FileSlot`:
  the slot of a file is not one of a directory, so that saving it changes no record.

- `NamesOnDiskResolve` and `CreatesAreDurable`: `DiskNamesResolve` and `CreatedIsDurable` up to
  the first crash, without signals and where nobody unlinks (`NobodyUnlinks`): a machine that stops
  at any moment leaves an image in which each name of each directory has its inode and in which all is
  there that a create has returned for, without an exception.  This is what rests on the order of the writes.
  `DiskInv` adds to `NamesInv` that the directory blocks on disk are those in memory and that the
  store on disk lags by one slot at most: that of the inode which a create has just added, whose
  record does not count before `inode_save` has written the store (`OnDisk`).  Where somebody
  unlinks, a reused inode breaks it (see above).
- `IsNameSpace`: `ImplementsNameSpace`, the refinement of `NameSpace`,
  without signals and crashes, under `NobodyCreatesBeside`, for trees of any depth.  The mapping walks from the root
  (`InodeOf`), and what a recursive function computes along a path is an induction over data; it
  is made once, in `InodeShown`, over the set of paths on which the walk is what is claimed, with
  `TreeAssumption` (following `Parent` ends at the root: no set of other paths has the parent of
  each of its members).
  The lemma says that the walk finds what is in core or else the inode of the path's number, and
  that the tree is the set of paths with a number (`Called`: by a record that counts, or by the one of
  a create that is about to save its directory).  It needs `TreeInv`, that is `NamesInv` and
  `LinkInv`: a record that counts is in the slot of the directory that its path has.  Then each
  action is either a stutter (`Calm`) or one of `Call`, `Appear`, `Vanish`, `SetSize` and `Answer`
  (`SearchRefines` .. `UnlinkRefines`, combined in `NextRefines`): a name appears at `Children`, or
  in `Search` when an empty record of the same directory is filled, and vanishes at `Forget`.

Only model-checked: what holds of the disk and of names *after* a crash and another mount
(it depends on what `kmem_cache_alloc` left in `dead_inode_no`, the constant `Stale`, so that
these are not theorems about every instance), and liveness (`CallReturns`).

## 4. udevd and udevsettle

| module | what it is |
|---|---|
| `Udevd` | the daemon, one action per step of its loop, with the kernel, the children and udevcontrol around it |
| `EventSchedule` | what it promises: events that wait for those they depend on, run, end |
| `UdevdProps` | the properties, the parts of the inductive invariant, the refinement mapping |
| `UdevSettle` | `udevsettle` beside the daemon, each of its reads a step |
| `Udevd_proofs`, `UdevSettle_proofs` | the proofs |
| `MCUdevd`, `MCUdevSettle` | the instances that TLC checks |

**Correspondence.**  `pc` names the next step of the one thread.

| in the model | in the code |
|---|---|
| `Init`, `ExportInitialSeqnum` | the netlink socket has been bound (`udevd.c:1022`); `export_initial_seqnum` (1062) writes the kernel's number, or 0 if it cannot read it, while the events it counts may still be in the socket |
| `Select`, `GetCtrlMsg`, `GetNetlinkMsg` | `select()` and the descriptors it reports, served in their order (`ready`); `get_ctrl_msg`, `get_netlink_msg` |
| `MsgQueueInsert`, `WaitTraced` | `msg_queue_insert` after the number file: queued, run at once with a timeout, or waited for in debug mode |
| `DrainPipe`, `TestFlag`, `Reap`, `ReapDone` | the read of the signal pipe, the test and reset of `sigchilds_waiting`, `reap_sigchilds` with `udev_done` |
| `TestRunQueue`, `Start`, `StartFails`, `Delay`, `Throttle`, `ManagerDone` | the end of the loop and `msg_queue_manager`, a round per step; `Busy` is `devpath_busy`, `Related` is `compare_devpath` |
| `ChildExit` | a child's end with the `SIGCHLD` handler, between any two steps |
| `ExportQueued`, `ExportEnded` | `export_event_state`; `useq`, `queuefile`, `failedfile` are the files of `/dev/.udev` |

The two lists are sets: the netlink socket delivers in the order of `seqnum`, so the order
of a list is that of the numbers.  A devpath is the sequence of its components.

**External.**  The socket; children, which end by themselves or by the alarm of 180 seconds
that each sets; the count of busy processes in `/proc`, which is udevd itself, any of its
children, and up to `Load` others.

**Left out**: control messages that set the environment or the log level, reloading the
rules, exit and restart of the daemon, a failed fork in debug mode (its freed event is waited
for: listed as a hazard).

**Abstract specification.**  `EventSchedule` knows waiting and active events, the devices
*marked* as unfinished and those *failed*.  An event begins when no earlier one it depends on
is unfinished; marks and failures change at the moment an event ends.  There is no queue
manager, no flag, no signal.  `Refinement` proves that each of the daemon's steps is such a
step or a stutter, at every moment, the middle of the loop included.

**Runs.**

| run | question | instance |
|---|---|---|
| `udev_queue` | does every event received end (`EventEnds`), and does the daemon never sleep over an event it could run (`QueueDrains`)? | 2 events of 3 kinds, 2 control messages (stop, start, both limits), failing forks, debug mode on and off, fair; 111,602 states |
| `udev_settle` | does no event run beside an older one it has to wait for, is every child noticed, do the files show what is unfinished, and does the daemon implement `EventSchedule`?  Does `udevsettle` wait for what it saw (`SettledSawTheEnd`)? | 3 events of 4 kinds, no control messages, `udevsettle` polling beside it any number of times, from before the first number file; 1,654,260 states |
| `udev_race` (violation) | `udevsettle.xml:33`: it "exits if all current events are handled" | 2 events |

*Why these bounds.*  The paths are a bus, a port on it, and a disk whose physical device is the
port: parent and child, the same device twice, the physical device (which counts for "add" alone),
and no relation at all.  With three events one runs, one waits for it, and a third may overtake;
the chain from disk removal to disk to port is one in which the waiting event counts and the
running one does not.  One of the kinds has a timeout and runs at once.  What the kernel sends before
udevd has written its first number may be any number of events, in `udev_settle` all of the bus
(`EarlyEvents`): once the loop has begun they are events in the socket like the others.

`udev_race` is the finding.  `udevsettle` looks whether the queue directory exists, then reads
udevd's number, then the kernel's.  udevd writes its number before it creates the queue file
(`msg_queue_insert`), so that with the directory gone at the first read, and the event
received before the second, both numbers agree while the event is unfinished.  The property leaves
out the events that udevd's first number counts, for which the same happens without a race:
`export_initial_seqnum` writes the kernel's number while they are still in the socket, so that
`udevsettle` started right after `udevd --daemon` finds no queue directory and equal numbers, and the
number in the file goes back when udevd receives them.  What does hold is `SettledSawTheEnd`: what was
shown when it started has ended, and what the kernel had sent by then has been received, but for
those events (`first`, the kernel's number when udevd wrote its own).

`NoOverlap` and `SeqInv` say what `devpath_busy` and the socket give, and not more.  The waiting is in
one direction: an event waits for older ones.  An "add" waits for older events of its physical
device, but a younger event of the physical device does not wait for the "add", and the two run
together (`udevd.c:479-525`).  What is in the socket is younger than all that is pending, but may be older
than the number in the file, until the first event is received.

*Fairness.*  `WF(Daemon)`: the process is scheduled.  `WF(ChildExit(e))`: the alarm.  None on the
kernel, on control messages or on `udevsettle`.  `EventEnds` asks that the queue is not stopped
for good, and the instances have `Load = 0` and a limit of at least two running: with other
busy processes in the session a round that is throttled while no child runs sets no flag, and
waits for the next event.  The hazard at `udevd.c:269` says so.

`max_childs` lets two more events run than it says (`udevd.c:506`: a counter from 0, incremented
after a comparison with `>`), where `udevd.xml:116` speaks of the maximum; `TooMany` has it as
it is.

**Proofs** (`Udevd_proofs`), for all sets of devices, event kinds, control messages, numbers of
events and limits.  `Inductive` proves `DInv`, the conjunction of

- `TypeOK`, which says that a child not waited for is in `running_list`;
- `SeqInv`: events are received in the order of their numbers, and none that is pending is younger than
  the number in the file;
- `NotOvertaken`: what waits was not passed by a younger event that depends on it.  `NoOverlap`
  alone is not inductive: starting a waiting event must not meet a younger one that waits for it;
- `NoOverlap`;
- `LoopInv`: which flag still stands at which step, without which `ChildNoticed` is not inductive;
- `ChildNoticed`;
- `QueueShown`: the queue directory shows the devices of the pending events, without which the
  refinement does not hold.

`TypeStep`, `SeqStep`, `OverlapStep`, `LoopStep` and `ShownFacts` prove the parts, one step per
action; `ScheduleStep` the refinement.  `QueueIsKept` states `SeqInv`, `NotOvertaken`, `LoopInv` and
`QueueShown` together (`QueueInv`).

`QueueIsDrained` is `QueueDrains` on a `QuietHost`: no other busy process in the session, and no
limit below two, the condition given above for the runs.  Its invariant `DrainInv` says that as
long as nothing runs, an event that waits is flagged or about to be looked at, and that the
manager has passed over none it could have started: with nothing running the oldest event
depends on nothing and no limit is reached (`IdleFacts`).

`SettledIsTrue` (`UdevSettle_proofs`) is `SettledSawTheEnd`, on top of the daemon's invariant.
`DaemonUndisturbed` shows that `udevsettle` only looks; `SettleInv` says what each of its three reads
has established by the time of the next: once the directory was seen empty, nothing it had
shown is pending or comes back, although newer events may; and a number it read that is beyond
`first` is that of an event udevd has received.

Only model-checked: `EventEnds`, which is liveness.

## 5. Event processes and globalmem

Four modules that share no state.  `MCDevices` puts their instances side by side: a behaviour
chooses one of them at the start, so that one run of TLC checks the sum of their states (318,632).

**`UdevNode`**: an event of a device reads its database entry, removes it and its names from the
index, makes its node, stores the new entry, and brings every name it touched up to date
(`update_link`).  Every file operation is a step: processes of different devices interleave at
each of them.  Abstracted: what the rules say of a device is an outcome (a name, links, a
priority); permissions and the file formats are left out; an entry without anything but its
name loses its priority, as in the code.

- `IndexMatches`: when nothing runs, index and database agree, whatever races there were.
- `TmpIsOwned`: the temporary name, which is the same for every process, is never taken over.
- `AloneIsRight`: races can leave a link with the wrong device, and the code has no remedy but
  the next event; what is checked is that an event that runs alone leaves *every* name of its
  device right, from every state races can lead to.  It leaves out a name that is the
  node of another device: there the run `udev_oldname` finds a violation.  The comment at
  `udev_node.c:303` says an old name is deleted or restored as "a symlink of another device";
  if another device has taken the name for its own node, line 308 replaces that node by
  a link or removes it.

*Bounds*: two devices, a link both claim with different priorities, a name one takes over from
the other, 4 events: begin, race, end, and one alone after it.

`UdevNode_proofs` proves all three for any devices, names, outcomes and number of events.
`NodeInductive` is `NodeInv`: types; `IndexInv`, by which an event in the middle of its index update
knows exactly what is left to take out or put in; `TmpInv`, by which a temporary file is there
only while its one process is about to rename it.  From it follow `IndexIsKept` and
`TmpFilesAreOwned`.  `LoneEventsAreRight` needs more (`RightInv`): what a process is about to make
(`MakeInv`), that nodes have names of devices only, and for an event that has run alone so far
(`AloneInv`), that the names done are right and that the device chosen among those weighed is
the best of them.  `NodeAssumption`: an outcome is a node name, links and a priority, and no
link is called like a node.

**`UdevNet`**: `rename_netif`, one process per interface, with the give-up of the own name and the
wait loop.  `NoRenameCycle`: nobody waits for a name that a waiting process holds; three
interfaces and any choice of three names have every exchange and cycle.  `RenamesProceed`
(`UdevNode_proofs`) proves it for any number of interfaces (assumption: the rules choose no name
ending in "_rename").

**`UdevRules`**: `AddKey` is `add_to_rules` (a line becomes a rule, is skipped or is not valid),
`Begins` the calls that `udev_device_event` makes for an action (a device with a node, an interface, or
neither) with the environment each starts from, that of the kernel's event (`Uevent`);
`MatchRule` is `match_rule` (with the parents of the device, and the programs and imports a rule
runs even if it then fails to match), `ApplyRule` the body of `udev_rules_get_name` and
`udev_rules_get_run`.  The history `applied` lists the rules that applied; the properties say of the
whole list what was collected one rule at a time:

- `CollectedAsWritten`: a list has what came after the last reset and before the end of the first
  final assignment; a permission is the last word before it is final;
- `NameIsFirst`: "only one rule can set the node name", and later rules with a name are dropped
  with all they say;
- `OrderAsWritten`: forward only, past everything a `GOTO` skips;
- `EnvIsKept`: what is stored for the remove event restores the environment.  Three cases are
  excepted because they fail: a variable whose name begins with that of another
  (`strncmp` with the length of the key, `udev_utils.c:93`), values imported from the parent,
  which are added and not replaced, and a variable of the kernel's event that a rule unset: the list
  does not keep that it is gone, and the remove event brings its own.

*Bounds*: files of up to three of nine lines, between them every operator, key class, option and
substitution the model has; a device with one parent; add, change and remove, with and without a node; `MAJOR` in the kernel's
event.

`UdevRules_proofs` proves all four for any rules files, chain of parents, outputs of
programs and imported values (`RulesKeepTheirOrder`, `TheFirstNameHolds`, `NothingIsMissed`,
`EnvironmentIsKept`).  Of the three assumptions two are about types; `EnvAssumption` adds that a name
begins with itself and that the database has one value for a variable, as `EnvIsKept` makes it.
The invariant of the first three is `RulesInv`:

- `RulesTypeOK`, for which the parser must be shown to make rules (`ParseLineType`,
  `ParseFileType`): a key that is there has a value.  The parser goes through its tokens as a
  recursive function, and the induction over them is made by hand (`LeastOf`, `UpTo`,
  `AlongStays`);
- `OrderAsWritten` and `NextInv`: the next rule is behind the last one applied, and a `GOTO` of
  that one was followed;
- `NameInv`: the flag `name_set` stands exactly when one applied rule names the device;
- `CollectedInv`: lists, permissions and their "final" flags are those of the applied rules up to
  now.  A rule reads them one at a time, the property as a whole: the lemmas on what the last
  reset and the first final assignment are after one more rule (`Lasting`, `Effective`) close
  that gap.

`MatchKeeps` shows that matching a rule changes nothing but the environment and the result of
the last program, which is why rules that in the end fail to match do not count.

`EnvIsKept` has an invariant of its own, `EnvInv`: as long as no rule imports the parent's variables,
the environment is `Sound`, that is, a variable whose name is no beginning of another one has at
most one entry in the list, and `getenv` says what that entry says, or nothing.  `KeyAddSound`
and `KeyRemoveSound` are the two list operations, `ImportKeysSound` and `AssignEnvSound` their loops,
`PutAllFacts` the loop that restores, where a list with the entry twice would have the last one win.

**`GlobalMem`**: read, write and `MEM_CLEAR` copy byte by byte under the mutex and may fault; the
position is of one open file that all processes share, read and clipped before the mutex and
written after, and `llseek` tests and moves it in two steps.  `MemIsWhole`: the memory is what
whole calls would leave.  `CopyInMemory`: the position itself may be led outside by two
racing seeks, but no copy is.  `GlobalMem_proofs` proves both for every size, number of processes
and set of values: `MemInv` says that only the holder of the mutex has a copy under way, and that the
memory is `whole` with the bytes it has done so far.  *Bounds*: two processes, two bytes, three
calls each, offsets that go back, forth, and past the width of `unsigned int`.

## 6. What is checked and what is proved

A passing run shows its properties for one small instance, completely.  A theorem shows
its property for every value of the constants that meets the named assumptions.  Liveness
under fairness and `ENABLED` are out of the proof system's reach.  So are the library's induction
theorems, which take an operator; the recursive functions of the models (the parser, the loops over
lists of variables, the path walk `InodeOf`) are reasoned about by sets of numbers or paths instead
(`UpTo`, `AlongExists`, `AlongStays`, `TreeAssumption`).

| component | proved | only model-checked |
|---|---|---|
| globalfifo | types, mutual exclusion, no lost wakeup of readers and (without `FIFO_CLEAR`) writers, sleepers are queued, clean return, refinement of `ByteQueue` | liveness |
| simplefs | types, what a call relies on, lock ownership (without signals); up to the first crash: allocation (whoever unlinks the only one who creates), names and in-core against stored inodes (the same, without signals), names on disk and durability (no unlink, without signals); refinement of `NameSpace` (without signals and crashes) | the same after a crash and another mount, liveness |
| udevd | types, order, exclusion, `SIGCHLD`, files shown, the queue is drained (on a quiet host), refinement of `EventSchedule`, what `udevsettle` concludes | liveness |
| event processes | renaming of interfaces; index and database, temporary files, links after an event alone; order of rules, name, lists and permissions, the stored environment | - |
| globalmem | atomic calls, copies stay inside | - |

Each property has a mutant in `PROJECT.json`: a plausible bug (a lost unlock, a `>` for a
`>=`, a missing sync, a wrong queue) under which its run fails.  The mutants are definitions
beside the action they replace, marked as such; no specification uses them.

Deadlock is checked in the runs of globalfifo and simplefs.  In those of udev and globalmem it is
not, because they may stop: the bounds end the supply of events and calls, and the queue may be
stopped by a control message.

To check: `tlc -config SimpleFs_owner.cfg MCSimpleFs.tla`, `tlapm SimpleFs_proofs.tla`,
`tlapm SimpleFsNames_proofs.tla`.

## 7. Not modelled

- simplefs: the bytes of files and the offsets of read and write (a read copies from the start
  of the block whatever the offset, `simple.c:341`; a write inside a file truncates it, comment
  above line 458); readdir; unlinking an open file (line 513 drops a reference of its caller);
  `s_fs_info`, which points into a buffer given back (804 and 837); unlink ignoring a failed
  `inode_save` (511); the width of `1 << i` past bit 31 (165); a directory block that is full (641);
  failing allocations; module load.
- globalfifo: what open files do once the platform device has been removed under them (`rmmod` of
  globalfifo-dev or an unbind through sysfs; the module count prevents neither); a memcpy that does not copy upwards (`globalfifo.c:135`); `ch8` and
  `ch9`, which register the device before its mutex is initialised (`ch9/globalfifo.c:247`).
- udevd: see section 4.  Nodes: permissions, SELinux labels, the nodes of `all_partitions`, a process
  that its alarm ends between two file operations.  Rules: writes to sysfs attributes,
  format strings other than `%k` and `%c`, escaping, temporary nodes, an imported `DEVPATH`, `MODE=0`.
- udev's helpers, tools and `extras/`: one message, one device read, byte formats.  `udevtrigger` sorts
  and writes files in sysfs.
- globalmem `ch6`: it is ch7 without its mutex, and `MemIsWhole` fails of it (the mutant `MemLock_None`).
- second: a second open adds a pending timer (`second.c:32`); `del_timer` does not wait for the
  handler, which rearms the timer (`second.c:45`).
- vmem_disk: a transfer beyond the end is skipped and completes as done (`vmem_disk.c:60`); it is one
  loop without concurrency of its own.  The ramdisk loop ends at a request that is not of the file
  system (`ramdisk.c:112`); blocktest puts the disk before `del_gendisk` (`block.c:124`).
- adc: every open requests the interrupt and no release frees it (`adc.c:42`), its `O_NONBLOCK` exit
  keeps the semaphore (`adc.c:71`).  buttons: the result of an interrupted wait is ignored
  (`c5/inter/drv/inter.c:160`).  brock: flags tested and cleared without a lock (`brock.c:65`).
- ring buffer: a write to a full ring spins on `size` (`ring.c:38`); each byte is stored as an `int` at a
  stride of one (`ring.c:84`).  thread timer: each tick creates a thread that nobody joins
  (`pthread_timer.c:41`).
- the bulk of the repository's lines: `stack_network/log.c` (19,510 lines) is a log of packets in
  hexadecimal, not code; udev's `extras/` decode the formats of disks and buses; the LTP
  files call into the kernel and print whether that succeeded.  None has state that a property
  could be about.

## 8. Plan

Done so far: globalfifo, simplefs, udevd with `udevsettle`, the event processes, globalmem.  In
order of what would add most:

1. proofs: `NamesSound` and `CreatedIsDurable` past a crash, for a `Stale` that is no inode
   number, where the mount has to be shown to read what `DiskInv` says of the disk; with signals,
   which of the exits of `mutex_lock_interruptible` alone already break them.
2. restart of udevd, with the queue files it leaves behind.
3. `SimpleFsFile`: read and write of one block with offsets (`simple.c` 300-470), against what a
   reader may see of a file written in pieces; readdir.
4. `SecondTimer`: handler, `del_timer`, open and release; `IrqReader`: adc, buttons and brock,
   which share the flag, the wait queue and the interrupt.
5. `VmemDisk`: request and bio loops over a memory disk; `RingBuffer` against a sequence.
