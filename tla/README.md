# fzz_overlay: TLA+ models and proofs

fzz_overlay is the Linux 5.3 overlay file system, changed so that copy-up of a
regular file no longer copies its data. A union mount shows an upper layer over
read-only lower layers; a lower file that is opened for writing gets an upper
file first. Here that upper file starts *empty*, and the data follows block by
block as writes need it, recorded in a table `block_status` of the overlay inode.
This directory models that mechanism, the copy-up protocol that leads to it and the rest
of the union around it: lookup and changes of directories, directory listings, hard links
with the inodes index, and mounting. TLC checks the models on small instances; TLAPS proves
the safety properties of the data path, of copy-up, of hard links, of mounting and of
directory listings, and how dentries, upper layer and work directory agree during the
directory operations, for every instance.

## 1. Inventory

| Component | Code | State | Operations | Interacts with |
|---|---|---|---|---|
| Block copy-on-write data path | `file.c` (`block_read_iter`, `block_write_iter`, `ovl_read_iter`, `ovl_write_iter`), `copy_up.c` (`ovl_copy_up_block`), `util.c` (`ovl_get_block`) | `cow_status`, `block_count`, `copy_count`, `block_status` of `struct ovl_inode`; the upper and lower file | read, write, append, copy of a block | copy-up sets the table up; setattr and eviction act behind its back |
| Copy-up | `copy_up.c` | upper dentry, `OVL_UPPERDATA`, `oi->lock`, temporary file in the work directory | open for writing, setattr, link, rename cause it | directory operations, index, data path |
| Lazily opened real files | `file.c`, `super.c` | `oi->upper_file`, `oi->lower_file` | opened by the first I/O that needs them, closed in `ovl_free_inode` | data path, inode life cycle |
| Inode life cycle | `super.c` (`ovl_alloc_inode`, `ovl_free_inode`), `inode.c` (`ovl_get_inode`) | the slab object, the inode hash | lookup, eviction | everything kept only in the inode |
| Inode attributes | `inode.c` | attributes of the real inode | setattr (size), getattr, xattr | copy-up, data path |
| Asynchronous block copy | `file.c` (`async_*`), `super.c` (`ovl_block_copy`) | hash table of requests, kfifo, COPYING state | enqueue, thread copies | compiled, thread runs, never fed |
| Persistence of the table | `util.c` (`ovl_open_meta`), `super.c` (`ovl_meta_save`) | `/etc/overlay/meta_<ino>`, kfifo | load, save | dead at this commit |
| Metadata-only copy-up | `copy_up.c`, `util.c` | metacopy xattr, `OVL_UPPERDATA` | chmod & co. without data, later data copy-up | copy-up |
| Directory modification | `dir.c` | whiteouts, opaque and impure marks, redirects | create, unlink, rmdir, rename, link | copy-up, lookup, readdir cache |
| Name lookup | `namei.c` | `ovl_entry` stacks, origin, index | lookup through layers | all of the above |
| Directory reading | `readdir.c` | merged cache, its refcount and version | iterate, seek, invalidate | directory modification |
| Hard links and index | `util.c`, `copy_up.c`, `dir.c` | nlink xattr, index entries | link, unlink, copy-up of linked files | copy-up |
| Mount and unmount | `super.c` | layers, in-use marks, module-wide threads and queues | mount, umount, remount | asynchronous copy, persistence |
| NFS export | `export.c` | file handles | encode, decode | lookup, index |

What is hard in this code, and what makes each part correct:

* *Interleaving.* Writes hold the overlay inode's lock; reads hold nothing. A read
  looks at `cow_status` once, at `block_status` once per block, and reads later.
  Correct means: what it returns was true at some moment of the read.
* *Two layers, two ends.* Until the last block is up, the upper file is shorter
  than the file, and the lower file does not know of growth. Correct means: merged
  by the table, the two are the file a plain file system would have.
* *Partial failure.* A copy or a write may fail after part of its work. Correct
  means: a block is not taken for copied until it is, and a retry destroys nothing.
* *Counting.* `copy_count == block_count` ends copy-on-write for good; it must be
  true exactly when the last block is up.
* *State kept only in memory.* Eviction drops the table.
* *Copy-up by several threads.* Whether the work is done is tested without a lock,
  the parent is read without a lock, and `cow_status`, the table, `OVL_UPPERDATA`,
  the upper dentry and the name become visible one after the other. Correct means:
  the work is done once, in the right place, and nobody sees half of it.
* *Failure of copy-up* at any of these steps: the locks are released, and what stays
  behind must not mislead the next attempt.
* *Loops under a lock*, and loops that only end when data arrives.
* *One tree out of several.* Every directory operation is several steps on the upper
  layer: a temporary object, marks, an exchange, a clean-up. Correct means: at every
  moment the layers together show the tree before the call or the tree after it, a
  crash included, and the dentries in memory say what a new lookup would say.
* *Shared caches* of listings, replaced under readers that are in the middle of one.
  Correct means: a listing shows what was there all the time, and every cache is freed
  once.
* *A count kept relative to another count.* The link count of an indexed file is stored
  as a difference, so that one change on disk moves both. Correct means: it survives a
  crash at any step.
* *Mounts that meet.* Correct means: a directory has one writer, whoever wins the race,
  and what a failed mount took it gives back.

The `hazards` of `PROJECT.json` list these at their lines, with the properties that
watch each of them and, where there is none, the reason.

## 2. Modules

| Module | Content |
|---|---|
| `BlockCow` | the data path of one file: state, one action per step, properties, mutants of single definitions |
| `BlockCowInv` | the inductive invariant `IInv` |
| `MCBlockCow` | instance for TLC: a lower file whose cells are all different |
| `BlockCowProofs` | proofs of types, counting, the merged view and the action properties |
| `BlockReadProofs` | proof of what unlocked reads return |
| `BlockPlainProofs` | proofs of appends, ends of file and the plain file without sparse writes |
| `CopyUpProto` | copy-up of the objects of a tree by several threads, with opens, reads, renames and failures |
| `CopyUpInv` | its inductive invariant `ProtoInv` |
| `MCCopyUpProto` | trees for TLC: nested directories; hard links and a file handle; a single file |
| `CopyUpProofs` | proofs of `ProtoInv` and of the safety properties of copy-up |
| `OvlLookup` | `ovl_lookup` as an operator: what a name is, given the layers and the parent's entry |
| `PlainTree` | abstract specification of the directory operations: one ordinary tree |
| `DirOps` | the operations of `dir.c` in steps over `OvlLookup`; implements `PlainTree` |
| `DirOpsInv`, `DirOpsProofs` | the inductive invariant `DirInv` of the directory operations, and its proof |
| `MCDirOps` | seven layouts of upper and lower layers for TLC |
| `ReadDir`, `MCReadDir` | listings of one directory by several open files, with both caches |
| `ReadDirInv`, `ReadDirProofs` | the inductive invariants `ReadDirInvariant` behind the caches and `ListingInv` behind the listings, and their proofs |
| `NlinkIndex`, `MCNlinkIndex` | link count and index entry of one hard-linked lower file |
| `NlinkIndexInv`, `NlinkIndexProofs` | its inductive invariant `NlinkInv`, and the proofs of its properties |
| `MountLife`, `MCMountLife` | `ovl_fill_super` of several super blocks, unmount, remount |
| `MountLifeInv`, `MountLifeProofs` | its inductive invariant `MountInv`, and the proofs of its properties |

The two families meet at `cow_status` and `block_status`. `BlockCow` takes copy-up as
one step and follows the data of one file from there; `CopyUpProto` splits that step
and keeps, of the data, only whether a table exists that leads to it. The other modules
take copy-up as one step (`DirOps`, `ReadDir`) or as the steps that touch what they are
about (`NlinkIndex`). `PlainTree` is what `DirOps` is shown to implement, with
`INSTANCE ... WITH tree <- View(up, lower)`: the abstract tree is what lookups from the
root find in the layers.

### BlockCow: state and actions against the code

`cow_status`, `block_count`, `copy_count` and `block_status` are the fields of
`struct ovl_inode`; `upper`, `usize` are content and size of the upper file (cells
past the end are 0, as a hole reads); `copiedUp` says that the upper dentry and
`OVL_UPPERDATA` are set. `w` is the one write that holds the inode lock, with the
locals of `block_write_iter`; `rd[r]` is the read of thread `r`, with the locals of
`block_read_iter`. A *cell* stands for the bytes that the properties need not tell
apart; a block is `BS` cells.

| Action | Code |
|---|---|
| `CopyUp`, `CopyUpTrunc` | open for writing → `ovl_copy_up_inode`: an empty upper file and a fresh table; with `O_TRUNC` the size is taken as 0 and there is no table |
| `WriteBegin`, `AppendBegin` | `ovl_write_iter` up to the test of `cow_status`, under the lock |
| `AppendCopy` | the `O_APPEND` branch of `block_write_iter` |
| `CopyStartBlock`, `CopyEndBlock` | the two partial blocks, brought up or not, or failing half-way |
| `WriteData` | one turn of the `vfs_iter_write` loop |
| `WriteFails` | its error return |
| `MarkBlock`, `WriteReturn` | the marking loop, one block a step; the end of copy-on-write |
| `WritePlain` | the write when `cow_status` is clear |
| `ReadBegin`, `ReadEnter` | `ovl_real_fdget`, then the test of `cow_status` |
| `ReadLoop` | top of the outer loop: table, tail or end |
| `ReadUpper`, `ReadLower` | one turn of an inner loop |
| `ReadTail`, `ReadPlain` | the two places where one `vfs_iter_read` ends the call |
| `ReadFails` | an I/O error at each of these places |
| `Truncate` | `ovl_setattr` with `ATTR_SIZE` |
| `Evict` | `ovl_free_inode` and a later lookup (`ovl_alloc_inode`) |

One `vfs_iter_read`, one `vfs_iter_write` and one `ovl_copy_up_block` are atomic
steps (the underlying file system locks its own inode for the first two; the third
may also stop anywhere with an error). Copy-up is one step. Plain loads and stores
of the table are taken in program order, as on x86. Accesses to `block_status` past
`block_count` are resolved in `NotCopied`: whatever value they find, the copy they
might cause has nothing to copy.

`Env` says what the environment may do: sparse writes, short writes, failures of
copies, writes and reads, truncation, eviction. Each run names the set it allows.

Two history variables say what is right. `ideal[c]` is the set of values that a
plain file may hold at cell `c` after the same calls: one value, or several while a
write is in progress or after one that failed half-way. `allowed[r][c]` collects
what `ideal[c]` has contained since read `r` began. They are the plain file that
`test/feature_test/test.py` runs beside the overlay.

### CopyUpProto: state and actions against the code

Dentries form a tree (`parent` is `d_parent`); hard links are dentries with the same
inode. `upper` holds the inodes with an `__upperdentry`, `upperdata` those with
`OVL_UPPERDATA`, `alias` the dentries with `OVL_E_UPPER_ALIAS`; `entry[d]` is the
directory whose upper directory has `d`'s name, `indexed` the contents of the index
directory, `impure` the directories marked so. `lock` is `oi->lock`; `workLock` is the
`lock_rename` that a copy-up through the work directory holds. `th[t]` is a thread
inside a call, with the locals of `ovl_copy_up_flags`. `emptied` is a history variable.

| Action | Code |
|---|---|
| `Open`, `CopyUpCall`, `RenameCall` | the calls: `ovl_open`, `ovl_copy_up`, `ovl_rename` |
| `MaybeCopyUp`, `Check`, `Walk` | `ovl_maybe_copy_up` and the loop of `ovl_copy_up_flags`: the test without a lock, then one `dget_parent` a step |
| `Start`, `Dispatch`, `Unlock` | `ovl_copy_up_start`, the three tests of `ovl_copy_up_one`, `ovl_copy_up_end` |
| `SetImpure`, `CreateTemp` | `ovl_do_copy_up` up to the temporary file |
| `SetCow`, `AllocTable`, `SetAttrs` | `ovl_copy_up_inode` |
| `CreateIndex`, `Install`, `SetUpperdata`, `InodeUpdate`, `Finish` | the index entry of a directory, rename or link into place, `ovl_set_upperdata`, `ovl_inode_update`, alias |
| `LinkMark`, `LinkUp`, `SetNlink` | `ovl_link_up` |
| `CopyUpMetaInodeData` | `ovl_copy_up_meta_inode_data` |
| `Fail` | every error return, with what it releases and what it leaves |
| `RenameParent`, `RenameMark`, `RenameUpper`, `DMove` | `ovl_rename` after its first copy-up, then the VFS's `d_move` |
| `RealFdget`, `CowTest`, `ReadReturn` | a read: which real file, then `cow_status`, both without a lock |

Abstractions. Objects are regular files and directories, all from the lower layer.
A dentry decoded from a file handle is a file, and NFS export implies that everything
is indexed. Hard links without an index are separate inodes in overlayfs, so dentries
that share an inode are indexed (`ProtoAssumption`). Renames go to another directory,
onto a free name; the new parent is marked impure if the object has an origin (`TypeOrigin`),
as all have but a hard link that copy-up broke. Whiteouts and redirects do not show here. Credentials, xattrs, times
and the free space of the upper file system are left out; whatever may fail, may
fail at any time (`Faults`).

### OvlLookup, DirOps: state and actions against the code

`up[p]` is what the upper layer has at path `p`: nothing, a whiteout, a file or a
directory, with its opaque mark, redirect and origin; `lower` are the lower layers, which
do not change; `work` is the work directory with its one temporary object. `dc[p]` is the
dentry of the overlay with its `ovl_entry`, the opaque flag and `oi->redirect`. `op` is
the call in progress with the locals that outlive a step. Objects carry an identity, so
that a rename can be told from a removal and a creation.

| Action | Code |
|---|---|
| `DoLookup` | `ovl_lookup`: `LookupLayer` through the upper and the lower layers of the parent, with `CheckRedirect`; the origin mark is repaired (`FixOrigin`) |
| `Start` | the part of `ovl_create_object`, `ovl_do_remove` and `ovl_rename` before `ovl_want_write`: `ovl_lower_positive`, `ovl_check_empty_dir`, the choice of rename flags |
| `CopyUp` | `ovl_copy_up` of the next ancestor or object, in one step |
| `CreateUpper`, `MarkNewOpaque`, `Instantiate`, `InstantiateFails` | `ovl_create_upper` |
| `OverTemp`, `OverAttr`, `OverRename`, `OverCleanup` | `ovl_create_over_whiteout` |
| `ClearTemp`, `ClearOpaque`, `ClearSwap`, `ClearWhiteouts`, `ClearCleanup` | `ovl_clear_empty` |
| `RemoveUpper` | `ovl_remove_upper` |
| `WhiteoutTemp`, `WhiteoutRename`, `WhiteoutCleanup` | `ovl_remove_and_whiteout` |
| `MarkOld`, `MarkNew`, `DoRename`, `Sweep` | `ovl_rename` under `lock_rename`: redirect or opaque mark of each side, the rename, the left-over whiteout |
| `Return` | the end of the call, and what the VFS does with the dentries (`d_move`, `d_delete`) |
| `Crash` | the machine stops; the next mount cleans the work directory |

Abstractions. One call runs at a time: the VFS holds the locks of both directories, and
the steps of calls in other directories do not touch theirs. Lookups happen between
calls. `ovl_cleanup` does not fail (the code ignores its result). Paths have at most two
names, the least that has a parent that moves. Kinds of file (device, symlink, socket)
are all `create`. Metacopy chains, origin file handles and the tests that compare a
looked-up upper dentry with the one in memory are left out.

### ReadDir

`dir` is the directory: its upper and lower content, `OVL_WHITEOUTS`, `OVL_IMPURE` and
`oi->version`. `heap` holds the `ovl_dir_cache` objects with their reference counts, so
that a use after free shows; `oiCache` is `oi->cache`; `fd[f]` is the `ovl_dir_file` of
an open file with its cursor and position. A call to `ovl_iterate` has room for one entry
(`IterateMerged`, `IterateReal`): a reader that takes more at once passes through the
same states without the changes in between. Each entry has the number of its real inode
and the `st_ino` that stat reports; they differ for an object with a copy-up origin.
`listing[f]` is a history variable: what was there all the time, what at some time, what
has been listed. `getdents` and `llseek` hold the directory's `i_rwsem`, and so do the
calls of `dir.c`: `Create`, `Unlink`, `Link` and `MoveIn` are whole calls, reduced to the
upper entry and to what they do to the version, and one call is one step. `ovl_dir_open`
takes no lock; it is one step because the two flags that it reads change at different
moments, between which it may come.

Copy-up, caused for instance by an open for writing, holds `oi->lock` and locks of the upper
file system only: no lock of the overlay's directory. It is two steps, with every call of a
reader possible between them.

* `CopyUpDir` is `ovl_inode_update` (`copy_up.c:603`), which makes the upper directory
  visible; `CopyUpDirDone` sets `OVL_WHITEOUTS` (604-605). A file opened in between is
  `is_upper` and `is_real` at once. The changes of `dir.c` wait: each begins with
  `ovl_copy_up` of the directory, which finds no alias and takes `oi->lock` (`MayChange`). A
  copy-up of an object in the directory does not wait, it asks for `ovl_dentry_upper` only.
* `CopyUpChild` is the mark and the link of the name in `ovl_copy_up_tmpfile`
  (`copy_up.c:643`), after which the upper directory is unlocked; `CopyUpChildDone` is
  `ovl_inode_update` (653). In between the name is in the upper directory and its overlay
  inode knows of no upper one, hence of no origin (`dir.linking`). Through the work directory
  the window is the same but for the upper directory's lock, so this is the wider of the two
  ways.

Two history variables record what the windows do. `mixed` is set when a file that began to
read in the first window uses the impure cache of a directory that is a merge by then; after
that `oi->cache` may be of the wrong kind, and a file may refer to freed memory. In such a
state the program has no defined behaviour, and the model stops (`Undefined`). `early` marks
an entry of a merged cache whose number was filled in in the second window.
All layers are on one file system and xino is off.

### NlinkIndex

One lower inode with several names, `index=on`. `ent[n]` says what name `n` is, `index`
what the index directory has, `xattr` is `trusted.overlay.nlink` (base U or L, and a
difference), `ino` the overlay inode in memory. Calls follow the code step by step:
`CopyUpStart`, `CopyToIndex`, `IndexNlink` (`ovl_do_copy_up`), `LinkLower`, `LinkUp`,
`LinkUpper` (`ovl_link_up`), `NlinkStart` (`ovl_nlink_start`), `LinkTemp`, `ChangeName`,
`CountName` (the change in `dir.c`), `CleanupIndex`, `NlinkEnd` (`ovl_nlink_end`). The
VFS lets one link, unlink or rename of the inode run at a time; a copy-up for an open
runs beside it, both under `ovl_inode_lock`. `Mount` is `ovl_workdir_cleanup` followed by
`ovl_indexdir_cleanup`.

### MountLife

Each super block runs `ovl_fill_super` in steps that end where it touches something
shared: the `I_OVL_INUSE` marks (`inuse`), the trap inodes (`traps`), the marks in the
layers (`rootOrigin`, `indexUpper`), the one thread pointer. Directories are paths, so
that one can be below another. `ParseOpt`, `MakeWorkdir`, `GetLowerstack`, `LowerFs`,
`LayersDone`, `GetIndexdir` and `Finish` carry the fallbacks of the options.
`PutSuper`, `FreeWork` and `FreeUpper` are unmount and the unwinding of a failed mount.
`running` are the copy threads that run, `thread` the one that the pointer names, and
`misstopped`, a history variable, says that one was stopped that had been stopped before.
A mount asks for one of the requests of the scenario that the behaviour started with.
Stacks of overlays on overlays, remote file systems and the text of the options are left
out.

## 3. Properties and runs

| Run | Instance | Shows |
|---|---|---|
| `cow_writes` | 5 lower cells in blocks of 2, calls up to offset 7, two values, no reader; sparse, failing copies and writes | `MergedView`, `CopyCountExact`, `AppendAtEnd`, `CopyNeverClobbers` |
| `cow_reads` | 3 lower cells, offsets to 5, one reader; failing copies, writes and reads | `ReadsRegular`, `EofRegular`, `SameAsPlainFile`, `TypeOK`, `IInv` |
| `cow_faults` | 3 lower cells, offsets to 5, no reader; everything in `EnvEvents` but failing reads; fair | `WritesReturn`, `CopyUpNeverUndone` |
| `cu_tree` | two threads; directories D and E, a file in D; reads, writes, truncating opens, chmod, three renames; `O_TMPFILE`; failures | `WorkOnce`, `UpperMirrorsTree`, `ImpureMarked`, `DataReachable`, `ReadTakesData` |
| `cu_links` | two threads; a file with names in D and in the root and a third by file handle; writes and a rename; index of everything, metacopy, `O_TMPFILE`; failures; fair | `UpperReachable`, `SuccessMeansUp`, `CallsReturn`, `ProtoInv` |
| `dir_crash` | two names in the root and one below each; two lower layers laid out in seven ways (merged, hidden by whiteouts, opaque, redirected, nested, apart), `redirect_dir` on, off and nofollow; four calls, one failure or crash | `IsPlainTree` (refinement), `CacheCoherent`, `WorkEmpty`, `ErrorsAreReal`, `TypeOK` |
| `readdir_listing` | two open files; a lower, a merged and a pure upper directory of three names; two changes, seeks to 0 and 2 | `ListingComplete`, `InoConsistent`, `CachesAccounted` (with `TypeOK`) |
| `nlink_crash` | three lower names and one more, two calls at a time, five calls, two failures, evictions or crashes; with and without `nfs_export` | `NlinkPersistent`, `NlinkUnion` (with `TypeOK`), `IndexCovers` |
| `mounts` | two super blocks, three mount calls, one failure; a request and one that conflicts with it in some layer, with index on and off; requests that differ in one option | `InUseMatched` (with `TypeOK`), `TrapsReleased`, `ExclusiveUpper`, `NoNestedUse`, `NoOverlap`, `ConfigSound`, `IndexBelongs`, `ThreadServes` |

Bounds. Two blocks of two cells, the last one full or half full, are the smallest
file with a first, a last, an inner boundary and an end inside a block; offsets one
block past it give writes and reads inside, across and beyond the table. Five cells
add a block that is neither first nor last. One reader suffices for the read
properties, which relate one read to the writer; the proofs are for any number.
For copy-up, two threads are two openers, or a copy-up and the rename that moves its
target, or a copy-up and a read. Depth two gives a parent that must be copied up
first and can itself be renamed. Threads repeat their calls without a bound; the
states are finite because copy-up only adds.
For directories, four calls are a rename, a second rename, a removal and a creation over
what it left, and one failure or crash hits every step of each of them; the proper cases
(a redirect through a renamed parent, an exchange onto a whiteout, a directory full of
whiteouts) need three. For listings two readers share a cache and two changes make one of
them outdated twice, or are the copy-up of the directory and a change after it (203,067
states, those of `mixed` and of `Undefined` among them). For link counts five calls with three lower names reach count 0 and
come back from it. For mounts a third call comes after an unmount or a failure.
Deadlock is checked in the runs of `BlockCow`, `CopyUpProto` and `ReadDir`, where a call
can always begin (`ReadDir` stutters in the states that have no defined successor). In `dir_crash`, `nlink_crash` and `mounts` the number of calls is bounded
and a behaviour ends when they are used up, so it is not checked there.

Fairness. `FairSpec` assumes weak fairness of the writer's steps and of each
reader's: a thread inside a system call goes on being scheduled. Beginning a call,
and failures, are never assumed. `CopyUpProto` also assumes strong fairness of the
steps that wait for a lock: a kernel mutex or rwsem is handed to every waiter in the
end. With weak fairness one thread could starve on a lock that another takes again
and again.

Runs that show a disagreement with what the repository says of itself:

| Run | What happens |
|---|---|
| `read_spins` | a lower file of a block and a half, one reader, no failing call, fair: once the last block is COPIED and another is not, a read at the end of file gets 0 from the upper file and goes round the two loops of `block_read_iter` for ever (`file.c:489`, `ReadsReturn`). The tests read such files past their end and wait for the answer (`test.py:13-18`). A `vfs_iter_read` that fails takes the same way |
| `evict_in_cow` | the table is lost, the incomplete upper file is taken for the file (`CowOffMeansDone`) |
| `readdir_former` | a directory that was merged once keeps `OVL_WHITEOUTS` and is listed from a merged cache, but its changes no longer raise the version: a listing that starts while another reader holds that cache shows the old names (`ListingComplete`) |

Departures that the models reach without a run of their own, and how to see them:

* A directory that is opened and read between `copy_up.c:603` and 605 is listed from its new
  upper directory alone: every lower name is missing, until that file is back at position 0.
  `ListingComplete` without `Astray`, after five states.
* The same file, still in the middle of its listing, calls `ovl_cache_get_impure` as soon as
  the directory is impure. If another file has made the merged cache meanwhile and a name with
  an origin has been moved in, the cache is outdated and is freed under the other file
  (`readdir.c:596-602`); if there was none, the impure cache stays behind in `oi->cache`
  for the next reader to take for a merged one. `CachesAccounted` without `~mixed`: copy-up
  of the directory to line 603, open and `getdents` by the first file, line 605, open and
  `getdents` by the second, rename into the directory, `getdents` by the first.
* A listing that comes to a name between `copy_up.c:643` and 653 finds the upper entry and an
  overlay inode without an origin, takes the real number (`readdir.c:497-516`) and keeps it in
  the merged cache, whose version copy-up does not change: `InoConsistent` without `early`.
* `ovl_setattr` sets the upper file's size and leaves the table, so that truncated data
  shows again (`inode.c:45`): `cow_reads` with no reader and `Env = {"truncate"}`,
  `SameAsPlainFile`.
* `ovl_copy_up_data` returns at once and `ovl_copy_up_meta_inode_data` sets up no table:
  after chmod and a later open for writing the data is gone from view (`copy_up.c:133`):
  `cu_tree` with `MetaCopy = TRUE`, `DataReachable`.
* `cow_status` stays set after a failed copy-up, against `ovl_entry.h:120-123`, and a read
  between the store to it and the upper dentry goes by a table that may not exist
  (`copy_up.c:467`): steps `SetCow`, `Fail` and `CowTest` of `CopyUpProto`.
* A crash between the copy-up to the index and the first stored count: the next mount takes
  the entry for an orphan and, with `nfs_export`, whites it out although all lower names
  exist (`copy_up.c:725`, against `namei.c:718-722`). `NlinkIndex` marks it with
  `uncounted`; without it its properties fail. The same mark is set when the first
  `ovl_set_nlink_upper` fails and the inode is evicted: the count then starts at the number
  of upper links, and as `ovl_cleanup_index` may fail too, later unlinks can take it below
  zero (`drop_nlink` of an unsigned count). `nlink_crash` with `MaxTroubles = 3` reaches it.
* A mkdir that fails after its opaque mark leaves a negative dentry that passes for a
  whiteout (`dir.c:314`): `CacheCoherent` without `used.faults = 0`.
* A hard link to a copied-up file in a directory that is not merged is missing from the
  impure cache (`dir.c:244`): `InoConsistent` without `dir.linked`.
* A lower layer refused as in use leaves its trap inode behind (`super.c:1489`), the copy
  thread of a failed mount is never stopped and the pointer of overlapping mounts is
  overwritten (`super.c:1868`), so that of two unmounts in a row the second stops a thread that
  is gone: the exceptions in `TrapsReleased` and `ThreadServes`.
* A mount with `index=off` of an upper directory in use proceeds without a mark of its own;
  when the first mount is gone a third one with `index=on` takes the directory. This is why
  `ExclusiveUpper` compares mounts that both asked for the index.

Three more departures are steps of the models without a run of their own. With
`"short"` in the `Env` of `cow_writes`, a short `vfs_iter_write` ends the write loop at
half of the data and all blocks up to the end are marked (`MergedView` fails). With
`"sparse"` in that of `cow_reads` a write beyond the last lower block
leaves that block to the lower file, which ends too early (`SameAsPlainFile` fails;
`MergedView` states the exception exactly). And in `cu_tree` an open with `O_TRUNC` after a
failed copy-up keeps the `cow_status` that was left set, so that reads of the emptied file
go by the table to the lower data.

## 4. Proofs

Each theorem holds for every value of the constants that satisfy the named assumption of
its module; none bounds the number of readers, threads, dentries, names, super blocks,
layers, calls or failures.

### The data path (`ConstAssumption`)

| Theorem | Environment |
|---|---|
| `TypeCorrect`: `Spec => []TypeOK` | any |
| `CopyCountCorrect`: `Spec => []CopyCountExact` | any |
| `CopyUpNeverUndoneCorrect`: `Spec => CopyUpNeverUndone` | any |
| `CopyNeverClobbersCorrect`: `Spec => CopyNeverClobbers` | any |
| `MergedViewCorrect`: `Spec => []MergedView` | `Benign` |
| `ReadsRegularCorrect`: `Spec => []ReadsRegular` | `Benign` |
| `AppendAtEndCorrect`: `Spec => []AppendAtEnd` | `Benign` |
| `IInvCorrect`: `Spec => []IInv` | `Benign` |
| `SameAsPlainFileCorrect`: `Spec => []SameAsPlainFile` | `Benign`, `Dense` |
| `EofRegularCorrect`: `Spec => []EofRegular` | `Benign`, `Dense` |

`Benign` excludes short writes, truncation and eviction, with which those properties fail
(section 3); failures of copies, writes and reads are included. `Dense` excludes sparse
writes, with which the last two fail.

The argument. Block arithmetic is settled first (`BlockBounds`, `BlockUnique`,
`CopyRange`, `TableSize`): later steps never multiply. Types need the bounds of the
calls in progress (`TypeInv`). `MergedView` is not inductive: that a block may be
marked COPIED depends on what the copy steps and the write put into the upper file
before. `DataInv` says it step by step (`StartPrepared`, `DataPrepared`,
`MarkPrepared`), together with three facts about the file at rest: outside the table
the upper file is right even where the lower file is read (`UpperRight`), a COPIED
block lies wholly inside the upper file (`CopiedInside`), so growth never uncovers a
hole in it, and cells past the end are zero (`ZeroTail`). The end of copy-on-write
uses `CopyCountExact`: all blocks counted means all blocks copied. For reads,
`ReadOK` says what a read may rely on between its look at the table and its I/O:
COPIED is for ever, and what it has seen as UNCOPY was right when it looked. For appends,
the size of the upper file is related to the end of the plain file at every step. Without
sparse writes, `TailInv` says that as long as the last block of the table comes from the
lower file the file ends where the lower file does, and `EofInv` that a reader which has met
that end has been past the end of the plain file.

### Copy-up (`ProtoAssumption`; all mount options, all failures)

| Theorem | |
|---|---|
| `ProtoInvCorrect`: `Spec => []ProtoInv` | the inductive invariant |
| `WorkOnceCorrect`: `Spec => []WorkOnce` | no upper file is created twice |
| `UpperMirrorsTreeCorrect`: `Spec => []UpperMirrorsTree` | names are where the tree has them |
| `ImpureMarkedCorrect`: `Spec => []ImpureMarked` | the impure mark comes first |
| `UpperReachableCorrect`: `Spec => []UpperReachable` | what is visible can be found again |
| `SuccessMeansUpCorrect`: `Spec => []SuccessMeansUp` | success means that the object is up |
| `DataReachableCorrect`: `Spec => []DataReachable` | without metacopy: a table wherever data is missing |
| `ReadTakesDataCorrect`: `Spec => []ReadTakesData` | without metacopy: no read takes an incomplete file |

The second is the claim of the comment over `ovl_do_copy_up`: `d_parent` may be out of
date by the time the lock is taken, but then the file has been copied up anyway.
`ProtoInv` makes it inductive in four parts. `LockInv`: a thread holds an inode's lock
exactly while its program counter says so. `StageInv`: what the holder has found under
the lock, it still finds until it changes it. `PlaceInv`: `par` may be stale only if
the dentry already has its alias. `MoveInv`: a rename moves only dentries that have
their alias, to a directory that is up, and there is one at a time; hence no dentry
without an alias moves, which is what keeps `PlaceInv`. The last two theorems assume
`~MetaCopy`; with metacopy they are false (section 3).

### Hard links and index (`NlinkAssumption`)

| Theorem | |
|---|---|
| `IndexCoversCorrect`: `Spec => []IndexCovers` | no link outlives the index entry |
| `NlinkUnionCorrect`: `Spec => []NlinkUnion` | the count in memory is the number of names |
| `NlinkPersistentCorrect`: `Spec => []NlinkPersistent` | so is the one that the next mount reads |

The invariant `NlinkInv` has the types (`TypeInv`), what a call knows of its names at each
step (`CallInv`: the lock it holds, which of its names is still lower or already a link,
which base the stored count has), how entry, upper inode and links hang together
(`EntryInv`), the count in memory, which lags behind the names in exactly one step
(`CountInv`), and the count on disk, which never does (`StoredInv`). The heart is
`StoredInv`: a copy-up adds a link to the upper inode without adding a name, and stores
the count relative to the lower inode (base L) first, which that link does not touch; a
link, unlink or rename changes names and links alike, and stores it relative to the upper
inode (base U) first, so that one step of the underlying file system moves both. Each step
comes down to how it changes the cardinality of the names and of the links (`NameAdded`,
`NameRemoved`, `NameCopied`). Lemma `NothingLeft`
shows that the branch of `ovl_cleanup_index` that its comment calls a safety measure is not
needed while the counts are right. All is stated under `~uncounted`, as in section 3.

### Mounting (`MountAssumption`, `BitsAssumption`)

| Theorem | |
|---|---|
| `InUseMatchedCorrect`: `Spec => []InUseMatched` | every mark has one owner, who will take it off |
| `TrapsReleasedCorrect`: `Spec => []TrapsReleased` | traps are put, but for the one of a layer in use |
| `ExclusiveUpperCorrect`: `Spec => []ExclusiveUpper` | no upper or work directory has two writers with an index |
| `NoNestedUseCorrect`: `Spec => []NoNestedUse` | nor has one a layer inside another's |
| `NoOverlapCorrect`: `Spec => []NoOverlap` | layers of a mount are apart |
| `ConfigSoundCorrect`: `Spec => []ConfigSound` | options that stay on are supported |
| `IndexBelongsCorrect`: `Spec => []IndexBelongs` | the marks on disk name the mount's layers |
| `ThreadServesCorrect`: `Spec => []ThreadServes` | as many threads as mounts, however they overlap and fail |

`MountInv` says what a mount call has established when it has come to a given step: the
marks it holds (`HoldInv`, `MarkInv`), the traps (`TrapInv`), which layers have been seen
and walked without meeting one (`LayerInv`, `NestInv`), what the options still on rest upon
(`SupportInv`), the numbering of file systems (`FsidInv`), and the marks on disk of every
mount that has verified them (`OriginInv`, which holds against other mounts because
whoever may write a mark has the directory in use). The proofs of `NoOverlap` and
`NoNestedUse` rest on the order of the steps: a trap that a younger layer sets is met by
the walk of the layers that follows, and the walk of a mount that comes later meets the
marks of the older one. `BitsAssumption` is the code's `BUILD_BUG_ON` together with the
existence of a binary logarithm for the layer counts that `OVL_MAX_STACK` allows, a fact
that would need induction. `ThreadServes` needs nothing but itself and that thread numbers are
not used again: a mount adds a thread and a mount, a failure takes a mount away, and an
unmount takes one of each, whosever thread it stops, as long as that thread still runs
(`ThreadAdded`, `ThreadRemoved`, which build the injection). File systems are named by strings.

### Directory listings (`ReadDirAssumption`)

| Theorem | |
|---|---|
| `CachesAccountedCorrect`: `Spec => []CachesAccounted` | no use of a freed cache, no cache that is never freed |
| `ListingCompleteCorrect`: `Spec => []ListingComplete` if `"former" \notin Kinds` | no listing loses, invents or repeats a name |
| `InoConsistentCorrect`: `Spec => []InoConsistent` if `"former" \notin Kinds` | `d_ino` is `st_ino` for what stayed the same object |

The reference counts do not explain themselves: a merged cache is counted and an impure one
is not, both hang on `oi->cache`, and `ovl_cache_get_impure` frees what it finds there
without asking who reads it. `ReadDirInvariant` says when this is safe. `FilesOk`: a file
that is not real, the only kind with a cache, belongs to a directory with `OVL_WHITEOUTS`,
and a real file that was opened on the upper directory to one without, or to one that is a
merge, that is, one opened in the window of its copy-up. `HeapOk`: with
`OVL_WHITEOUTS` every live cache is merged and its count is the number of its readers;
without, the only one is the inode's, impure, and the directory is not a merge. The flag
changes once, at the end of the copy-up of a directory that had no upper part, when by the
same invariant no cache exists: files opened before stay real until position 0, and then ask
for a merged cache. Both parts are invariant as long as no file of the window has used the
impure cache, which is exactly what `mixed` says; all three theorems are stated under
`~mixed`, and `mixed` never goes back. The parts are stated
for the record that the operators pass on, so that each operator has its lemma
(`PutStep`, `ResetStep`, `GetStep`, `FreedStep`, `GetImpureStep`) and each call puts them
together. `CacheIds` must have more members than there are files: lemma `FreeExists` shows
by counting that then a free one always exists, so the bound on caches is never met.

The other two need to know what the caches contain. `ListingInv` has four parts.
`ContentInv` is what the flags say of the directory: one with `OVL_WHITEOUTS` is a merge, and
a merge without it is in the window of its copy-up, when upper and lower directory show the
same; a directory that is not `OVL_IMPURE` has no upper entry with an origin. `CachesOk`: a
cache whose version is the directory's shows the names that are there (`MergedValid`) or
has exactly the entries with an origin, but for names linked in since (`ImpureValid`); of an
older cache nothing is said but its form. `FileOk` ties the cursor of a file to its position.
`ListingOk` relates a listing to what the rest of it will come from, unless its file went
astray in the window. A file keeps its merged
cache until it is back at position 0: the names so far are those before the cursor, and the
cache has all that must be listed and nothing that may not be, also when its version is long
past. For a real directory the same holds with the position and the layer itself.

A number in a merged cache may still be 0, to be filled in when a reader comes to it, by
whichever reader of the cache that is and with the directory as it is then. `InoFits` is why
this does no harm: an object that stayed the same has an origin now, from which
`ovl_cache_update_ino` takes the number, or the real number in the entry is the right one, or
the number was filled in in the window of the object's own copy-up and the entry is marked
`early`.
`SameShow` is what a change must do for that to last: a name that keeps its number still
shows, and does not lose its origin. Copy-up during a listing only adds origins.

The lists are made by recursive functions (`Filter`, the `fill` of `ReadMerged`); lemmas
`RecExists`, `FilterFacts` and `MergedRead` show what they compute for every input, by the
least argument at which they would not. A change of the directory has one proof for all
calls (`ChangeKeeps`), from what `ChangeFits` asks of it; each call of `dir.c` is shown to fit:
either the version grows, or the directory is not merged and the entry concerned was not in
the impure cache. `ovl_copy_up` of a child fits neither and has its own (`CopyUpChildContent`):
all it changes is where a name comes from. So have the two ends of copy-ups
(`CopyUpDirDoneContent`, `CopyUpChildDoneContent`), which change a flag. TLC checked `ListingInv` on the instance of
`readdir_listing` before it was proved.

The hypothesis excludes what `readdir_former` shows to fail; `~mixed`, `Astray` and `early`
what section 3 lists. The assumptions: the layers list
their names in one order and each name once; objects of a lower layer have no origin; a
directory that was never merged has no whiteouts, in its upper or its only lower layer; the
inode numbers given to new objects are not in use (`InoAssumption`).

### Directory operations (`DirOpsAssumption`, `LookupAssumption`)

| Theorem | |
|---|---|
| `TypeOKCorrect`: `Spec => []TypeOK` | types, and free identities never run out |
| `WorkEmptyCorrect`: `Spec => []WorkEmpty` | every call, failed ones included, leaves the work directory empty |
| `UpperCoherent` | between calls, a dentry in the cache has an upper part, and is a directory by it, exactly when a new lookup would say so |

`WorkEmpty` is about the work directory and its proof is about dentries. The one call that
can leave something behind is `ovl_clear_empty`: it swaps the victim with a new opaque
directory and then removes, by the list that `ovl_check_empty_dir` made before, the
whiteouts that came with the old one; a name that the list lacks makes the final `rmdir`
fail. The list is made from what the dentry says of the directory. So the invariant has to
say that a dentry has an upper part exactly where the upper layer has a file or directory
(`Settled`), at every step of every call.

`DirInv` has ten parts. `Shape` gives the fields their types; `Tree` puts every upper name
into an upper directory; `CacheTree` every cached dentry under a cached directory.
`Settled` excepts the names of a call between its change on disk and its change in memory
(`Unsettled`), and from the rename on disk to `d_move` it speaks of the dentries as they will
be (`Seen`). `Names`, `MakeInv`, `RemoveInv`, `ClearInv` and `RenameInv` say what a call has
established when it has come to a step: the directories above its names are up, a name to be
created has nothing below it, the list covers the victim until the swap (`Covers`) and
nothing is left below it afterwards (`Bare`). `WorkInv` is the temporary object, with the
names in it among those still to be removed. TLC checked `DirInv` on the instance of
`dir_crash` before it was proved.

Of a lookup the proofs need two things. In the upper layer it is a test of one name
(`LookupUpper`), which settles whether there is an upper part. Of the walk through lower
layers they need only the types of its result and that it reports a directory under an
upper directory. `LookupLayer` and `LookupStack` are recursive functions over an initial
part of the naturals; that they are defined, and typed, is proved by taking the least
argument at which it would fail (`LeastNat`, `RecExists`), which needs no induction rule
with an operator parameter.

The assumptions: finitely many paths, and at least as many identities as paths; redirects of
the lower layers are among those that `ovl_get_redirect_xattr` lets pass (an absolute one
has a component); no name is empty or `/`; `redirect_dir` implies `redirect_follow`, as
`ovl_parse_opt` makes it.

### Only model-checked, and why

* Liveness (`WritesReturn`, `CallsReturn`; the violation of `ReadsReturn`): fairness is outside what the
  prover can do.
* `DirOps`: `CacheCoherent`, `ErrorsAreReal` and the refinement `IsPlainTree`. They compare
  everything that two lookups find, the lower stack and the identity of the object included,
  before and after a change of the upper layer. That takes what a redirect resolves to
  through all lower layers, for every tree, and how the walks change when a redirect is
  written; `UpperCoherent` is the part of `CacheCoherent` that the upper layer decides.

## 5. Not modelled

* *Lazily opened real files*: `oi->upper_file` and `oi->lower_file` hold no data of their
  own; the models take them as open. The double open and the `ERR_PTR` left behind are
  listed as hazards.
* *Asynchronous block copy*: `async_block_write_iter` and `async_block_read_iter` are not
  called, so nothing reaches the thread. Its start and stop are in `MountLife`.
* *Persistence of the table*: `ovl_open_meta` returns before it opens a file and the saving
  thread is not started; no behaviour of the program runs this code.
* *Other file operations* (llseek, fsync, mmap, fallocate, ioctl, copy_file_range): each is
  passed on to the real file and keeps no state. During copy-on-write they see the
  incomplete upper file.
* *NFS export*: `export.c` walks dentry cache and layers by file handles of the underlying
  file systems, whose meaning is theirs. What copy-up and the index do for a decoded dentry
  is in `CopyUpProto` and `NlinkIndex`.
* *Of lookup*: metacopy chains and the decoding and verification of origin file handles.

Permission checks, credentials, timestamps, extended attributes other than the
overlay's own, and mount option text are left out: no state of the parts above
depends on them.
