----------------------------- MODULE MountLife ------------------------------
(***************************************************************************)
(* Mounting and unmounting overlays (super.c): several super blocks run    *)
(* ovl_fill_super at the same time, share the I_OVL_INUSE marks of the     *)
(* directories they write to, the marks they leave in the layers (the      *)
(* upper root's "origin", the index dir's "upper") and the one kernel      *)
(* thread whose pointer is module-wide.                                    *)
(*                                                                         *)
(* A directory is its path: a sequence of names whose first is the file    *)
(* system it is on.  Each action is the part of ovl_fill_super between two *)
(* accesses to shared state; the walk over the ancestors of one layer is   *)
(* one step.  Traps (ovl_get_trap_inode) are the inodes a super block has  *)
(* hashed for its layers' roots.  Left out: stacking of overlays on        *)
(* overlays, remote dentries, name lengths, O_TMPFILE, credentials.        *)
(***************************************************************************)
EXTENDS Integers, Sequences, FiniteSets, SequencesExt

CONSTANTS
  Mounts,        \* super blocks
  Scenarios,     \* sets of mount options: those asked for in one behaviour
  Handles,       \* Handles[f]: file handles of file system f ("none", "ino32", "other")
  Uuid,          \* Uuid[f]: its uuid
  NoXattrs,      \* file systems without trusted.* xattrs
  ReadOnly,      \* file systems mounted read-only
  RedirectDef,   \* module parameters ovl_redirect_dir_def (as "on" or "off"),
  AlwaysFollow,  \* ovl_redirect_always_follow
  MetacopyDef,   \* ovl_metacopy_def
  HighBits,      \* BITS_PER_LONG - 32
  OVL_MAX_STACK, \* limit on the lower layers
  MaxMounts,     \* bound on the mount calls of a behaviour
  MaxTroubles    \* bound on failures of the kernel services a mount uses

Requests == UNION Scenarios
Name  == STRING \cup {"work", "index"}    \* the provers know no literal to be a STRING
NoDir == <<>>
Dir   == Seq(Name)

\* What ovl_parse_opt and ovl_split_lowerdirs can make of an option string.
Request == [upper : Dir, work : Dir, lowers : Seq(Dir \ {NoDir}) \ {<<>>},
            index : BOOLEAN, nfs_export : BOOLEAN, metacopy : {"default", "on", "off"},
            redirect : {"default", "on", "follow", "off", "nofollow"},
            xino : {"off", "auto", "on"}, rdonly : BOOLEAN]

ASSUME MountAssumption ==
  /\ Requests \subseteq Request
  /\ RedirectDef \in {"on", "off"} /\ AlwaysFollow \in BOOLEAN /\ MetacopyDef \in BOOLEAN
  /\ MaxMounts \in Nat /\ MaxTroubles \in Nat /\ HighBits \in Nat /\ OVL_MAX_STACK \in Nat

\* BUILD_BUG_ON of ovl_get_lower_layers: fsids fit in the high bits, if there are any;
\* and what ilog2 is for the numbers of layers there can be.
ASSUME BitsAssumption ==
  /\ HighBits > 0 => \A n \in 0 .. OVL_MAX_STACK : n < 2^HighBits
  /\ \A n \in 1 .. OVL_MAX_STACK : \E b \in 1 .. n : 2^(b - 1) <= n /\ n < 2^b

VARIABLES
  pc,            \* where ovl_fill_super of a super block stands
  req,           \* the options it was called with
  config,        \* ofs->config
  ofs,           \* the rest of struct ovl_fs, and SB_RDONLY
  traps,         \* the trap inodes of the super block that are still referenced
  todo,          \* layers ovl_check_overlapping_layers has still to check
  result,        \* what the mount call returns
  older,         \* history: the super blocks mounted before this call, and still
  inuse,         \* directories with I_OVL_INUSE
  rootOrigin,    \* "trusted.overlay.origin" of an upper root
  indexUpper,    \* "trusted.overlay.upper" of the index dir in a work base dir
  thread,        \* block_copy_thread
  running,       \* the threads that run
  misstopped,    \* has kthread_stop been called on a thread that is gone?
  offered,       \* the scenario of this behaviour
  calls, troubles

private == <<config, ofs, traps, todo>>
threads == <<thread, running, misstopped>>
disk    == <<rootOrigin, indexUpper>>
vars    == <<pc, req, config, ofs, traps, todo, result, older, inuse, rootOrigin,
             indexUpper, thread, running, misstopped, offered, calls, troubles>>

Fs(d) == Head(d)
Inside(d, e) == IsStrictPrefix(e, d)     \* is d strictly below e?
WorkDir(w)  == Append(w, "work")
IndexDir(w) == Append(w, "index")

\* Every directory that a request names.
Named == (UNION {{r.upper, r.work} \cup ToSet(r.lowers) : r \in Requests}) \ {NoDir}

Upper(m)  == req[m].upper
Base(m)   == req[m].work
Lowers(m) == req[m].lowers

NoConfig == [index |-> FALSE, nfs_export |-> FALSE, metacopy |-> FALSE,
             redirect_dir |-> FALSE, redirect_follow |-> FALSE, xino |-> "off"]

NoOfs == [upper_mnt |-> FALSE, upperdir_locked |-> FALSE, workbasedir |-> FALSE,
          workdir_locked |-> FALSE, workdir |-> FALSE, indexdir |-> FALSE,
          numlower |-> 0, lower_fs |-> <<>>, xino_bits |-> 0, held |-> {},
          rdonly |-> FALSE]

NoRequest == [upper |-> NoDir, work |-> NoDir, lowers |-> <<>>, index |-> FALSE,
              nfs_export |-> FALSE, metacopy |-> "default", redirect |-> "default",
              xino |-> "off", rdonly |-> FALSE]

Init ==
  /\ pc = [m \in Mounts |-> "none"]
  /\ req = [m \in Mounts |-> NoRequest]
  /\ config = [m \in Mounts |-> NoConfig]
  /\ ofs = [m \in Mounts |-> NoOfs]
  /\ traps = [m \in Mounts |-> {}]
  /\ todo = [m \in Mounts |-> <<>>]
  /\ result = [m \in Mounts |-> "0"]
  /\ older = [m \in Mounts |-> {}]
  /\ inuse = {}
  /\ rootOrigin = [d \in Named |-> NoDir] /\ indexUpper = [d \in Named |-> NoDir]
  /\ thread = 0 /\ running = {} /\ misstopped = FALSE
  /\ offered \in Scenarios /\ calls = 0 /\ troubles = 0

-----------------------------------------------------------------------------
(* Mount options. *)

\* ovl_parse_redirect_mode
RedirectDir(mode)    == mode = "on"
RedirectFollow(mode) == mode \in {"on", "follow"} \/ (mode = "off" /\ AlwaysFollow)

\* Mutant: an explicit redirect_dir= does not switch metacopy off.
AlwaysKept(r, clash) == TRUE

\* ovl_parse_opt: metacopy without redirects; an explicit redirect_dir= switches it off,
\* otherwise redirects are switched on.
MetacopyKept(r, clash) == ~clash \/ r.redirect = "default"

\* ovl_parse_opt: a request's effective options, and whether they conflict.
ParseOpt(r) ==
  LET mode     == IF r.redirect = "default" THEN RedirectDef ELSE r.redirect
      follow   == RedirectFollow(mode)
      dir      == RedirectDir(mode) \/ (r.upper = NoDir /\ follow)
      metacopy == IF r.metacopy = "default" THEN MetacopyDef ELSE r.metacopy = "on"
      clash    == metacopy /\ ~dir
      auto     == clash /\ r.redirect = "default"
  IN  [conflict |-> clash /\ r.metacopy = "on" /\ r.redirect # "default",
       config   |-> [index |-> r.index, nfs_export |-> r.nfs_export,
                     metacopy |-> metacopy /\ MetacopyKept(r, clash),
                     redirect_dir |-> dir \/ auto, redirect_follow |-> follow \/ auto,
                     xino |-> r.xino]]

-----------------------------------------------------------------------------
(* Steps of ovl_fill_super. *)

Goto(m, l) == pc' = [pc EXCEPT ![m] = l]

\* goto out_err or out_free_oe
Fail(m, err) ==
  /\ Goto(m, "free")
  /\ result' = [result EXCEPT ![m] = err]

\* Mutant: one thread for all mounts, started by the first of them.
StartOnce ==
  IF running # {} THEN UNCHANGED <<thread, running>>
  ELSE thread' = calls + 1 /\ running' = {calls + 1}

\* ovl_mount: every call starts a thread, and block_copy_thread points to the last one.
StartThread == thread' = calls + 1 /\ running' = running \cup {calls + 1}

\* ovl_mount, then ovl_fill_super up to its first access to a layer.
Mount(m) ==
  /\ pc[m] \in {"none", "failed", "unmounted"} /\ calls < MaxMounts
  /\ calls' = calls + 1
  /\ StartThread
  /\ older' = [older EXCEPT ![m] = {n \in Mounts : pc[n] = "live"}]
  /\ todo' = [todo EXCEPT ![m] = <<>>] /\ traps' = [traps EXCEPT ![m] = {}]
  /\ \E r \in offered :
       LET opt == ParseOpt(r)
           bad == opt.conflict \/ (r.upper # NoDir /\ r.work = NoDir)
       IN  /\ req' = [req EXCEPT ![m] =
                        IF r.upper = NoDir THEN [r EXCEPT !.work = NoDir] ELSE r]
           /\ config' = [config EXCEPT ![m] = opt.config]
           /\ ofs' = [ofs EXCEPT ![m] =
                        [NoOfs EXCEPT !.xino_bits = IF r.xino = "off" THEN 0 ELSE HighBits,
                                      !.rdonly = r.rdonly]]
           /\ IF bad THEN /\ Goto(m, "free")
                          /\ result' = [result EXCEPT ![m] = "EINVAL"]
                     ELSE /\ Goto(m, IF r.upper = NoDir THEN "lower" ELSE "upper")
                          /\ result' = [result EXCEPT ![m] = "0"]
  /\ UNCHANGED <<inuse, disk, misstopped, offered, troubles>>

\* ovl_setup_trap
TrapFree(m, d) == d \notin traps[m]

\* Mutant: a directory in use is never an error.
OnlyWarned(m) == FALSE

\* ovl_report_in_use: is a directory in use an error?
ReportInUse(m) == config[m].index

\* ovl_inuse_trylock: the mark is taken, or found set and only reported.
Trylock(d) == inuse' = inuse \cup {d}

\* ovl_get_upper
GetUpper(m) ==
  LET u == Upper(m)
      locked == u \notin inuse
  IN  /\ pc[m] = "upper"
      /\ \/ /\ Fs(u) \in ReadOnly
            /\ Fail(m, "EINVAL")
            /\ UNCHANGED <<private, inuse>>
         \/ /\ Fs(u) \notin ReadOnly
            /\ traps' = [traps EXCEPT ![m] = @ \cup {u}]
            /\ ofs' = [ofs EXCEPT ![m].upper_mnt = TRUE, ![m].upperdir_locked = locked,
                                  ![m].held = @ \cup {u}]
            /\ Trylock(u)
            /\ IF ~locked /\ ReportInUse(m)
                 THEN Fail(m, "EBUSY")
                 ELSE Goto(m, "work") /\ UNCHANGED result
            /\ UNCHANGED <<config, todo>>
      /\ UNCHANGED <<req, older, disk, threads, offered, calls, troubles>>

\* ovl_workdir_ok
WorkdirOk(w, u) == w # u /\ ~Inside(w, u) /\ ~Inside(u, w)

\* ovl_get_workdir up to ovl_make_workdir
GetWorkdir(m) ==
  LET w == Base(m)
      locked == w \notin inuse
  IN  /\ pc[m] = "work"
      /\ \/ /\ Fs(w) # Fs(Upper(m)) \/ ~WorkdirOk(w, Upper(m))
            /\ Fail(m, "EINVAL")
            /\ UNCHANGED <<private, inuse>>
         \/ /\ Fs(w) = Fs(Upper(m)) /\ WorkdirOk(w, Upper(m))
            /\ Trylock(w)
            /\ IF ~locked /\ ReportInUse(m)
                 THEN /\ Fail(m, "EBUSY")
                      /\ ofs' = [ofs EXCEPT ![m].workbasedir = TRUE]
                      /\ UNCHANGED traps
                 ELSE /\ ofs' = [ofs EXCEPT ![m].workbasedir = TRUE,
                                   ![m].workdir_locked = locked, ![m].held = @ \cup {w}]
                      /\ traps' = [traps EXCEPT ![m] = @ \cup {w}]
                      /\ Goto(m, "makework") /\ UNCHANGED result
            /\ UNCHANGED <<config, todo>>
      /\ UNCHANGED <<req, older, disk, threads, offered, calls, troubles>>

\* A work directory: created and trapped; what upper cannot do is switched off.
MakeWorkdir(m) ==
  LET f == Fs(Upper(m))
      index == config[m].index /\ f \notin NoXattrs /\ Handles[f] # "none"
      wd == WorkDir(Base(m))
  IN  /\ pc[m] = "makework" /\ Goto(m, "lower")
      /\ ofs' = [ofs EXCEPT ![m].workdir = TRUE, ![m].held = @ \cup {wd},
                            ![m].xino_bits = IF Handles[f] = "ino32" THEN @ ELSE 0]
      /\ traps' = [traps EXCEPT ![m] = @ \cup {wd}]
      /\ config' = [config EXCEPT ![m].index = index,
                      ![m].metacopy = @ /\ f \notin NoXattrs,
                      ![m].nfs_export = @ /\ index]
      /\ UNCHANGED <<req, todo, result, older, inuse, disk, threads, offered, calls, troubles>>

\* ovl_workdir_create returned NULL: the mount goes on, read-only.
NoWorkdir(m) ==
  /\ pc[m] = "makework" /\ Goto(m, "lower")
  /\ troubles < MaxTroubles /\ troubles' = troubles + 1
  /\ ofs' = [ofs EXCEPT ![m].rdonly = TRUE]
  /\ UNCHANGED <<req, config, traps, todo, result, older, inuse, disk, threads, offered, calls>>

\* ovl_get_lowerstack up to ovl_get_lower_layers: ovl_lower_dir of every lower layer.
GetLowerstack(m) ==
  LET ls == Lowers(m)
      noUpper == Upper(m) = NoDir
      nfs == config[m].nfs_export /\ ~(noUpper /\ config[m].redirect_follow)
      need == nfs \/ (config[m].index /\ ~noUpper)
      lost == need /\ \E d \in ToSet(ls) : Handles[Fs(d)] = "none"
  IN  /\ pc[m] = "lower"
      /\ IF Len(ls) > OVL_MAX_STACK \/ (noUpper /\ Len(ls) = 1)
           THEN Fail(m, "EINVAL") /\ UNCHANGED <<config, ofs>>
           ELSE /\ Goto(m, "layers") /\ UNCHANGED result
                /\ config' = [config EXCEPT ![m].index = @ /\ ~lost,
                                            ![m].nfs_export = nfs /\ ~lost]
                /\ ofs' = [ofs EXCEPT ![m].xino_bits =
                     IF \A d \in ToSet(ls) : Handles[Fs(d)] = "ino32" THEN @ ELSE 0]
      /\ UNCHANGED <<req, traps, todo, older, inuse, disk, threads, offered, calls, troubles>>

\* ovl_lower_uuid_ok
LowerUuidOk(m, f) ==
  \/ ~config[m].nfs_export /\ ~(config[m].index /\ ofs[m].upper_mnt)
  \/ \A i \in DOMAIN ofs[m].lower_fs : Uuid[ofs[m].lower_fs[i]] # Uuid[f]

\* ovl_get_fsid: is f a file system that gets a new fsid?
NewFsid(m, f) ==
  /\ ~(ofs[m].upper_mnt /\ Fs(Upper(m)) = f)
  /\ f \notin ToSet(ofs[m].lower_fs)

\* The file systems known after ovl_get_fsid.
LowerFs(m, f) == IF NewFsid(m, f) THEN Append(ofs[m].lower_fs, f) ELSE ofs[m].lower_fs

\* The loop of ovl_get_lower_layers: one layer.  A layer in use fails a mount with an
\* index; the trap just taken is then in no layer, and nothing releases it.
GetLowerLayer(m) ==
  LET d == Lowers(m)[ofs[m].numlower + 1]
      ok == NewFsid(m, Fs(d)) => LowerUuidOk(m, Fs(d))
      index == config[m].index /\ ok
      fss == LowerFs(m, Fs(d))
  IN  /\ pc[m] = "layers" /\ ofs[m].numlower < Len(Lowers(m))
      /\ config' = [config EXCEPT ![m].index = index, ![m].nfs_export = @ /\ ok]
      /\ \/ /\ ~TrapFree(m, d)
            /\ Fail(m, "ELOOP")
            /\ ofs' = [ofs EXCEPT ![m].lower_fs = fss]
            /\ UNCHANGED traps
         \/ /\ TrapFree(m, d)
            /\ traps' = [traps EXCEPT ![m] = @ \cup {d}]
            /\ IF d \in inuse /\ index
                 THEN /\ Fail(m, "EBUSY")
                      /\ ofs' = [ofs EXCEPT ![m].lower_fs = fss]
                 ELSE /\ ofs' = [ofs EXCEPT ![m].lower_fs = fss, ![m].numlower = @ + 1,
                                            ![m].held = @ \cup {d}]
                      /\ UNCHANGED <<pc, result>>
      /\ UNCHANGED <<req, todo, older, inuse, disk, threads, offered, calls, troubles>>

\* ilog2(n) + 1, the bits that hold 0 .. n
XinoBits(n) == CHOOSE b \in 1 .. n : 2^(b - 1) <= n /\ n < 2^b

\* ovl_force_readonly
ForceReadonly(m) == ~ofs[m].upper_mnt \/ ~ofs[m].workdir

\* All layers are there: the inode bits for fsids, and is an index dir wanted?
LayersDone(m) ==
  LET n == Len(ofs[m].lower_fs)
      one == n = 0 \/ (n = 1 /\ ~ofs[m].upper_mnt)
      bits == ofs[m].xino_bits
      indexed == ~ForceReadonly(m) /\ config[m].index
  IN  /\ pc[m] = "layers" /\ ofs[m].numlower = Len(Lowers(m))
      /\ ofs' = [ofs EXCEPT
           ![m].xino_bits = IF one THEN 0
                            ELSE IF config[m].xino = "on" /\ bits = 0 THEN XinoBits(n)
                            ELSE bits,
           ![m].rdonly = @ \/ ~ofs[m].upper_mnt]
      /\ config' = [config EXCEPT ![m].xino = IF one THEN "off" ELSE @]
      /\ Goto(m, IF indexed THEN "origin" ELSE "overlap")
      /\ todo' = [todo EXCEPT ![m] =
           (IF ofs[m].upper_mnt THEN <<Upper(m), Base(m)>> ELSE <<>>) \o Lowers(m)]
      /\ UNCHANGED <<req, traps, result, older, inuse, disk, threads, offered, calls, troubles>>

\* Mutant: a handle that is found is not compared.
NeverCompared(found, want) == TRUE

\* ovl_verify_set_fh: the fh found is the one wanted, or there is none (it is then set).
Verified(found, want) == found \in {NoDir, want}

\* ovl_get_indexdir, ovl_verify_origin
VerifyOrigin(m) ==
  LET u == Upper(m)
      low == Lowers(m)[1]
  IN  /\ pc[m] = "origin"
      /\ \/ /\ Verified(rootOrigin[u], low)
            /\ rootOrigin' = [rootOrigin EXCEPT ![u] = IF @ = NoDir THEN low ELSE @]
            /\ Goto(m, "index") /\ UNCHANGED result
         \/ /\ ~Verified(rootOrigin[u], low)
            /\ Fail(m, "ESTALE") /\ UNCHANGED rootOrigin
      /\ UNCHANGED <<req, private, older, inuse, indexUpper, threads, offered, calls, troubles>>

\* ovl_get_indexdir: the index dir is created if it is not there, trapped, and must
\* belong to this upper dir.
GetIndexdir(m) ==
  LET u == Upper(m)
      w == Base(m)
  IN  /\ pc[m] = "index"
      /\ traps' = [traps EXCEPT ![m] = @ \cup {IndexDir(w)}]
      /\ ofs' = [ofs EXCEPT ![m].indexdir = TRUE, ![m].held = @ \cup {IndexDir(w)}]
      /\ IF ~TrapFree(m, IndexDir(w))
           THEN Fail(m, "ELOOP") /\ UNCHANGED indexUpper
           ELSE \/ /\ Verified(indexUpper[w], u)
                   /\ indexUpper' = [indexUpper EXCEPT ![w] = IF @ = NoDir THEN u ELSE @]
                   /\ Goto(m, "overlap") /\ UNCHANGED result
                \/ /\ ~Verified(indexUpper[w], u)
                   /\ Fail(m, "ESTALE") /\ UNCHANGED indexUpper
      /\ UNCHANGED <<req, config, todo, older, inuse, rootOrigin, threads, offered, calls, troubles>>

\* ovl_workdir_create returned NULL for the index dir: read-only, without a work dir.
NoIndexdir(m) ==
  /\ pc[m] = "index" /\ Goto(m, "overlap")
  /\ troubles < MaxTroubles /\ troubles' = troubles + 1
  /\ ofs' = [ofs EXCEPT ![m].workdir = FALSE, ![m].rdonly = TRUE]
  /\ UNCHANGED <<req, config, traps, todo, result, older, inuse, disk, threads, offered, calls>>

\* Mutant: only the parent is looked at.
ParentOnly(d) == IF Len(d) = 1 THEN {} ELSE {Front(d)}

\* ovl_check_layer: the strict ancestors of a layer, up to the root of its file system.
Ancestors(d) == {SubSeq(d, 1, n) : n \in 1 .. Len(d) - 1}

\* The walk stops at the nearest ancestor that is a trap, or that is in use when the
\* mount has an index; without one a directory in use is only warned about.
CheckLayer(m) ==
  LET d == Head(todo[m])
      trapped == {e \in Ancestors(d) : ~TrapFree(m, e)}
      busy == {e \in Ancestors(d) : e \in inuse /\ TrapFree(m, e) /\ ReportInUse(m)}
      stops == trapped \cup busy
      first == CHOOSE e \in stops : \A x \in stops : Len(x) <= Len(e)
  IN  /\ pc[m] = "overlap" /\ todo[m] # <<>>
      /\ IF stops # {}
           THEN Fail(m, IF first \in trapped THEN "ELOOP" ELSE "EBUSY") /\ UNCHANGED todo
           ELSE todo' = [todo EXCEPT ![m] = Tail(@)] /\ UNCHANGED <<pc, result>>
      /\ UNCHANGED <<req, config, ofs, traps, older, inuse, disk, threads, offered, calls, troubles>>

\* The end of ovl_fill_super: options without their support are off; the root dentry.
Finish(m) ==
  LET nfs == config[m].nfs_export /\ (ofs[m].indexdir \/ ~ofs[m].upper_mnt)
  IN  /\ pc[m] = "overlap" /\ todo[m] = <<>> /\ Goto(m, "live")
      /\ config' = [config EXCEPT ![m].index = @ /\ ofs[m].indexdir,
                                  ![m].nfs_export = nfs /\ ~config[m].metacopy]
      /\ UNCHANGED <<req, ofs, traps, todo, result, older, inuse, disk, threads, offered, calls,
                     troubles>>

\* A kernel service a step calls fails (a path is gone, clone_private_mount,
\* get_anon_bdev, mnt_want_write, an allocation): what the step had is in ofs.
StepFails(m) ==
  /\ \/ pc[m] \in {"upper", "work", "makework", "lower", "layers", "origin", "index"}
     \/ pc[m] = "overlap" /\ todo[m] = <<>>
  /\ troubles < MaxTroubles /\ troubles' = troubles + 1
  /\ Fail(m, "EIO")
  /\ UNCHANGED <<req, private, older, inuse, disk, threads, offered, calls>>

-----------------------------------------------------------------------------
(* Unmount, ovl_free_fs, remount. *)

\* Mutant: the mark is taken off by a mount that did not set it.
UnlockAnyway(m) == IF ofs[m].workbasedir THEN {Base(m)} ELSE {}

\* The marks that ovl_free_fs takes off.
UnlockWork(m) == IF ofs[m].workdir_locked THEN {Base(m)} ELSE {}
UnlockUpper(m) == IF ofs[m].upperdir_locked THEN {Upper(m)} ELSE {}

\* Mutant: the index trap is forgotten.
NoIndexTrap(m) == ofs[m].held \ {IndexDir(Base(m))}

\* The trap inodes that ovl_free_fs puts.
HeldTraps(m) == ofs[m].held

\* ovl_put_super: the thread that block_copy_thread points to is stopped.
PutSuper(m) ==
  /\ pc[m] = "live" /\ Goto(m, "free")
  /\ running' = running \ {thread}
  /\ misstopped' = (misstopped \/ thread \notin running)
  /\ older' = [n \in Mounts |-> older[n] \ {m}]
  /\ result' = [result EXCEPT ![m] = "unmounted"]
  /\ UNCHANGED <<req, private, inuse, disk, thread, offered, calls, troubles>>

\* ovl_free_fs: the traps that ofs holds, then the mark on the work base directory.
FreeWork(m) ==
  /\ pc[m] = "free" /\ Goto(m, "free_upper")
  /\ traps' = [traps EXCEPT ![m] = @ \ HeldTraps(m)]
  /\ inuse' = inuse \ UnlockWork(m)
  /\ ofs' = [ofs EXCEPT ![m].held = {}, ![m].workdir_locked = FALSE]
  /\ UNCHANGED <<req, config, todo, result, older, disk, threads, offered, calls, troubles>>

\* ovl_free_fs: the mark on the upper directory, the layers and ofs itself.
FreeUpper(m) ==
  /\ pc[m] = "free_upper"
  /\ Goto(m, IF result[m] = "unmounted" THEN "unmounted" ELSE "failed")
  /\ inuse' = inuse \ UnlockUpper(m)
  /\ ofs' = [ofs EXCEPT ![m] = NoOfs] /\ config' = [config EXCEPT ![m] = NoConfig]
  /\ todo' = [todo EXCEPT ![m] = <<>>] /\ older' = [older EXCEPT ![m] = {}]
  /\ UNCHANGED <<req, traps, result, disk, threads, offered, calls, troubles>>

\* ovl_remount: EROFS, or the super block takes the flag.
Remount(m) ==
  /\ pc[m] = "live"
  /\ \E ro \in BOOLEAN :
       /\ ro \/ ~ForceReadonly(m)
       /\ ofs' = [ofs EXCEPT ![m].rdonly = ro]
  /\ UNCHANGED <<pc, req, config, traps, todo, result, older, inuse, disk, threads, offered, calls,
                 troubles>>

Next == \E m \in Mounts :
  \/ Mount(m) \/ GetUpper(m) \/ GetWorkdir(m) \/ MakeWorkdir(m) \/ NoWorkdir(m)
  \/ GetLowerstack(m) \/ GetLowerLayer(m) \/ LayersDone(m) \/ VerifyOrigin(m)
  \/ GetIndexdir(m) \/ NoIndexdir(m) \/ CheckLayer(m) \/ Finish(m) \/ StepFails(m)
  \/ PutSuper(m) \/ FreeWork(m) \/ FreeUpper(m) \/ Remount(m)

Spec == Init /\ [][Next]_vars

-----------------------------------------------------------------------------
(* Properties. *)

Live(m) == pc[m] = "live"

Roots(m) == (IF ofs[m].upper_mnt THEN <<Upper(m), Base(m)>> ELSE <<>>) \o Lowers(m)

\* The directories that hold a mark of super block m.
Marked(m) == (IF ofs[m].upperdir_locked THEN {Upper(m)} ELSE {})
               \cup (IF ofs[m].workdir_locked THEN {Base(m)} ELSE {})

\* Types.
TypeOK ==
  /\ pc \in [Mounts -> {"none", "upper", "work", "makework", "lower", "layers", "origin",
                        "index", "overlap", "live", "free", "free_upper", "failed",
                        "unmounted"}]
  /\ \A m \in Mounts :
       /\ req[m] \in Requests \cup {NoRequest} \cup {[r EXCEPT !.work = NoDir] : r \in Requests}
       /\ \A f \in {"index", "nfs_export", "metacopy", "redirect_dir", "redirect_follow"} :
            config[m][f] \in BOOLEAN
       /\ ofs[m].numlower \in 0 .. Len(Lowers(m))
       /\ ofs[m].held \subseteq traps[m]
       /\ older[m] \subseteq Mounts \ {m}
  /\ inuse \subseteq Named
  /\ \A d \in Named : rootOrigin[d] \in Named \cup {NoDir} /\ indexUpper[d] \in Named \cup {NoDir}
  /\ thread \in 0 .. MaxMounts /\ running \subseteq 1 .. MaxMounts
  /\ misstopped \in BOOLEAN

\* Every I_OVL_INUSE mark belongs to exactly one super block that will take it off, and no
\* super block takes off another's: ovl_inuse_trylock, the upperdir_locked and
\* workdir_locked flags and the unwinding of ovl_free_fs agree on every error path, so the
\* WARN_ON of ovl_inuse_unlock is never met and no directory stays busy after unmount.
\* (And every variable has its type.)
InUseMatched ==
  /\ TypeOK
  /\ inuse = UNION {Marked(m) : m \in Mounts}
  /\ \A m, n \in Mounts : m # n => Marked(m) \cap Marked(n) = {}
  /\ \A m \in Mounts :
       ofs[m].upperdir_locked /\ ofs[m].workdir_locked => Upper(m) # Base(m)

\* ovl_free_fs puts every trap inode of the super block, whichever step failed.  One is
\* left behind: ovl_get_lower_layers returns EBUSY for a lower layer in use after the
\* layer's trap was set up and before it is in lower_layers.
TrapsReleased ==
  \A m \in Mounts :
    pc[m] \in {"failed", "unmounted"} /\ traps[m] # {} =>
      /\ result[m] = "EBUSY" /\ traps[m] \subseteq ToSet(Lowers(m))
      /\ Cardinality(traps[m]) = 1

\* Two mounts that both asked for index=on never write to the same upper or work
\* directory, however their ovl_fill_super calls interleave (ovl_get_upper,
\* ovl_get_workdir, ovl_report_in_use).
ExclusiveUpper ==
  \A m, n \in Mounts :
    m # n /\ Live(m) /\ Live(n) /\ req[m].index /\ req[n].index =>
      {Upper(m), Base(m)} \cap {Upper(n), Base(n)} \subseteq {NoDir}

\* A mount that keeps its index has no layer in, or equal to, a directory that was marked
\* by a mount already there when the call was made and there still: the checks of
\* ovl_get_lower_layers and ovl_check_layer miss none of its layers.
NoNestedUse ==
  \A m \in Mounts : Live(m) /\ config[m].index =>
    \A n \in older[m], d \in ToSet(Roots(m)) : \A e \in Marked(n) : d # e /\ ~Inside(d, e)

\* No two of the roots of a mounted overlay (upper, work base, lower layers) are the same
\* directory or one below the other, and no lower layer is its work or index directory:
\* the traps and the walk of ovl_check_overlapping_layers exclude it together.
NoOverlap ==
  \A m \in Mounts : Live(m) =>
    \A i, j \in DOMAIN Roots(m) : i # j =>
      Roots(m)[i] # Roots(m)[j] /\ ~Inside(Roots(m)[i], Roots(m)[j])

\* A file system has one fsid (ovl_get_fsid); with xino every one of them, 0 for upper to
\* numlowerfs, fits in the bits reserved for it (ovl_get_lower_layers), and with xino=on
\* and several file systems there are such bits.
XinoFits(m) ==
  /\ IsInjective(ofs[m].lower_fs)
  /\ ofs[m].xino_bits > 0 => Len(ofs[m].lower_fs) < 2^ofs[m].xino_bits
  /\ config[m].xino = "on" => ofs[m].xino_bits > 0

\* The options of a mounted overlay have the support they depend on, whatever was asked
\* for and in whichever order the fallbacks of super.c switched them off: a writable
\* overlay has a work directory (after a remount too), an index an index directory and
\* file handles and distinct uuids on all layers, NFS export an index if there is an upper
\* and no followed redirects if there is none, metacopy redirects and no NFS export, xino
\* enough bits.
ConfigSound ==
  \A m \in Mounts : Live(m) =>
    LET c == config[m]
        fss == {Fs(d) : d \in ToSet(Lowers(m))}
        fh == \A f \in fss : Handles[f] # "none"
        apart == \A f, g \in ToSet(ofs[m].lower_fs) : f # g => Uuid[f] # Uuid[g]
    IN  /\ ~ofs[m].rdonly => ofs[m].upper_mnt /\ ofs[m].workdir
        /\ c.index => /\ ofs[m].indexdir /\ ofs[m].workdir /\ fh /\ apart
                      /\ Fs(Upper(m)) \notin NoXattrs /\ Handles[Fs(Upper(m))] # "none"
        /\ c.nfs_export => /\ fh /\ apart /\ ~c.metacopy
                           /\ IF ofs[m].upper_mnt THEN c.index ELSE ~c.redirect_follow
        /\ c.metacopy => c.redirect_dir
        /\ XinoFits(m)
        /\ c.metacopy /\ ~ofs[m].rdonly => Fs(Upper(m)) \notin NoXattrs

\* An index directory serves one upper directory, and an indexed upper directory one lower
\* root, over any sequence of mounts: the marks that ovl_get_indexdir verifies or sets
\* still name the layers of every mount that uses the index.
IndexBelongs ==
  \A m \in Mounts : Live(m) /\ config[m].index =>
    indexUpper[Base(m)] = Upper(m) /\ rootOrigin[Upper(m)] = Lowers(m)[1]

\* The mounts that ovl_put_super has not been called for and that have not failed.
Served == {m \in Mounts : pc[m] \notin {"none", "failed", "unmounted", "free", "free_upper"}}

\* No mount is left without a copy thread: however mounts overlap and fail, and although the
\* one block_copy_thread of the module is overwritten by every ovl_mount and stopped by every
\* ovl_put_super, each mount in progress or live has a thread of its own that still runs.
\* (Until kthread_stop is called on a thread that is gone, by the second of two unmounts in
\* a row, after which nothing is certain.  Nothing is said of threads left over: that of a
\* failed mount is never stopped.)
ThreadServes == ~misstopped => ExistsInjection(Served, running)
=============================================================================
