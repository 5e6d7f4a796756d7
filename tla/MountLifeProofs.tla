--------------------------- MODULE MountLifeProofs ---------------------------
(***************************************************************************)
(* Proofs about MountLife, for any number of super blocks, any requests,   *)
(* any file systems and any number of failures.                            *)
(***************************************************************************)
EXTENDS MountLifeInv, SequenceTheorems, FiniteSetTheorems, TLAPS

\* One step of the mount, the unmount or the remount of one super block.
Step(m) ==
  \/ Mount(m) \/ GetUpper(m) \/ GetWorkdir(m) \/ MakeWorkdir(m) \/ NoWorkdir(m)
  \/ GetLowerstack(m) \/ GetLowerLayer(m) \/ LayersDone(m) \/ VerifyOrigin(m)
  \/ GetIndexdir(m) \/ NoIndexdir(m) \/ CheckLayer(m) \/ Finish(m) \/ StepFails(m)
  \/ PutSuper(m) \/ FreeWork(m) \/ FreeUpper(m) \/ Remount(m)

-----------------------------------------------------------------------------
(* What a step of one super block leaves alone. *)

Same(n) == /\ pc'[n] = pc[n] /\ req'[n] = req[n] /\ config'[n] = config[n]
           /\ ofs'[n] = ofs[n] /\ traps'[n] = traps[n] /\ todo'[n] = todo[n]
           /\ result'[n] = result[n] /\ older'[n] \subseteq older[n]

\* The other super blocks.
LEMMA OthersSame ==
  ASSUME TypeInv, NEW m \in Mounts, Step(m), NEW n \in Mounts, n # m
  PROVE  Same(n)
PROOF
  <1> USE DEF TypeInv, TypeOK, Same, Goto, private, threads, disk
  <1>1. CASE Mount(m)
    BY <1>1 DEF Mount, Fail
  <1>2. CASE GetUpper(m)
    BY <1>2 DEF GetUpper, Fail
  <1>3. CASE GetWorkdir(m)
    BY <1>3 DEF GetWorkdir, Fail
  <1>4. CASE MakeWorkdir(m)
    BY <1>4 DEF MakeWorkdir, Fail
  <1>5. CASE NoWorkdir(m)
    BY <1>5 DEF NoWorkdir, Fail
  <1>6. CASE GetLowerstack(m)
    BY <1>6 DEF GetLowerstack, Fail
  <1>7. CASE GetLowerLayer(m)
    BY <1>7 DEF GetLowerLayer, Fail
  <1>8. CASE LayersDone(m)
    BY <1>8 DEF LayersDone, Fail
  <1>9. CASE VerifyOrigin(m)
    BY <1>9 DEF VerifyOrigin, Fail
  <1>10. CASE GetIndexdir(m)
    BY <1>10 DEF GetIndexdir, Fail
  <1>11. CASE NoIndexdir(m)
    BY <1>11 DEF NoIndexdir, Fail
  <1>12. CASE CheckLayer(m)
    BY <1>12 DEF CheckLayer, Fail
  <1>13. CASE Finish(m)
    BY <1>13 DEF Finish, Fail
  <1>14. CASE StepFails(m)
    BY <1>14 DEF StepFails, Fail
  <1>15. CASE PutSuper(m)
    BY <1>15 DEF PutSuper, Fail
  <1>16. CASE FreeWork(m)
    BY <1>16 DEF FreeWork, Fail
  <1>17. CASE FreeUpper(m)
    BY <1>17 DEF FreeUpper, Fail
  <1>18. CASE Remount(m)
    BY <1>18 DEF Remount, Fail
  <1>q. QED
    BY <1>1, <1>2, <1>3, <1>4, <1>5, <1>6, <1>7, <1>8, <1>9, <1>10, <1>11, <1>12, <1>13, <1>14, <1>15, <1>16, <1>17, <1>18
       DEF Step

-----------------------------------------------------------------------------
(* What each step does to its own super block, field by field. *)

\* A mount call that gives up with nothing done.
GivesUp(m) ==
  /\ pc[m] \in Up \ {"live"} /\ pc'[m] = "free"
  /\ UNCHANGED <<req, config, ofs, traps, todo, older, inuse, rootOrigin, indexUpper>>

\* The fields of ofs that the steps named on the right do not touch.
KeepsLocks(m)  == /\ ofs'[m].upper_mnt = ofs[m].upper_mnt
                  /\ ofs'[m].upperdir_locked = ofs[m].upperdir_locked
                  /\ ofs'[m].workdir_locked = ofs[m].workdir_locked
KeepsLayers(m) == /\ ofs'[m].numlower = ofs[m].numlower
                  /\ ofs'[m].lower_fs = ofs[m].lower_fs
KeepsDirs(m)   == /\ ofs'[m].workdir = ofs[m].workdir
                  /\ ofs'[m].indexdir = ofs[m].indexdir
                  /\ ofs'[m].rdonly = ofs[m].rdonly

LEMMA MountFacts ==
  ASSUME TypeInv, NEW m \in Mounts, Mount(m)
  PROVE  \E r \in Requests :
           /\ req'[m] = IF r.upper = NoDir THEN [r EXCEPT !.work = NoDir] ELSE r
           /\ config'[m] = ParseOpt(r).config
           /\ ofs'[m] = [NoOfs EXCEPT !.xino_bits = IF r.xino = "off" THEN 0 ELSE HighBits,
                                      !.rdonly = r.rdonly]
           /\ traps'[m] = {} /\ todo'[m] = <<>> /\ older'[m] = {n \in Mounts : pc[n] = "live"}
           /\ pc[m] \in Idle
           /\ \/ pc'[m] = "free"
              \/ pc'[m] = "lower" /\ r.upper = NoDir
              \/ pc'[m] = "upper" /\ r.upper # NoDir /\ r.work # NoDir
           /\ thread' = calls + 1 /\ running' = running \cup {calls + 1}
           /\ calls < MaxMounts /\ calls' = calls + 1
           /\ UNCHANGED <<inuse, rootOrigin, indexUpper, misstopped>>
PROOF
  <1>1. PICK r \in offered :
          LET opt == ParseOpt(r)
              bad == opt.conflict \/ (r.upper # NoDir /\ r.work = NoDir)
          IN  /\ req' = [req EXCEPT ![m] =
                           IF r.upper = NoDir THEN [r EXCEPT !.work = NoDir] ELSE r]
              /\ config' = [config EXCEPT ![m] = opt.config]
              /\ ofs' = [ofs EXCEPT ![m] =
                           [NoOfs EXCEPT !.xino_bits = IF r.xino = "off" THEN 0 ELSE HighBits,
                                         !.rdonly = r.rdonly]]
              /\ IF bad THEN /\ Goto(m, "free")
                             /\ result' = [result EXCEPT ![m] = "EINVAL"]
                        ELSE /\ Goto(m, IF r.upper = NoDir THEN "lower" ELSE "upper")
                             /\ result' = [result EXCEPT ![m] = "0"]
    BY DEF Mount
  <1> DEFINE bad == ParseOpt(r).conflict \/ (r.upper # NoDir /\ r.work = NoDir)
  <1>2. r \in Requests
    BY DEF TypeInv, Requests
  <1>3. /\ req'[m] = IF r.upper = NoDir THEN [r EXCEPT !.work = NoDir] ELSE r
        /\ config'[m] = ParseOpt(r).config
        /\ ofs'[m] = [NoOfs EXCEPT !.xino_bits = IF r.xino = "off" THEN 0 ELSE HighBits,
                                   !.rdonly = r.rdonly]
    BY <1>1 DEF TypeInv
  <1>4. /\ traps'[m] = {} /\ todo'[m] = <<>> /\ older'[m] = {n \in Mounts : pc[n] = "live"}
        /\ pc[m] \in Idle
    BY DEF Mount, Idle, TypeInv
  <1>5. bad => pc'[m] = "free"
    BY <1>1 DEF Goto, TypeInv, TypeOK
  <1>6. ~bad => pc'[m] = IF r.upper = NoDir THEN "lower" ELSE "upper"
    BY <1>1 DEF Goto, TypeInv, TypeOK
  <1>9. /\ thread' = calls + 1 /\ running' = running \cup {calls + 1}
        /\ calls < MaxMounts /\ calls' = calls + 1
        /\ UNCHANGED <<inuse, rootOrigin, indexUpper, misstopped>>
    BY DEF Mount, StartThread, disk
  <1>q. QED
    BY <1>2, <1>3, <1>4, <1>5, <1>6, <1>9

LEMMA GetUpperFacts ==
  ASSUME TypeInv, NEW m \in Mounts, GetUpper(m), ~GivesUp(m)
  PROVE  /\ pc[m] = "upper"
         /\ \/ pc'[m] = "free"
            \/ /\ pc'[m] = "work" /\ UNCHANGED result
               /\ Upper(m) \notin inuse \/ ~config[m].index
         /\ traps'[m] = traps[m] \cup {Upper(m)}
         /\ ofs'[m].held = ofs[m].held \cup {Upper(m)}
         /\ ofs'[m].upper_mnt /\ (ofs'[m].upperdir_locked <=> Upper(m) \notin inuse)
         /\ ofs'[m].workdir_locked = ofs[m].workdir_locked
         /\ ofs'[m].xino_bits = ofs[m].xino_bits
         /\ KeepsLayers(m) /\ KeepsDirs(m)
         /\ inuse' = inuse \cup {Upper(m)}
         /\ UNCHANGED <<req, config, todo, older, rootOrigin, indexUpper>>
PROOF
  <1>1. pc[m] = "upper"
    BY DEF GetUpper
  <1>2. ~(Fs(Upper(m)) \in ReadOnly /\ Fail(m, "EINVAL") /\ UNCHANGED <<private, inuse>>)
    BY <1>1 DEF GetUpper, GivesUp, Fail, Goto, private, disk, TypeInv, TypeOK, Up, Uppered,
       Worked, Made, Layered, Indexing, Checking
  <1> DEFINE locked == Upper(m) \notin inuse
  <1>3. /\ traps' = [traps EXCEPT ![m] = @ \cup {Upper(m)}]
        /\ ofs' = [ofs EXCEPT ![m].upper_mnt = TRUE, ![m].upperdir_locked = locked,
                              ![m].held = @ \cup {Upper(m)}]
        /\ inuse' = inuse \cup {Upper(m)}
        /\ UNCHANGED <<req, config, todo, older, rootOrigin, indexUpper>>
    BY <1>2 DEF GetUpper, Trylock, disk
  <1>4. IF ~locked /\ config[m].index
          THEN Fail(m, "EBUSY")
          ELSE Goto(m, "work") /\ UNCHANGED result
    BY <1>2, Zenon DEF GetUpper, ReportInUse
  <1>5. \/ pc'[m] = "free"
        \/ /\ pc'[m] = "work" /\ UNCHANGED result
           /\ locked \/ ~config[m].index
    BY <1>4 DEF Fail, Goto, TypeInv, TypeOK
  <1>6. \A x \in BOOLEAN :
          ofs' = [ofs EXCEPT ![m].upper_mnt = TRUE, ![m].upperdir_locked = x,
                             ![m].held = @ \cup {Upper(m)}]
          => /\ ofs'[m].held = ofs[m].held \cup {Upper(m)}
             /\ ofs'[m].upper_mnt = TRUE /\ ofs'[m].upperdir_locked = x
             /\ ofs'[m].workdir_locked = ofs[m].workdir_locked
             /\ ofs'[m].xino_bits = ofs[m].xino_bits
             /\ KeepsLayers(m) /\ KeepsDirs(m)
    BY DEF TypeInv, Ofs, KeepsLayers, KeepsDirs
  <1>7. locked \in BOOLEAN
    OBVIOUS
  <1> HIDE DEF locked
  <1>8. /\ ofs'[m].held = ofs[m].held \cup {Upper(m)}
        /\ ofs'[m].upper_mnt = TRUE /\ ofs'[m].upperdir_locked = locked
        /\ ofs'[m].workdir_locked = ofs[m].workdir_locked
        /\ ofs'[m].xino_bits = ofs[m].xino_bits
        /\ KeepsLayers(m) /\ KeepsDirs(m)
    BY <1>3, <1>6, <1>7, Zenon
  <1>9. traps'[m] = traps[m] \cup {Upper(m)}
    BY <1>3 DEF TypeInv
  <1>q. QED
    BY <1>1, <1>3, <1>5, <1>8, <1>9 DEF locked

LEMMA GetWorkdirFacts ==
  ASSUME TypeInv, NEW m \in Mounts, GetWorkdir(m), ~GivesUp(m)
  PROVE  /\ pc[m] = "work" /\ Upper(m) # Base(m)
         /\ \/ /\ pc'[m] = "free"
               /\ Base(m) \in inuse /\ inuse' = inuse /\ traps'[m] = traps[m]
               /\ ofs'[m].held = ofs[m].held /\ KeepsLocks(m)
            \/ /\ pc'[m] = "makework" /\ UNCHANGED result
               /\ Base(m) \notin inuse \/ ~config[m].index
               /\ inuse' = inuse \cup {Base(m)}
               /\ traps'[m] = traps[m] \cup {Base(m)}
               /\ ofs'[m].held = ofs[m].held \cup {Base(m)}
               /\ ofs'[m].upper_mnt = ofs[m].upper_mnt
               /\ ofs'[m].upperdir_locked = ofs[m].upperdir_locked
               /\ ofs'[m].workdir_locked <=> Base(m) \notin inuse
         /\ ofs'[m].xino_bits = ofs[m].xino_bits
         /\ KeepsLayers(m) /\ KeepsDirs(m)
         /\ UNCHANGED <<req, config, todo, older, rootOrigin, indexUpper>>
PROOF
  <1> DEFINE locked == Base(m) \notin inuse
  <1>1. pc[m] = "work"
    BY DEF GetWorkdir
  <1>2. ~(Fail(m, "EINVAL") /\ UNCHANGED <<private, inuse>>)
    BY <1>1 DEF GetWorkdir, GivesUp, Fail, Goto, private, disk, TypeInv, TypeOK, Up, Uppered,
       Worked, Made, Layered, Indexing, Checking
  <1>3. /\ WorkdirOk(Base(m), Upper(m)) /\ inuse' = inuse \cup {Base(m)}
        /\ UNCHANGED <<req, config, todo, older, rootOrigin, indexUpper>>
    BY <1>2 DEF GetWorkdir, Trylock, disk
  <1>4. \/ /\ ~locked /\ Fail(m, "EBUSY")
           /\ ofs' = [ofs EXCEPT ![m].workbasedir = TRUE]
           /\ UNCHANGED traps
        \/ /\ locked \/ ~config[m].index
           /\ ofs' = [ofs EXCEPT ![m].workbasedir = TRUE,
                        ![m].workdir_locked = locked, ![m].held = @ \cup {Base(m)}]
           /\ traps' = [traps EXCEPT ![m] = @ \cup {Base(m)}]
           /\ Goto(m, "makework") /\ UNCHANGED result
    BY <1>2, Zenon DEF GetWorkdir, ReportInUse
  <1>5. CASE /\ ~locked /\ Fail(m, "EBUSY")
             /\ ofs' = [ofs EXCEPT ![m].workbasedir = TRUE]
             /\ UNCHANGED traps
    <2>1. pc'[m] = "free"
      BY <1>5 DEF Fail, Goto, TypeInv, TypeOK
    <2>2. /\ ofs'[m].held = ofs[m].held /\ KeepsLocks(m) /\ KeepsLayers(m) /\ KeepsDirs(m)
          /\ ofs'[m].xino_bits = ofs[m].xino_bits
      BY <1>5 DEF TypeInv, Ofs, KeepsLocks, KeepsLayers, KeepsDirs
    <2>q. QED
      BY <1>1, <1>3, <1>5, <2>1, <2>2 DEF WorkdirOk
  <1>6. CASE /\ locked \/ ~config[m].index
             /\ ofs' = [ofs EXCEPT ![m].workbasedir = TRUE,
                          ![m].workdir_locked = locked, ![m].held = @ \cup {Base(m)}]
             /\ traps' = [traps EXCEPT ![m] = @ \cup {Base(m)}]
             /\ Goto(m, "makework") /\ UNCHANGED result
    <2>1. pc'[m] = "makework" /\ traps'[m] = traps[m] \cup {Base(m)}
      BY <1>6 DEF Goto, TypeInv, TypeOK
    <2>2. \A x \in BOOLEAN :
            ofs' = [ofs EXCEPT ![m].workbasedir = TRUE, ![m].workdir_locked = x,
                               ![m].held = @ \cup {Base(m)}]
            => /\ ofs'[m].held = ofs[m].held \cup {Base(m)}
               /\ ofs'[m].upper_mnt = ofs[m].upper_mnt
               /\ ofs'[m].upperdir_locked = ofs[m].upperdir_locked
               /\ ofs'[m].workdir_locked = x /\ ofs'[m].xino_bits = ofs[m].xino_bits
               /\ KeepsLayers(m) /\ KeepsDirs(m)
      BY DEF TypeInv, Ofs, KeepsLayers, KeepsDirs
    <2>3. locked \in BOOLEAN
      OBVIOUS
    <2> HIDE DEF locked
    <2>4. /\ ofs'[m].held = ofs[m].held \cup {Base(m)}
          /\ ofs'[m].upper_mnt = ofs[m].upper_mnt
          /\ ofs'[m].upperdir_locked = ofs[m].upperdir_locked
          /\ ofs'[m].workdir_locked = locked /\ ofs'[m].xino_bits = ofs[m].xino_bits
          /\ KeepsLayers(m) /\ KeepsDirs(m)
      BY <1>6, <2>2, <2>3, Zenon
    <2>q. QED
      BY <1>1, <1>3, <1>6, <2>1, <2>4 DEF WorkdirOk, locked
  <1>q. QED
    BY <1>4, <1>5, <1>6

LEMMA MakeWorkdirFacts ==
  ASSUME TypeInv, NEW m \in Mounts, MakeWorkdir(m)
  PROVE  /\ pc[m] = "makework" /\ pc'[m] = "lower"
         /\ traps'[m] = traps[m] \cup {WorkDir(Base(m))}
         /\ ofs'[m].held = ofs[m].held \cup {WorkDir(Base(m))}
         /\ ofs'[m].workdir /\ ofs'[m].indexdir = ofs[m].indexdir
         /\ ofs'[m].rdonly = ofs[m].rdonly
         /\ ofs'[m].xino_bits \in {0, ofs[m].xino_bits}
         /\ KeepsLocks(m) /\ KeepsLayers(m)
         /\ config'[m].index => config[m].index /\ Fs(Upper(m)) \notin NoXattrs
                                                /\ Handles[Fs(Upper(m))] # "none"
         /\ config'[m].metacopy => config[m].metacopy /\ Fs(Upper(m)) \notin NoXattrs
         /\ config'[m].nfs_export => config[m].nfs_export
         /\ config'[m].redirect_dir = config[m].redirect_dir
         /\ config'[m].redirect_follow = config[m].redirect_follow
         /\ config'[m].xino = config[m].xino
         /\ UNCHANGED <<req, todo, result, older, inuse, rootOrigin, indexUpper>>
PROOF
  <1> DEFINE f == Fs(Upper(m))
             index == config[m].index /\ f \notin NoXattrs /\ Handles[f] # "none"
             meta  == config[m].metacopy /\ f \notin NoXattrs
             nfs   == config[m].nfs_export /\ index
             bits  == IF Handles[f] = "ino32" THEN ofs[m].xino_bits ELSE 0
  <1>1. /\ pc[m] = "makework" /\ pc'[m] = "lower"
        /\ traps'[m] = traps[m] \cup {WorkDir(Base(m))}
        /\ UNCHANGED <<req, todo, result, older, inuse, rootOrigin, indexUpper>>
    BY DEF MakeWorkdir, Goto, disk, threads, TypeInv, TypeOK
  <1>2. /\ ofs'[m].held = ofs[m].held \cup {WorkDir(Base(m))}
        /\ ofs'[m].workdir = TRUE /\ ofs'[m].indexdir = ofs[m].indexdir
        /\ ofs'[m].rdonly = ofs[m].rdonly
        /\ ofs'[m].xino_bits \in {0, ofs[m].xino_bits}
        /\ KeepsLocks(m) /\ KeepsLayers(m)
    BY DEF MakeWorkdir, TypeInv, Ofs, KeepsLocks, KeepsLayers
  <1>3. config' = [config EXCEPT ![m].index = index, ![m].metacopy = meta, ![m].nfs_export = nfs]
    BY DEF MakeWorkdir
  <1>4. \A x, y, z :
          config' = [config EXCEPT ![m].index = x, ![m].metacopy = y, ![m].nfs_export = z]
          => /\ config'[m].index = x /\ config'[m].metacopy = y /\ config'[m].nfs_export = z
             /\ config'[m].redirect_dir = config[m].redirect_dir
             /\ config'[m].redirect_follow = config[m].redirect_follow
             /\ config'[m].xino = config[m].xino
    BY DEF TypeInv, Config
  <1> HIDE DEF index, meta, nfs
  <1>5. /\ config'[m].index = index /\ config'[m].metacopy = meta /\ config'[m].nfs_export = nfs
        /\ config'[m].redirect_dir = config[m].redirect_dir
        /\ config'[m].redirect_follow = config[m].redirect_follow
        /\ config'[m].xino = config[m].xino
    BY <1>3, <1>4, Zenon
  <1>6. /\ config'[m].index => config[m].index /\ f \notin NoXattrs /\ Handles[f] # "none"
        /\ config'[m].metacopy => config[m].metacopy /\ f \notin NoXattrs
        /\ config'[m].nfs_export => config[m].nfs_export
    BY <1>5, Zenon DEF index, meta, nfs
  <1>q. QED
    BY <1>1, <1>2, <1>5, <1>6

LEMMA NoWorkdirFacts ==
  ASSUME TypeInv, NEW m \in Mounts, NoWorkdir(m)
  PROVE  /\ pc[m] = "makework" /\ pc'[m] = "lower"
         /\ ofs'[m].held = ofs[m].held /\ ofs'[m].xino_bits = ofs[m].xino_bits
         /\ ofs'[m].workdir = ofs[m].workdir /\ ofs'[m].indexdir = ofs[m].indexdir
         /\ ofs'[m].rdonly
         /\ KeepsLocks(m) /\ KeepsLayers(m)
         /\ UNCHANGED <<req, config, traps, todo, result, older, inuse, rootOrigin, indexUpper>>
  BY DEF NoWorkdir, Goto, disk, threads, TypeInv, TypeOK, Ofs, KeepsLocks, KeepsLayers

\* The options that change together.
KeepsConfig(m) == /\ config'[m].metacopy = config[m].metacopy
                  /\ config'[m].redirect_dir = config[m].redirect_dir
                  /\ config'[m].redirect_follow = config[m].redirect_follow
                  /\ config'[m].xino = config[m].xino

LEMMA SetIndexNfs ==
  ASSUME TypeInv, NEW m \in Mounts, NEW x, NEW z,
         config' = [config EXCEPT ![m].index = x, ![m].nfs_export = z]
  PROVE  config'[m].index = x /\ config'[m].nfs_export = z /\ KeepsConfig(m)
  BY DEF TypeInv, Config, KeepsConfig

LEMMA GetLowerstackFacts ==
  ASSUME TypeInv, NEW m \in Mounts, GetLowerstack(m), ~GivesUp(m)
  PROVE  /\ pc[m] = "lower" /\ pc'[m] = "layers"
         /\ Len(Lowers(m)) <= OVL_MAX_STACK
         /\ KeepsConfig(m)
         /\ config'[m].index => config[m].index
         /\ config'[m].nfs_export => config[m].nfs_export
         /\ config'[m].nfs_export /\ Upper(m) = NoDir => ~config[m].redirect_follow
         /\ config'[m].nfs_export \/ (config'[m].index /\ Upper(m) # NoDir) => Fhs(m)
         /\ ofs'[m].held = ofs[m].held /\ ofs'[m].xino_bits \in {0, ofs[m].xino_bits}
         /\ KeepsLocks(m) /\ KeepsLayers(m) /\ KeepsDirs(m)
         /\ UNCHANGED <<req, traps, todo, result, older, inuse, rootOrigin, indexUpper>>
PROOF
  <1> DEFINE noUpper == Upper(m) = NoDir
             nfs   == config[m].nfs_export /\ ~(noUpper /\ config[m].redirect_follow)
             need  == nfs \/ (config[m].index /\ ~noUpper)
             lost  == need /\ \E d \in ToSet(Lowers(m)) : Handles[Fs(d)] = "none"
             x     == config[m].index /\ ~lost
             z     == nfs /\ ~lost
  <1>1. pc[m] = "lower" /\ UNCHANGED <<req, traps, todo, older, inuse, rootOrigin, indexUpper>>
    BY DEF GetLowerstack, disk
  <1>2. ~(Fail(m, "EINVAL") /\ UNCHANGED <<config, ofs>>)
    BY <1>1 DEF GivesUp, Fail, Goto, TypeInv, TypeOK, Up, Uppered, Worked, Made
  <1>3. /\ ~(Len(Lowers(m)) > OVL_MAX_STACK)
        /\ Goto(m, "layers") /\ UNCHANGED result
        /\ config' = [config EXCEPT ![m].index = x, ![m].nfs_export = z]
        /\ ofs' = [ofs EXCEPT ![m].xino_bits =
                    IF \A d \in ToSet(Lowers(m)) : Handles[Fs(d)] = "ino32" THEN @ ELSE 0]
    BY <1>2 DEF GetLowerstack
  <1>4. Len(Lowers(m)) <= OVL_MAX_STACK /\ pc'[m] = "layers"
    BY <1>3, MountAssumption DEF Goto, TypeInv, TypeOK, Lowers
  <1>5. /\ ofs'[m].held = ofs[m].held /\ ofs'[m].xino_bits \in {0, ofs[m].xino_bits}
        /\ KeepsLocks(m) /\ KeepsLayers(m) /\ KeepsDirs(m)
    BY <1>3 DEF TypeInv, Ofs, KeepsLocks, KeepsLayers, KeepsDirs
  <1>6. /\ x => config[m].index
        /\ z => config[m].nfs_export
        /\ z /\ noUpper => ~config[m].redirect_follow
        /\ z \/ (x /\ ~noUpper) => Fhs(m)
    BY Zenon DEF Fhs
  <1> HIDE DEF x, z
  <1>7. config'[m].index = x /\ config'[m].nfs_export = z /\ KeepsConfig(m)
    BY <1>3, SetIndexNfs, Zenon
  <1>8. /\ config'[m].index => config[m].index
        /\ config'[m].nfs_export => config[m].nfs_export
        /\ config'[m].nfs_export /\ noUpper => ~config[m].redirect_follow
        /\ config'[m].nfs_export \/ (config'[m].index /\ ~noUpper) => Fhs(m)
    BY <1>6, <1>7, Zenon
  <1>q. QED
    BY <1>1, <1>3, <1>4, <1>5, <1>7, <1>8

\* The lower layer that the loop of ovl_get_lower_layers is at.
Layer(m) == Lowers(m)[ofs[m].numlower + 1]

LEMMA GetLowerLayerFacts ==
  ASSUME TypeInv, NEW m \in Mounts, GetLowerLayer(m)
  PROVE  /\ pc[m] = "layers" /\ ofs[m].numlower < Len(Lowers(m))
         /\ KeepsConfig(m)
         /\ config'[m].index =>
              config[m].index /\ (NewFsid(m, Fs(Layer(m))) => LowerUuidOk(m, Fs(Layer(m))))
         /\ config'[m].nfs_export =>
              config[m].nfs_export /\ (NewFsid(m, Fs(Layer(m))) => LowerUuidOk(m, Fs(Layer(m))))
         /\ ofs'[m].lower_fs = LowerFs(m, Fs(Layer(m)))
         /\ \/ /\ pc'[m] = "free" /\ traps'[m] = traps[m]
               /\ ofs'[m].held = ofs[m].held /\ ofs'[m].numlower = ofs[m].numlower
            \/ /\ pc'[m] = "free" /\ result'[m] = "EBUSY"
               /\ traps'[m] = traps[m] \cup {Layer(m)}
               /\ ofs'[m].held = ofs[m].held /\ ofs'[m].numlower = ofs[m].numlower
            \/ /\ pc'[m] = "layers" /\ UNCHANGED result
               /\ Layer(m) \notin traps[m]
               /\ Layer(m) \notin inuse \/ ~config'[m].index
               /\ traps'[m] = traps[m] \cup {Layer(m)}
               /\ ofs'[m].held = ofs[m].held \cup {Layer(m)}
               /\ ofs'[m].numlower = ofs[m].numlower + 1
         /\ KeepsLocks(m) /\ KeepsDirs(m) /\ ofs'[m].xino_bits = ofs[m].xino_bits
         /\ UNCHANGED <<req, todo, older, inuse, rootOrigin, indexUpper>>
PROOF
  <1> DEFINE d == Layer(m)
             ok == NewFsid(m, Fs(d)) => LowerUuidOk(m, Fs(d))
             x  == config[m].index /\ ok
             z  == config[m].nfs_export /\ ok
             fss == LowerFs(m, Fs(d))
  <1>1. /\ pc[m] = "layers" /\ ofs[m].numlower < Len(Lowers(m))
        /\ UNCHANGED <<req, todo, older, inuse, rootOrigin, indexUpper>>
    BY DEF GetLowerLayer, disk
  <1>2. config' = [config EXCEPT ![m].index = x, ![m].nfs_export = z]
    BY DEF GetLowerLayer, Layer
  <1>3. \/ Fail(m, "ELOOP") /\ ofs' = [ofs EXCEPT ![m].lower_fs = fss] /\ UNCHANGED traps
        \/ /\ traps' = [traps EXCEPT ![m] = @ \cup {d}]
           /\ Fail(m, "EBUSY") /\ ofs' = [ofs EXCEPT ![m].lower_fs = fss]
        \/ /\ d \notin traps[m] /\ traps' = [traps EXCEPT ![m] = @ \cup {d}]
           /\ ~(d \in inuse /\ x)
           /\ ofs' = [ofs EXCEPT ![m].lower_fs = fss, ![m].numlower = @ + 1,
                                 ![m].held = @ \cup {d}]
           /\ UNCHANGED <<pc, result>>
    BY Zenon DEF GetLowerLayer, Layer, TrapFree
  <1>4. x => config[m].index /\ ok
    OBVIOUS
  <1>5. z => config[m].nfs_export /\ ok
    OBVIOUS
  <1> HIDE DEF x, z, ok, fss, d
  <1>6. config'[m].index = x /\ config'[m].nfs_export = z /\ KeepsConfig(m)
    BY <1>2, SetIndexNfs, Zenon
  <1>7. CASE Fail(m, "ELOOP") /\ ofs' = [ofs EXCEPT ![m].lower_fs = fss] /\ UNCHANGED traps
    <2>1. pc'[m] = "free" /\ traps'[m] = traps[m]
      BY <1>7 DEF Fail, Goto, TypeInv, TypeOK
    <2>2. /\ ofs'[m].held = ofs[m].held /\ ofs'[m].numlower = ofs[m].numlower
          /\ ofs'[m].lower_fs = fss
          /\ KeepsLocks(m) /\ KeepsDirs(m) /\ ofs'[m].xino_bits = ofs[m].xino_bits
      BY <1>7 DEF TypeInv, Ofs, KeepsLocks, KeepsDirs
    <2>q. QED
      BY <1>1, <1>4, <1>5, <1>6, <2>1, <2>2 DEF ok, fss, d
  <1>8. CASE /\ traps' = [traps EXCEPT ![m] = @ \cup {d}]
             /\ Fail(m, "EBUSY") /\ ofs' = [ofs EXCEPT ![m].lower_fs = fss]
    <2>1. /\ pc'[m] = "free" /\ traps'[m] = traps[m] \cup {d}
          /\ result'[m] = "EBUSY"
      BY <1>8 DEF Fail, Goto, TypeInv, TypeOK
    <2>2. /\ ofs'[m].held = ofs[m].held /\ ofs'[m].numlower = ofs[m].numlower
          /\ ofs'[m].lower_fs = fss
          /\ KeepsLocks(m) /\ KeepsDirs(m) /\ ofs'[m].xino_bits = ofs[m].xino_bits
      BY <1>8 DEF TypeInv, Ofs, KeepsLocks, KeepsDirs
    <2>q. QED
      BY <1>1, <1>4, <1>5, <1>6, <2>1, <2>2 DEF ok, fss, d
  <1>9. CASE /\ d \notin traps[m] /\ traps' = [traps EXCEPT ![m] = @ \cup {d}]
             /\ ~(d \in inuse /\ x)
             /\ ofs' = [ofs EXCEPT ![m].lower_fs = fss, ![m].numlower = @ + 1,
                                   ![m].held = @ \cup {d}]
             /\ UNCHANGED <<pc, result>>
    <2>1. pc'[m] = "layers" /\ traps'[m] = traps[m] \cup {d}
      BY <1>1, <1>9 DEF TypeInv, TypeOK
    <2>2. /\ ofs'[m].held = ofs[m].held \cup {d} /\ ofs'[m].numlower = ofs[m].numlower + 1
          /\ ofs'[m].lower_fs = fss
          /\ KeepsLocks(m) /\ KeepsDirs(m) /\ ofs'[m].xino_bits = ofs[m].xino_bits
      BY <1>9 DEF TypeInv, Ofs, KeepsLocks, KeepsDirs
    <2>q. QED
      BY <1>1, <1>4, <1>5, <1>6, <1>9, <2>1, <2>2 DEF ok, fss, d
  <1>q. QED
    BY <1>3, <1>7, <1>8, <1>9

LEMMA LayersDoneFacts ==
  ASSUME TypeInv, NEW m \in Mounts, LayersDone(m)
  PROVE  LET n == Len(ofs[m].lower_fs)
             one == n = 0 \/ (n = 1 /\ ~ofs[m].upper_mnt)
             bits == ofs[m].xino_bits
         IN  /\ pc[m] = "layers" /\ ofs[m].numlower = Len(Lowers(m))
             /\ pc'[m] \in {"origin", "overlap"}
             /\ pc'[m] = "origin" => ofs[m].upper_mnt /\ ofs[m].workdir /\ config[m].index
             /\ todo'[m] = Roots(m)
             /\ ofs'[m].xino_bits = IF one THEN 0
                                    ELSE IF config[m].xino = "on" /\ bits = 0 THEN XinoBits(n)
                                    ELSE bits
             /\ config'[m].xino = IF one THEN "off" ELSE config[m].xino
             /\ ofs'[m].rdonly <=> ofs[m].rdonly \/ ~ofs[m].upper_mnt
             /\ ofs'[m].held = ofs[m].held /\ KeepsLocks(m) /\ KeepsLayers(m)
             /\ ofs'[m].workdir = ofs[m].workdir /\ ofs'[m].indexdir = ofs[m].indexdir
             /\ config'[m].index = config[m].index
             /\ config'[m].nfs_export = config[m].nfs_export
             /\ config'[m].metacopy = config[m].metacopy
             /\ config'[m].redirect_dir = config[m].redirect_dir
             /\ config'[m].redirect_follow = config[m].redirect_follow
             /\ UNCHANGED <<req, traps, result, older, inuse, rootOrigin, indexUpper>>
PROOF
  <1> DEFINE n == Len(ofs[m].lower_fs)
             one == n = 0 \/ (n = 1 /\ ~ofs[m].upper_mnt)
             bits == ofs[m].xino_bits
             bits1 == IF one THEN 0
                      ELSE IF config[m].xino = "on" /\ bits = 0 THEN XinoBits(n) ELSE bits
             xino1 == IF one THEN "off" ELSE config[m].xino
             ro == ofs[m].rdonly \/ ~ofs[m].upper_mnt
             indexed == ~ForceReadonly(m) /\ config[m].index
  <1>1. /\ pc[m] = "layers" /\ ofs[m].numlower = Len(Lowers(m))
        /\ Goto(m, IF indexed THEN "origin" ELSE "overlap")
        /\ todo' = [todo EXCEPT ![m] = Roots(m)]
        /\ ofs' = [ofs EXCEPT ![m].xino_bits = bits1, ![m].rdonly = ro]
        /\ config' = [config EXCEPT ![m].xino = xino1]
        /\ UNCHANGED <<req, traps, result, older, inuse, rootOrigin, indexUpper>>
    BY DEF LayersDone, Roots, threads, disk
  <1>2. indexed => ofs[m].upper_mnt /\ ofs[m].workdir /\ config[m].index
    BY DEF ForceReadonly
  <1>3. ro <=> ofs[m].rdonly \/ ~ofs[m].upper_mnt
    OBVIOUS
  <1> HIDE DEF indexed, bits1, xino1, ro
  <1>4. /\ pc'[m] \in {"origin", "overlap"}
        /\ pc'[m] = "origin" => ofs[m].upper_mnt /\ ofs[m].workdir /\ config[m].index
    BY <1>1, <1>2 DEF Goto, TypeInv, TypeOK
  <1>5. /\ todo'[m] = Roots(m) /\ ofs'[m].xino_bits = bits1 /\ ofs'[m].rdonly = ro
        /\ ofs'[m].held = ofs[m].held /\ KeepsLocks(m) /\ KeepsLayers(m)
        /\ ofs'[m].workdir = ofs[m].workdir /\ ofs'[m].indexdir = ofs[m].indexdir
    BY <1>1 DEF TypeInv, Ofs, KeepsLocks, KeepsLayers
  <1>6. /\ config'[m].xino = xino1
        /\ config'[m].index = config[m].index
        /\ config'[m].nfs_export = config[m].nfs_export
        /\ config'[m].metacopy = config[m].metacopy
        /\ config'[m].redirect_dir = config[m].redirect_dir
        /\ config'[m].redirect_follow = config[m].redirect_follow
    BY <1>1 DEF TypeInv, Config
  <1>7. ofs'[m].rdonly <=> ofs[m].rdonly \/ ~ofs[m].upper_mnt
    BY <1>3, <1>5, Zenon
  <1>q. QED
    BY <1>1, <1>4, <1>5, <1>6, <1>7 DEF bits1, xino1

LEMMA VerifyOriginFacts ==
  ASSUME TypeInv, NEW m \in Mounts, VerifyOrigin(m), ~GivesUp(m)
  PROVE  /\ pc[m] = "origin" /\ pc'[m] = "index"
         /\ rootOrigin[Upper(m)] \in {NoDir, Lowers(m)[1]}
         /\ rootOrigin' = [rootOrigin EXCEPT ![Upper(m)] = IF @ = NoDir THEN Lowers(m)[1] ELSE @]
         /\ UNCHANGED <<req, config, ofs, traps, todo, result, older, inuse, indexUpper>>
PROOF
  <1>1. ~(Fail(m, "ESTALE") /\ UNCHANGED rootOrigin)
    BY DEF VerifyOrigin, GivesUp, Fail, Goto, private, TypeInv, TypeOK, Up, Uppered, Worked,
       Made, Layered, Indexing
  <1>q. QED
    BY <1>1 DEF VerifyOrigin, Verified, Goto, private, TypeInv, TypeOK

LEMMA GetIndexdirFacts ==
  ASSUME TypeInv, NEW m \in Mounts, GetIndexdir(m)
  PROVE  /\ pc[m] = "index"
         /\ traps'[m] = traps[m] \cup {IndexDir(Base(m))}
         /\ ofs'[m].held = ofs[m].held \cup {IndexDir(Base(m))}
         /\ ofs'[m].indexdir /\ ofs'[m].workdir = ofs[m].workdir
         /\ ofs'[m].rdonly = ofs[m].rdonly /\ ofs'[m].xino_bits = ofs[m].xino_bits
         /\ KeepsLocks(m) /\ KeepsLayers(m)
         /\ \/ pc'[m] = "free" /\ UNCHANGED indexUpper
            \/ /\ pc'[m] = "overlap" /\ UNCHANGED result
               /\ IndexDir(Base(m)) \notin traps[m]
               /\ indexUpper[Base(m)] \in {NoDir, Upper(m)}
               /\ indexUpper' = [indexUpper EXCEPT ![Base(m)] = IF @ = NoDir THEN Upper(m) ELSE @]
         /\ UNCHANGED <<req, config, todo, older, inuse, rootOrigin>>
PROOF
  <1>1. /\ ofs'[m].held = ofs[m].held \cup {IndexDir(Base(m))}
        /\ ofs'[m].indexdir = TRUE /\ ofs'[m].workdir = ofs[m].workdir
        /\ ofs'[m].rdonly = ofs[m].rdonly /\ ofs'[m].xino_bits = ofs[m].xino_bits
        /\ KeepsLocks(m) /\ KeepsLayers(m)
    BY DEF GetIndexdir, TypeInv, Ofs, KeepsLocks, KeepsLayers
  <1>2. \/ \E err : Fail(m, err) /\ UNCHANGED indexUpper
        \/ /\ Goto(m, "overlap") /\ UNCHANGED result
           /\ IndexDir(Base(m)) \notin traps[m]
           /\ indexUpper[Base(m)] \in {NoDir, Upper(m)}
           /\ indexUpper' = [indexUpper EXCEPT ![Base(m)] = IF @ = NoDir THEN Upper(m) ELSE @]
    BY DEF GetIndexdir, Verified, TrapFree
  <1>3. /\ pc[m] = "index" /\ traps'[m] = traps[m] \cup {IndexDir(Base(m))}
        /\ UNCHANGED <<req, config, todo, older, inuse, rootOrigin>>
    BY DEF GetIndexdir, TypeInv
  <1>q. QED
    BY <1>1, <1>2, <1>3 DEF Fail, Goto, TypeInv, TypeOK

LEMMA NoIndexdirFacts ==
  ASSUME TypeInv, NEW m \in Mounts, NoIndexdir(m)
  PROVE  /\ pc[m] = "index" /\ pc'[m] = "overlap"
         /\ ofs'[m].held = ofs[m].held /\ ofs'[m].xino_bits = ofs[m].xino_bits
         /\ ~ofs'[m].workdir /\ ofs'[m].indexdir = ofs[m].indexdir /\ ofs'[m].rdonly
         /\ KeepsLocks(m) /\ KeepsLayers(m)
         /\ UNCHANGED <<req, config, traps, todo, result, older, inuse, rootOrigin, indexUpper>>
  BY DEF NoIndexdir, Goto, disk, threads, TypeInv, TypeOK, Ofs, KeepsLocks, KeepsLayers

LEMMA CheckLayerFacts ==
  ASSUME TypeInv, NEW m \in Mounts, CheckLayer(m), ~GivesUp(m)
  PROVE  /\ pc[m] = "overlap" /\ todo[m] # <<>> /\ todo'[m] = Tail(todo[m])
         /\ \A e \in Ancestors(Head(todo[m])) :
              e \notin traps[m] /\ (config[m].index => e \notin inuse)
         /\ UNCHANGED <<pc, req, config, ofs, traps, result, older, inuse, rootOrigin, indexUpper>>
PROOF
  <1> DEFINE d == Head(todo[m])
             trapped == {e \in Ancestors(d) : ~TrapFree(m, e)}
             busy == {e \in Ancestors(d) : e \in inuse /\ TrapFree(m, e) /\ ReportInUse(m)}
             stops == trapped \cup busy
             first == CHOOSE e \in stops : \A x \in stops : Len(x) <= Len(e)
  <1>1. /\ pc[m] = "overlap" /\ todo[m] # <<>>
        /\ UNCHANGED <<req, config, ofs, traps, older, inuse, rootOrigin, indexUpper>>
    BY DEF CheckLayer, disk
  <1>2. \A err : ~(Fail(m, err) /\ UNCHANGED todo)
    BY <1>1 DEF GivesUp, Fail, Goto, TypeInv, TypeOK, Up, Uppered, Worked, Made, Layered,
       Indexing, Checking
  <1>3. IF stops # {}
          THEN Fail(m, IF first \in trapped THEN "ELOOP" ELSE "EBUSY") /\ UNCHANGED todo
          ELSE todo' = [todo EXCEPT ![m] = Tail(@)] /\ UNCHANGED <<pc, result>>
    BY DEF CheckLayer
  <1>4. stops = {} /\ todo' = [todo EXCEPT ![m] = Tail(@)] /\ UNCHANGED <<pc, result>>
    BY <1>2, <1>3
  <1>5. \A e \in Ancestors(d) : e \notin traps[m] /\ (config[m].index => e \notin inuse)
    BY <1>4, Zenon DEF TrapFree, ReportInUse
  <1>q. QED
    BY <1>1, <1>4, <1>5 DEF TypeInv

LEMMA FinishFacts ==
  ASSUME TypeInv, NEW m \in Mounts, Finish(m)
  PROVE  /\ pc[m] = "overlap" /\ pc'[m] = "live" /\ todo[m] = <<>>
         /\ KeepsConfig(m)
         /\ config'[m].index <=> config[m].index /\ ofs[m].indexdir
         /\ config'[m].nfs_export =>
              config[m].nfs_export /\ (ofs[m].indexdir \/ ~ofs[m].upper_mnt) /\ ~config[m].metacopy
         /\ UNCHANGED <<req, ofs, traps, todo, result, older, inuse, rootOrigin, indexUpper>>
PROOF
  <1> DEFINE x == config[m].index /\ ofs[m].indexdir
             z == /\ config[m].nfs_export /\ (ofs[m].indexdir \/ ~ofs[m].upper_mnt)
                  /\ ~config[m].metacopy
  <1>1. /\ pc[m] = "overlap" /\ pc'[m] = "live" /\ todo[m] = <<>>
        /\ UNCHANGED <<req, ofs, traps, todo, result, older, inuse, rootOrigin, indexUpper>>
    BY DEF Finish, Goto, disk, threads, TypeInv, TypeOK
  <1>2. config' = [config EXCEPT ![m].index = x, ![m].nfs_export = z]
    BY Zenon DEF Finish
  <1> HIDE DEF x, z
  <1>3. config'[m].index = x /\ config'[m].nfs_export = z /\ KeepsConfig(m)
    BY <1>2, SetIndexNfs, Zenon
  <1>4. /\ config'[m].index <=> config[m].index /\ ofs[m].indexdir
        /\ config'[m].nfs_export => /\ config[m].nfs_export
                                    /\ ofs[m].indexdir \/ ~ofs[m].upper_mnt
                                    /\ ~config[m].metacopy
    BY <1>3, Zenon DEF x, z
  <1>q. QED
    BY <1>1, <1>3, <1>4

LEMMA StepFailsFacts ==
  ASSUME TypeInv, NEW m \in Mounts, StepFails(m)
  PROVE  GivesUp(m)
  BY DEF StepFails, Fail, Goto, GivesUp, private, disk, TypeInv, TypeOK, Up, Uppered, Worked,
     Made, Layered, Indexing, Checking

LEMMA PutSuperFacts ==
  ASSUME TypeInv, NEW m \in Mounts, PutSuper(m)
  PROVE  /\ pc[m] = "live" /\ pc'[m] = "free" /\ result'[m] = "unmounted"
         /\ \A n \in Mounts : older'[n] = older[n] \ {m}
         /\ running' = running \ {thread} /\ (misstopped' <=> misstopped \/ thread \notin running)
         /\ UNCHANGED <<req, config, ofs, traps, todo, inuse, rootOrigin, indexUpper, thread>>
  BY DEF PutSuper, Goto, private, disk, TypeInv, TypeOK

LEMMA FreeWorkFacts ==
  ASSUME TypeInv, NEW m \in Mounts, FreeWork(m)
  PROVE  /\ pc[m] = "free" /\ pc'[m] = "free_upper"
         /\ traps'[m] = traps[m] \ ofs[m].held /\ ofs'[m].held = {}
         /\ inuse' = inuse \ UnlockWork(m)
         /\ ~ofs'[m].workdir_locked
         /\ ofs'[m].upper_mnt = ofs[m].upper_mnt
         /\ ofs'[m].upperdir_locked = ofs[m].upperdir_locked
         /\ ofs'[m].xino_bits = ofs[m].xino_bits
         /\ KeepsLayers(m) /\ KeepsDirs(m)
         /\ UNCHANGED <<req, config, todo, result, older, rootOrigin, indexUpper>>
  BY DEF FreeWork, HeldTraps, Goto, disk, threads, TypeInv, TypeOK, Ofs, KeepsLayers, KeepsDirs

LEMMA FreeUpperFacts ==
  ASSUME TypeInv, NEW m \in Mounts, FreeUpper(m)
  PROVE  /\ pc[m] = "free_upper"
         /\ pc'[m] = IF result[m] = "unmounted" THEN "unmounted" ELSE "failed"
         /\ inuse' = inuse \ UnlockUpper(m)
         /\ ofs'[m] = NoOfs /\ config'[m] = NoConfig /\ todo'[m] = <<>> /\ older'[m] = {}
         /\ UNCHANGED <<req, traps, result, rootOrigin, indexUpper>>
  BY DEF FreeUpper, Goto, disk, threads, TypeInv, TypeOK

LEMMA RemountFacts ==
  ASSUME TypeInv, NEW m \in Mounts, Remount(m)
  PROVE  /\ pc[m] = "live"
         /\ ofs'[m].rdonly \/ (ofs[m].upper_mnt /\ ofs[m].workdir)
         /\ ofs'[m].held = ofs[m].held /\ ofs'[m].xino_bits = ofs[m].xino_bits
         /\ ofs'[m].workdir = ofs[m].workdir /\ ofs'[m].indexdir = ofs[m].indexdir
         /\ KeepsLocks(m) /\ KeepsLayers(m)
         /\ UNCHANGED <<pc, req, config, traps, todo, result, older, inuse, rootOrigin,
                        indexUpper>>
  BY DEF Remount, ForceReadonly, disk, threads, TypeInv, TypeOK, Ofs, KeepsLocks, KeepsLayers

-----------------------------------------------------------------------------
(* Types. *)

\* What a request makes of the options.
LEMMA ParseOptType ==
  ASSUME NEW r \in Requests
  PROVE  ParseOpt(r).config \in Config /\ (ParseOpt(r).config.metacopy => ParseOpt(r).config.redirect_dir)
                                       /\ ParseOpt(r).config.index = r.index
                                       /\ ParseOpt(r).config.xino = r.xino
PROOF
  <1>1. r \in Request
    BY MountAssumption
  <1> DEFINE mode     == IF r.redirect = "default" THEN RedirectDef ELSE r.redirect
             follow   == RedirectFollow(mode)
             dir      == RedirectDir(mode) \/ (r.upper = NoDir /\ follow)
             metacopy == IF r.metacopy = "default" THEN MetacopyDef ELSE r.metacopy = "on"
             clash    == metacopy /\ ~dir
             auto     == clash /\ r.redirect = "default"
             mc       == metacopy /\ MetacopyKept(r, clash)
             rd       == dir \/ auto
             rf       == follow \/ auto
             c(x, y, z) == [index |-> r.index, nfs_export |-> r.nfs_export, metacopy |-> x,
                            redirect_dir |-> y, redirect_follow |-> z, xino |-> r.xino]
  <1>2. mc \in BOOLEAN /\ rd \in BOOLEAN /\ rf \in BOOLEAN /\ (mc => rd)
    BY Zenon DEF MetacopyKept
  <1>3. ParseOpt(r).config = c(mc, rd, rf)
    BY DEF ParseOpt
  <1> HIDE DEF mc, rd, rf
  <1>4. c(mc, rd, rf) \in Config
    BY <1>1, <1>2 DEF Config, Request
  <1>q. QED
    BY <1>2, <1>3, <1>4

LEMMA ConfigType ==
  ASSUME TypeInv, NEW m \in Mounts, Step(m)
  PROVE  config' \in [Mounts -> Config]
PROOF
  <1>0. config[m] \in Config
    BY DEF TypeInv
  <1>1. CASE Mount(m)
    <2>1. PICK r \in offered : config' = [config EXCEPT ![m] = ParseOpt(r).config]
      BY <1>1 DEF Mount
    <2>2. r \in Requests
      BY DEF TypeInv, Requests
    <2>q. QED
      BY <2>1, <2>2, ParseOptType DEF TypeInv
  <1>2. ASSUME NEW x, NEW y, NEW z, x \in BOOLEAN, y \in BOOLEAN, z \in BOOLEAN,
               config' = [config EXCEPT ![m].index = x, ![m].metacopy = y, ![m].nfs_export = z]
        PROVE  config' \in [Mounts -> Config]
    <2> DEFINE c == [config[m] EXCEPT !.index = x, !.metacopy = y, !.nfs_export = z]
    <2>1. c \in Config
      BY <1>2, <1>0, Zenon DEF Config
    <2>2. config' = [config EXCEPT ![m] = c]
      BY <1>2 DEF TypeInv, Config
    <2> HIDE DEF c
    <2>q. QED
      BY <2>1, <2>2 DEF TypeInv
  <1>3. ASSUME NEW x, NEW z, x \in BOOLEAN, z \in BOOLEAN,
               config' = [config EXCEPT ![m].index = x, ![m].nfs_export = z]
        PROVE  config' \in [Mounts -> Config]
    <2> DEFINE c == [config[m] EXCEPT !.index = x, !.nfs_export = z]
    <2>1. c \in Config
      BY <1>3, <1>0, Zenon DEF Config
    <2>2. config' = [config EXCEPT ![m] = c]
      BY <1>3 DEF TypeInv, Config
    <2> HIDE DEF c
    <2>q. QED
      BY <2>1, <2>2 DEF TypeInv
  <1>4. CASE MakeWorkdir(m)
    <2> DEFINE f == Fs(Upper(m))
               index == config[m].index /\ f \notin NoXattrs /\ Handles[f] # "none"
               meta  == config[m].metacopy /\ f \notin NoXattrs
               nfs   == config[m].nfs_export /\ index
    <2>1. config' = [config EXCEPT ![m].index = index, ![m].metacopy = meta, ![m].nfs_export = nfs]
      BY <1>4 DEF MakeWorkdir
    <2>2. index \in BOOLEAN /\ meta \in BOOLEAN /\ nfs \in BOOLEAN
      OBVIOUS
    <2> HIDE DEF index, meta, nfs
    <2>q. QED
      BY <1>2, <2>1, <2>2
  <1>5. CASE GetLowerstack(m)
    <2>1. \/ config' = config
          \/ \E x, z : /\ config' = [config EXCEPT ![m].index = @ /\ x, ![m].nfs_export = z]
                       /\ z \in BOOLEAN
      <3> DEFINE noUpper == Upper(m) = NoDir
                 nfs  == config[m].nfs_export /\ ~(noUpper /\ config[m].redirect_follow)
                 need == nfs \/ (config[m].index /\ ~noUpper)
                 lost == need /\ \E d \in ToSet(Lowers(m)) : Handles[Fs(d)] = "none"
                 z    == nfs /\ ~lost
      <3>1. config' = config \/ config' = [config EXCEPT ![m].index = @ /\ ~lost, ![m].nfs_export = z]
        BY <1>5 DEF GetLowerstack
      <3>2. z \in BOOLEAN
        OBVIOUS
      <3> HIDE DEF z, lost
      <3>q. QED
        BY <3>1, <3>2
    <2>2. ASSUME NEW x, NEW z, z \in BOOLEAN,
                 config' = [config EXCEPT ![m].index = @ /\ x, ![m].nfs_export = z]
          PROVE  config' \in [Mounts -> Config]
      <3> DEFINE y == config[m].index /\ x
      <3>1. config' = [config EXCEPT ![m].index = y, ![m].nfs_export = z]
        BY <2>2
      <3>2. y \in BOOLEAN
        OBVIOUS
      <3> HIDE DEF y
      <3>q. QED
        BY <1>3, <2>2, <3>1, <3>2
    <2>q. QED
      BY <2>1, <2>2 DEF TypeInv
  <1>6. CASE GetLowerLayer(m)
    <2> DEFINE d  == Lowers(m)[ofs[m].numlower + 1]
               ok == NewFsid(m, Fs(d)) => LowerUuidOk(m, Fs(d))
               x  == config[m].index /\ ok
               z  == config[m].nfs_export /\ ok
    <2>1. config' = [config EXCEPT ![m].index = x, ![m].nfs_export = z]
      BY <1>6 DEF GetLowerLayer
    <2>2. x \in BOOLEAN /\ z \in BOOLEAN
      OBVIOUS
    <2> HIDE DEF x, z
    <2>q. QED
      BY <1>3, <2>1, <2>2
  <1>7. CASE LayersDone(m)
    <2>1. PICK x \in {"off", "auto", "on"} : config' = [config EXCEPT ![m].xino = x]
      BY <1>7 DEF LayersDone, TypeInv, Config
    <2> DEFINE c == [config[m] EXCEPT !.xino = x]
    <2>2. c \in Config
      BY <1>0, Zenon DEF Config
    <2>3. config' = [config EXCEPT ![m] = c]
      BY <2>1 DEF TypeInv, Config
    <2> HIDE DEF c
    <2>q. QED
      BY <2>2, <2>3 DEF TypeInv
  <1>8. CASE Finish(m)
    <2> DEFINE nfs == config[m].nfs_export /\ (ofs[m].indexdir \/ ~ofs[m].upper_mnt)
               x == config[m].index /\ ofs[m].indexdir
               z == nfs /\ ~config[m].metacopy
    <2>1. config' = [config EXCEPT ![m].index = x, ![m].nfs_export = z]
      BY <1>8 DEF Finish
    <2>2. x \in BOOLEAN /\ z \in BOOLEAN
      OBVIOUS
    <2> HIDE DEF x, z
    <2>q. QED
      BY <1>3, <2>1, <2>2
  <1>9. CASE FreeUpper(m)
    BY <1>9 DEF FreeUpper, NoConfig, TypeInv, Config
  <1>10. CASE \/ GetUpper(m) \/ GetWorkdir(m) \/ NoWorkdir(m) \/ VerifyOrigin(m) \/ GetIndexdir(m)
              \/ NoIndexdir(m) \/ CheckLayer(m) \/ StepFails(m) \/ PutSuper(m) \/ FreeWork(m)
              \/ Remount(m)
    <2>1. config' = config
      BY <1>10 DEF GetUpper, GetWorkdir, NoWorkdir, VerifyOrigin, GetIndexdir, NoIndexdir,
         CheckLayer, StepFails, PutSuper, FreeWork, Remount, private
    <2>q. QED
      BY <2>1 DEF TypeInv
  <1>q. QED
    BY <1>1, <1>4, <1>5, <1>6, <1>7, <1>8, <1>9, <1>10 DEF Step

\* Directories are paths with at least one name.
LEMMA DirsType ==
  ASSUME TypeInv, AskedInv, NEW m \in Mounts
  PROVE  /\ WorkDir(Base(m)) \in Dir \ {NoDir} /\ IndexDir(Base(m)) \in Dir \ {NoDir}
         /\ Upper(m) \in Dir /\ Base(m) \in Dir /\ Lowers(m) \in Seq(Dir \ {NoDir})
PROOF
  <1>1. Upper(m) \in Dir /\ Base(m) \in Dir /\ Lowers(m) \in Seq(Dir \ {NoDir})
    BY DEF TypeInv, Upper, Base, Lowers
  <1>2. \A w \in Seq(Name), x \in Name : Append(w, x) \in Seq(Name) /\ Append(w, x) # <<>>
    BY AppendProperties
  <1>3. \A w \in Dir : WorkDir(w) \in Dir \ {NoDir} /\ IndexDir(w) \in Dir \ {NoDir}
    <2>1. "work" \in Name /\ "index" \in Name
      BY DEF Name
    <2>q. QED
      BY <1>2, <2>1, Zenon DEF WorkDir, IndexDir, Dir, NoDir
  <1>q. QED
    BY <1>1, <1>3

\* ilog2(n) + 1 bits hold the numbers 0 .. n.
LEMMA XinoBitsRange ==
  ASSUME NEW n \in 1 .. OVL_MAX_STACK
  PROVE  XinoBits(n) \in 1 .. n /\ n < 2^XinoBits(n)
  BY BitsAssumption DEF XinoBits

\* There are no more file systems than layers, and no more layers than allowed.
LEMMA FewFs ==
  ASSUME TypeInv, AskedInv, SupportInv, FsidInv, NEW m \in Mounts, LayersDone(m)
  PROVE  Len(ofs[m].lower_fs) <= OVL_MAX_STACK
PROOF
  <1>1. pc[m] = "layers" /\ ofs[m].numlower = Len(Lowers(m))
    BY LayersDoneFacts
  <1>2. Len(Lowers(m)) <= OVL_MAX_STACK
    BY <1>1 DEF SupportInv, Supported, Layered
  <1>3. Len(ofs[m].lower_fs) <= ofs[m].numlower
    BY <1>1 DEF FsidInv, Numbered, Up, Uppered, Worked, Made, Layered
  <1>4. ofs[m].lower_fs \in Seq(Name) /\ Lowers(m) \in Seq(Dir \ {NoDir})
    BY DirsType DEF TypeInv, Ofs
  <1>q. QED
    BY <1>1, <1>2, <1>3, <1>4, MountAssumption

LEMMA OfsType ==
  ASSUME TypeInv, AskedInv, SupportInv, FsidInv, NEW m \in Mounts, Step(m)
  PROVE  ofs' \in [Mounts -> Ofs]
PROOF
  <1>0. ofs \in [Mounts -> Ofs] /\ ofs[m] \in Ofs
    BY DEF TypeInv
  <1>a. ASSUME NEW o \in Ofs, ofs' = [ofs EXCEPT ![m] = o]
        PROVE  ofs' \in [Mounts -> Ofs]
    BY <1>a, <1>0
  <1>b. ofs[m].held \in SUBSET (Dir \ {NoDir}) /\ ofs[m].numlower \in Nat
    BY <1>0, Zenon DEF Ofs
  <1>1. CASE Mount(m)
    <2>1. PICK r \in offered :
            ofs' = [ofs EXCEPT ![m] =
                      [NoOfs EXCEPT !.xino_bits = IF r.xino = "off" THEN 0 ELSE HighBits,
                                    !.rdonly = r.rdonly]]
      BY <1>1 DEF Mount
    <2>2. r \in Request
      BY MountAssumption DEF TypeInv, Requests
    <2>3. r.rdonly \in BOOLEAN /\ (IF r.xino = "off" THEN 0 ELSE HighBits) \in Nat
      BY <2>2, MountAssumption DEF Request
    <2>4. NoOfs \in Ofs
      <3>1. <<>> \in Seq(Name) /\ {} \in SUBSET (Dir \ {NoDir}) /\ 0 \in Nat
        OBVIOUS
      <3>q. QED
        BY <3>1, Zenon DEF NoOfs, Ofs
    <2>5. \A b \in Nat, x \in BOOLEAN : [NoOfs EXCEPT !.xino_bits = b, !.rdonly = x] \in Ofs
      BY <2>4, Zenon DEF Ofs
    <2>q. QED
      BY <1>a, <2>1, <2>3, <2>5
  <1>2. CASE GetUpper(m)
    <2> DEFINE locked == Upper(m) \notin inuse
               h == ofs[m].held \cup {Upper(m)}
               o == [ofs[m] EXCEPT !.upper_mnt = TRUE, !.upperdir_locked = locked, !.held = h]
    <2>1. \/ ofs' = ofs
          \/ ofs' = [ofs EXCEPT ![m].upper_mnt = TRUE, ![m].upperdir_locked = locked,
                                ![m].held = @ \cup {Upper(m)}]
      BY <1>2 DEF GetUpper, private
    <2>2. locked \in BOOLEAN
      OBVIOUS
    <2>3. h \in SUBSET (Dir \ {NoDir})
      BY <1>2, <1>b, DirsType DEF GetUpper, AskedInv, Asked
    <2> HIDE DEF locked
    <2>4. ofs' = ofs \/ ofs' = [ofs EXCEPT ![m] = o]
      BY <1>0, <2>1
    <2> HIDE DEF h
    <2>5. o \in Ofs
      BY <1>0, <2>2, <2>3, Zenon DEF Ofs
    <2>q. QED
      BY <1>0, <1>a, <2>4, <2>5
  <1>3. CASE GetWorkdir(m)
    <2> DEFINE locked == Base(m) \notin inuse
               h == ofs[m].held \cup {Base(m)}
               o == [ofs[m] EXCEPT !.workbasedir = TRUE, !.workdir_locked = locked, !.held = h]
               oBusy == [ofs[m] EXCEPT !.workbasedir = TRUE]
    <2>1. \/ ofs' = ofs
          \/ ofs' = [ofs EXCEPT ![m].workbasedir = TRUE]
          \/ ofs' = [ofs EXCEPT ![m].workbasedir = TRUE, ![m].workdir_locked = locked,
                                ![m].held = @ \cup {Base(m)}]
      BY <1>3 DEF GetWorkdir, private
    <2>2. locked \in BOOLEAN
      OBVIOUS
    <2>3. h \in SUBSET (Dir \ {NoDir})
      BY <1>3, <1>b, DirsType DEF GetWorkdir, AskedInv, Asked, Up, Uppered
    <2> HIDE DEF locked
    <2>4. ofs' = ofs \/ ofs' = [ofs EXCEPT ![m] = oBusy] \/ ofs' = [ofs EXCEPT ![m] = o]
      BY <1>0, <2>1
    <2> HIDE DEF h
    <2>5. o \in Ofs /\ oBusy \in Ofs
      BY <1>0, <2>2, <2>3, Zenon DEF Ofs
    <2>q. QED
      BY <1>0, <1>a, <2>4, <2>5
  <1>4. CASE MakeWorkdir(m)
    <2> DEFINE h == ofs[m].held \cup {WorkDir(Base(m))}
               b == IF Handles[Fs(Upper(m))] = "ino32" THEN ofs[m].xino_bits ELSE 0
               o == [ofs[m] EXCEPT !.workdir = TRUE, !.held = h, !.xino_bits = b]
    <2>1. ofs' = [ofs EXCEPT ![m] = o]
      BY <1>0, <1>4 DEF MakeWorkdir
    <2>2. h \in SUBSET (Dir \ {NoDir}) /\ b \in Nat
      BY <1>0, <1>b, DirsType DEF Ofs
    <2> HIDE DEF h, b
    <2>3. o \in Ofs
      BY <1>0, <2>2, Zenon DEF Ofs
    <2>q. QED
      BY <1>a, <2>1, <2>3
  <1>5. CASE NoWorkdir(m)
    <2> DEFINE o == [ofs[m] EXCEPT !.rdonly = TRUE]
    <2>1. ofs' = [ofs EXCEPT ![m] = o]
      BY <1>0, <1>5 DEF NoWorkdir
    <2>2. o \in Ofs
      BY <1>0, Zenon DEF Ofs
    <2>q. QED
      BY <1>a, <2>1, <2>2
  <1>6. CASE GetLowerstack(m)
    <2> DEFINE b == IF \A d \in ToSet(Lowers(m)) : Handles[Fs(d)] = "ino32"
                      THEN ofs[m].xino_bits ELSE 0
               o == [ofs[m] EXCEPT !.xino_bits = b]
    <2>1. ofs' = ofs \/ ofs' = [ofs EXCEPT ![m] = o]
      BY <1>0, <1>6 DEF GetLowerstack
    <2>2. b \in Nat
      BY <1>0 DEF Ofs
    <2> HIDE DEF b
    <2>3. o \in Ofs
      BY <1>0, <2>2, Zenon DEF Ofs
    <2>q. QED
      BY <1>0, <1>a, <2>1, <2>3
  <1>7. CASE GetLowerLayer(m)
    <2> DEFINE d == Layer(m)
               fss == LowerFs(m, Fs(d))
               n == ofs[m].numlower + 1
               h == ofs[m].held \cup {d}
               o == [ofs[m] EXCEPT !.lower_fs = fss, !.numlower = n, !.held = h]
               oErr == [ofs[m] EXCEPT !.lower_fs = fss]
    <2>1. \/ ofs' = [ofs EXCEPT ![m].lower_fs = fss]
          \/ ofs' = [ofs EXCEPT ![m].lower_fs = fss, ![m].numlower = @ + 1,
                                ![m].held = @ \cup {d}]
      BY <1>7, Zenon DEF GetLowerLayer, Layer
    <2>2. d \in Dir \ {NoDir}
      <3>1. Lowers(m) \in Seq(Dir \ {NoDir}) /\ Len(Lowers(m)) \in Nat
        BY DirsType, LenProperties
      <3>2. ofs[m].numlower < Len(Lowers(m))
        BY <1>7, GetLowerLayerFacts
      <3>3. ofs[m].numlower + 1 \in 1 .. Len(Lowers(m))
        BY <1>b, <3>1, <3>2
      <3>q. QED
        BY <3>1, <3>3, ElementOfSeq DEF Layer
    <2>3. fss \in Seq(Name)
      <3>1. Fs(d) \in Name
        BY <2>2, HeadTailProperties DEF Dir, NoDir, Fs
      <3>2. ofs[m].lower_fs \in Seq(Name)
        BY <1>0, Zenon DEF Ofs
      <3>q. QED
        BY <3>1, <3>2, AppendProperties DEF LowerFs
    <2>4. n \in Nat /\ h \in SUBSET (Dir \ {NoDir})
      BY <1>b, <2>2
    <2> HIDE DEF fss, d
    <2>5. ofs' = [ofs EXCEPT ![m] = oErr] \/ ofs' = [ofs EXCEPT ![m] = o]
      BY <1>0, <2>1
    <2> HIDE DEF n, h
    <2>6. o \in Ofs /\ oErr \in Ofs
      BY <1>0, <2>3, <2>4, Zenon DEF Ofs
    <2>q. QED
      BY <1>a, <2>5, <2>6
  <1>8. CASE LayersDone(m)
    <2> DEFINE k == Len(ofs[m].lower_fs)
               one == k = 0 \/ (k = 1 /\ ~ofs[m].upper_mnt)
               bits == ofs[m].xino_bits
               b == IF one THEN 0
                    ELSE IF config[m].xino = "on" /\ bits = 0 THEN XinoBits(k) ELSE bits
               ro == ofs[m].rdonly \/ ~ofs[m].upper_mnt
               o == [ofs[m] EXCEPT !.xino_bits = b, !.rdonly = ro]
    <2>1. ofs' = [ofs EXCEPT ![m] = o]
      BY <1>0, <1>8 DEF LayersDone
    <2>2. ro \in BOOLEAN
      OBVIOUS
    <2>3. b \in Nat
      <3>1. k \in Nat /\ bits \in Nat
        BY <1>0 DEF Ofs
      <3>2. ~one => k \in 1 .. OVL_MAX_STACK
        BY <1>8, <3>1, FewFs
      <3>q. QED
        BY <3>1, <3>2, XinoBitsRange
    <2> HIDE DEF b, ro
    <2>4. o \in Ofs
      BY <1>0, <2>2, <2>3, Zenon DEF Ofs
    <2>q. QED
      BY <1>a, <2>1, <2>4
  <1>9. CASE GetIndexdir(m)
    <2> DEFINE h == ofs[m].held \cup {IndexDir(Base(m))}
               o == [ofs[m] EXCEPT !.indexdir = TRUE, !.held = h]
    <2>1. ofs' = [ofs EXCEPT ![m] = o]
      BY <1>0, <1>9 DEF GetIndexdir
    <2>2. h \in SUBSET (Dir \ {NoDir})
      BY <1>b, DirsType
    <2> HIDE DEF h
    <2>3. o \in Ofs
      BY <1>0, <2>2, Zenon DEF Ofs
    <2>q. QED
      BY <1>a, <2>1, <2>3
  <1>10. CASE NoIndexdir(m)
    <2> DEFINE o == [ofs[m] EXCEPT !.workdir = FALSE, !.rdonly = TRUE]
    <2>1. ofs' = [ofs EXCEPT ![m] = o]
      BY <1>0, <1>10 DEF NoIndexdir
    <2>2. o \in Ofs
      BY <1>0, Zenon DEF Ofs
    <2>q. QED
      BY <1>a, <2>1, <2>2
  <1>11. CASE FreeWork(m)
    <2> DEFINE o == [ofs[m] EXCEPT !.held = {}, !.workdir_locked = FALSE]
    <2>1. ofs' = [ofs EXCEPT ![m] = o]
      BY <1>0, <1>11 DEF FreeWork
    <2>2. {} \in SUBSET (Dir \ {NoDir})
      OBVIOUS
    <2>3. o \in Ofs
      BY <1>0, <2>2, Zenon DEF Ofs
    <2>q. QED
      BY <1>a, <2>1, <2>3
  <1>12. CASE FreeUpper(m)
    <2>1. <<>> \in Seq(Name) /\ {} \in SUBSET (Dir \ {NoDir}) /\ 0 \in Nat
      OBVIOUS
    <2>2. NoOfs \in Ofs
      BY <2>1, Zenon DEF NoOfs, Ofs
    <2>q. QED
      BY <1>a, <1>12, <2>2 DEF FreeUpper
  <1>13. CASE Remount(m)
    <2>1. PICK ro \in BOOLEAN : ofs' = [ofs EXCEPT ![m].rdonly = ro]
      BY <1>13 DEF Remount
    <2> DEFINE o == [ofs[m] EXCEPT !.rdonly = ro]
    <2>2. ofs' = [ofs EXCEPT ![m] = o]
      BY <1>0, <2>1
    <2>3. o \in Ofs
      BY <1>0, Zenon DEF Ofs
    <2>q. QED
      BY <1>a, <2>2, <2>3
  <1>14. CASE VerifyOrigin(m) \/ CheckLayer(m) \/ Finish(m) \/ StepFails(m) \/ PutSuper(m)
    <2>1. ofs' = ofs
      BY <1>14 DEF VerifyOrigin, CheckLayer, Finish, StepFails, PutSuper, private
    <2>q. QED
      BY <1>0, <2>1
  <1>q. QED
    BY <1>1, <1>2, <1>3, <1>4, <1>5, <1>6, <1>7, <1>8, <1>9, <1>10, <1>11, <1>12, <1>13, <1>14
       DEF Step

\* The variables of the super blocks stay functions of the super blocks.
LEMMA Functional ==
  ASSUME TypeInv, NEW m \in Mounts, Step(m)
  PROVE  /\ pc' = [n \in Mounts |-> pc'[n]] /\ req' = [n \in Mounts |-> req'[n]]
         /\ traps' = [n \in Mounts |-> traps'[n]] /\ todo' = [n \in Mounts |-> todo'[n]]
         /\ result' = [n \in Mounts |-> result'[n]] /\ older' = [n \in Mounts |-> older'[n]]
PROOF
  <1> USE DEF TypeInv, TypeOK, Goto, Fail, private, threads, disk
  <1>1. CASE Mount(m)
    BY <1>1 DEF Mount
  <1>2. CASE GetUpper(m)
    BY <1>2 DEF GetUpper
  <1>3. CASE GetWorkdir(m)
    BY <1>3 DEF GetWorkdir
  <1>4. CASE MakeWorkdir(m)
    BY <1>4 DEF MakeWorkdir
  <1>5. CASE NoWorkdir(m)
    BY <1>5 DEF NoWorkdir
  <1>6. CASE GetLowerstack(m)
    BY <1>6 DEF GetLowerstack
  <1>7. CASE GetLowerLayer(m)
    BY <1>7 DEF GetLowerLayer
  <1>8. CASE LayersDone(m)
    BY <1>8 DEF LayersDone
  <1>9. CASE VerifyOrigin(m)
    BY <1>9 DEF VerifyOrigin
  <1>10. CASE GetIndexdir(m)
    <2>1. (\E l : Goto(m, l)) /\ (UNCHANGED result \/ \E err : result' = [result EXCEPT ![m] = err])
      BY <1>10 DEF GetIndexdir
    <2>2. /\ traps' = [traps EXCEPT ![m] = @ \cup {IndexDir(Base(m))}]
          /\ UNCHANGED <<req, todo, older>>
      BY <1>10 DEF GetIndexdir
    <2>q. QED
      BY <2>1, <2>2
  <1>11. CASE NoIndexdir(m)
    BY <1>11 DEF NoIndexdir
  <1>12. CASE CheckLayer(m)
    BY <1>12 DEF CheckLayer
  <1>13. CASE Finish(m)
    BY <1>13 DEF Finish
  <1>14. CASE StepFails(m)
    BY <1>14 DEF StepFails
  <1>15. CASE PutSuper(m)
    BY <1>15 DEF PutSuper
  <1>16. CASE FreeWork(m)
    BY <1>16 DEF FreeWork
  <1>17. CASE FreeUpper(m)
    BY <1>17 DEF FreeUpper
  <1>18. CASE Remount(m)
    BY <1>18 DEF Remount
  <1>q. QED
    BY <1>1, <1>2, <1>3, <1>4, <1>5, <1>6, <1>7, <1>8, <1>9,
       <1>10, <1>11, <1>12, <1>13, <1>14, <1>15, <1>16, <1>17, <1>18 DEF Step

\* A mount call names the request once; nothing else does.
LEMMA RequestKept ==
  ASSUME TypeInv, NEW m \in Mounts, Step(m), ~Mount(m)
  PROVE  req' = req /\ calls' = calls /\ pc[m] \notin Idle
PROOF
  <1> USE DEF private, Idle
  <1>2. CASE GetUpper(m)
    BY <1>2 DEF GetUpper
  <1>3. CASE GetWorkdir(m)
    BY <1>3 DEF GetWorkdir
  <1>4. CASE MakeWorkdir(m)
    BY <1>4 DEF MakeWorkdir
  <1>5. CASE NoWorkdir(m)
    BY <1>5 DEF NoWorkdir
  <1>6. CASE GetLowerstack(m)
    BY <1>6 DEF GetLowerstack
  <1>7. CASE GetLowerLayer(m)
    BY <1>7 DEF GetLowerLayer
  <1>8. CASE LayersDone(m)
    BY <1>8 DEF LayersDone
  <1>9. CASE VerifyOrigin(m)
    BY <1>9 DEF VerifyOrigin
  <1>10. CASE GetIndexdir(m)
    BY <1>10 DEF GetIndexdir
  <1>11. CASE NoIndexdir(m)
    BY <1>11 DEF NoIndexdir
  <1>12. CASE CheckLayer(m)
    BY <1>12 DEF CheckLayer
  <1>13. CASE Finish(m)
    BY <1>13 DEF Finish
  <1>14. CASE StepFails(m)
    BY <1>14 DEF StepFails
  <1>15. CASE PutSuper(m)
    BY <1>15 DEF PutSuper
  <1>16. CASE FreeWork(m)
    BY <1>16 DEF FreeWork
  <1>17. CASE FreeUpper(m)
    BY <1>17 DEF FreeUpper
  <1>18. CASE Remount(m)
    BY <1>18 DEF Remount
  <1>q. QED
    BY <1>2, <1>3, <1>4, <1>5, <1>6, <1>7, <1>8, <1>9,
       <1>10, <1>11, <1>12, <1>13, <1>14, <1>15, <1>16, <1>17, <1>18 DEF Step

\* The thread starts in ovl_mount and stops in ovl_put_super.
LEMMA ThreadKeptBy ==
  ASSUME TypeInv, NEW m \in Mounts, Step(m), ~Mount(m), ~PutSuper(m)
  PROVE  UNCHANGED <<thread, running, misstopped>>
PROOF
  <1> USE DEF Fail, threads
  <1>2. CASE GetUpper(m)
    BY <1>2 DEF GetUpper
  <1>3. CASE GetWorkdir(m)
    BY <1>3 DEF GetWorkdir
  <1>4. CASE MakeWorkdir(m)
    BY <1>4 DEF MakeWorkdir
  <1>5. CASE NoWorkdir(m)
    BY <1>5 DEF NoWorkdir
  <1>6. CASE GetLowerstack(m)
    BY <1>6 DEF GetLowerstack
  <1>7. CASE GetLowerLayer(m)
    BY <1>7 DEF GetLowerLayer
  <1>8. CASE LayersDone(m)
    BY <1>8 DEF LayersDone
  <1>9. CASE VerifyOrigin(m)
    BY <1>9 DEF VerifyOrigin
  <1>10. CASE GetIndexdir(m)
    BY <1>10 DEF GetIndexdir
  <1>11. CASE NoIndexdir(m)
    BY <1>11 DEF NoIndexdir
  <1>12. CASE CheckLayer(m)
    BY <1>12 DEF CheckLayer
  <1>13. CASE Finish(m)
    BY <1>13 DEF Finish
  <1>14. CASE StepFails(m)
    BY <1>14 DEF StepFails
  <1>16. CASE FreeWork(m)
    BY <1>16 DEF FreeWork
  <1>17. CASE FreeUpper(m)
    BY <1>17 DEF FreeUpper
  <1>18. CASE Remount(m)
    BY <1>18 DEF Remount
  <1>q. QED
    BY <1>2, <1>3, <1>4, <1>5, <1>6, <1>7, <1>8, <1>9,
       <1>10, <1>11, <1>12, <1>13, <1>14, <1>16, <1>17, <1>18 DEF Step

LEMMA OfferedKept ==
  ASSUME NEW m \in Mounts, Step(m)
  PROVE  offered' = offered
PROOF
  <1>1. CASE Mount(m)
    BY <1>1 DEF Mount
  <1>2. CASE GetUpper(m)
    BY <1>2 DEF GetUpper
  <1>3. CASE GetWorkdir(m)
    BY <1>3 DEF GetWorkdir
  <1>4. CASE MakeWorkdir(m)
    BY <1>4 DEF MakeWorkdir
  <1>5. CASE NoWorkdir(m)
    BY <1>5 DEF NoWorkdir
  <1>6. CASE GetLowerstack(m)
    BY <1>6 DEF GetLowerstack
  <1>7. CASE GetLowerLayer(m)
    BY <1>7 DEF GetLowerLayer
  <1>8. CASE LayersDone(m)
    BY <1>8 DEF LayersDone
  <1>9. CASE VerifyOrigin(m)
    BY <1>9 DEF VerifyOrigin
  <1>10. CASE GetIndexdir(m)
    BY <1>10 DEF GetIndexdir
  <1>11. CASE NoIndexdir(m)
    BY <1>11 DEF NoIndexdir
  <1>12. CASE CheckLayer(m)
    BY <1>12 DEF CheckLayer
  <1>13. CASE Finish(m)
    BY <1>13 DEF Finish
  <1>14. CASE StepFails(m)
    BY <1>14 DEF StepFails
  <1>15. CASE PutSuper(m)
    BY <1>15 DEF PutSuper
  <1>16. CASE FreeWork(m)
    BY <1>16 DEF FreeWork
  <1>17. CASE FreeUpper(m)
    BY <1>17 DEF FreeUpper
  <1>18. CASE Remount(m)
    BY <1>18 DEF Remount
  <1>q. QED
    BY <1>1, <1>2, <1>3, <1>4, <1>5, <1>6, <1>7, <1>8, <1>9,
       <1>10, <1>11, <1>12, <1>13, <1>14, <1>15, <1>16, <1>17, <1>18 DEF Step

-----------------------------------------------------------------------------
(* Sequences and paths. *)

LEMMA TailSet ==
  ASSUME NEW S, NEW s \in Seq(S), s # <<>>
  PROVE  ToSet(s) = {Head(s)} \cup ToSet(Tail(s))
PROOF
  <1>1. /\ Tail(s) \in Seq(S) /\ Len(Tail(s)) = Len(s) - 1
        /\ \A i \in 1 .. Len(Tail(s)) : Tail(s)[i] = s[i + 1]
    BY HeadTailProperties
  <1>2. Len(s) \in Nat /\ DOMAIN s = 1 .. Len(s) /\ DOMAIN Tail(s) = 1 .. Len(s) - 1
    BY <1>1, LenProperties
  <1>3. Len(s) # 0 /\ Head(s) = s[1]
    BY <1>2
  <1>4. ASSUME NEW i \in DOMAIN s
        PROVE  s[i] \in {Head(s)} \cup ToSet(Tail(s))
    <2>1. CASE i = 1
      BY <1>3, <2>1
    <2>2. CASE i # 1
      <3>1. i - 1 \in DOMAIN Tail(s) /\ Tail(s)[i - 1] = s[i]
        BY <1>1, <1>2, <2>2
      <3>q. QED
        BY <3>1 DEF ToSet
    <2>q. QED
      BY <2>1, <2>2
  <1>5. ASSUME NEW i \in DOMAIN Tail(s)
        PROVE  Tail(s)[i] \in ToSet(s)
    <2>1. i + 1 \in DOMAIN s /\ Tail(s)[i] = s[i + 1]
      BY <1>1, <1>2
    <2>q. QED
      BY <2>1 DEF ToSet
  <1>6. Head(s) \in ToSet(s)
    BY <1>2, <1>3 DEF ToSet
  <1>q. QED
    BY <1>4, <1>5, <1>6 DEF ToSet

LEMMA InToSet ==
  ASSUME NEW S, NEW s \in Seq(S)
  PROVE  /\ \A i \in 1 .. Len(s) : s[i] \in ToSet(s)
         /\ \A d \in ToSet(s) : d \in S /\ \E i \in 1 .. Len(s) : s[i] = d
  BY LenProperties, ElementOfSeq DEF ToSet

\* A directory that another one is in is one of its ancestors.
LEMMA InsideAncestor ==
  ASSUME NEW d \in Dir, NEW e \in Dir \ {NoDir}, Inside(d, e)
  PROVE  e \in Ancestors(d)
PROOF
  <1>1. /\ Len(e) <= Len(d) /\ SubSeq(e, 1, Len(e)) = SubSeq(d, 1, Len(e)) /\ e # d
    BY DEF Inside, IsStrictPrefix, IsPrefix
  <1>2. SubSeq(e, 1, Len(e)) = e /\ SubSeq(d, 1, Len(d)) = d
    BY SubSeqFull DEF Dir
  <1>3. Len(e) \in Nat /\ Len(d) \in Nat /\ Len(e) # 0
    BY LenProperties, EmptySeq DEF Dir, NoDir
  <1>4. Len(e) \in 1 .. Len(d) - 1
    BY <1>1, <1>2, <1>3
  <1>q. QED
    BY <1>1, <1>2, <1>4 DEF Ancestors

\* The roots of an overlay, by index and as a set.
LEMMA RootsFacts ==
  ASSUME TypeInv, NEW m \in Mounts
  PROVE  /\ Roots(m) \in Seq(Dir) /\ DOMAIN Roots(m) = 1 .. Len(Roots(m))
         /\ ~ofs[m].upper_mnt => Roots(m) = Lowers(m)
         /\ ofs[m].upper_mnt =>
              /\ Len(Roots(m)) = Len(Lowers(m)) + 2
              /\ Roots(m)[1] = Upper(m) /\ Roots(m)[2] = Base(m)
              /\ \A i \in 3 .. Len(Lowers(m)) + 2 : Roots(m)[i] = Lowers(m)[i - 2]
         /\ ToSet(Roots(m)) = (IF ofs[m].upper_mnt THEN {Upper(m), Base(m)} ELSE {})
                                \cup ToSet(Lowers(m))
PROOF
  <1>1. Upper(m) \in Dir /\ Base(m) \in Dir /\ Lowers(m) \in Seq(Dir)
    <2>1. \A S, T : S \subseteq T => Seq(S) \subseteq Seq(T)
      OBVIOUS
    <2>2. Upper(m) \in Dir /\ Base(m) \in Dir /\ Lowers(m) \in Seq(Dir \ {NoDir})
      BY DEF TypeInv, Upper, Base, Lowers
    <2>3. Dir \ {NoDir} \subseteq Dir
      OBVIOUS
    <2> HIDE DEF Dir, NoDir
    <2>q. QED
      BY <2>1, <2>2, <2>3
  <1> DEFINE u == <<Upper(m), Base(m)>>
             l == Lowers(m)
  <1>2. /\ u \in Seq(Dir) /\ Len(u) = 2 /\ u[1] = Upper(m) /\ u[2] = Base(m)
        /\ Len(l) \in Nat /\ DOMAIN l = 1 .. Len(l)
    BY <1>1, LenProperties
  <1>3. CASE ~ofs[m].upper_mnt
    <2>1. Roots(m) = l
      BY <1>1, <1>3, ConcatEmptySeq DEF Roots
    <2>q. QED
      BY <1>1, <1>2, <1>3, <2>1
  <1>4. CASE ofs[m].upper_mnt
    <2>1. Roots(m) = u \o l
      BY <1>4 DEF Roots
    <2>8. l \in Seq(Dir)
      BY <1>1
    <2> HIDE DEF u, l
    <2>9. /\ u \o l \in Seq(Dir) /\ Len(u \o l) = Len(u) + Len(l)
          /\ \A i \in 1 .. Len(u) + Len(l) :
               (u \o l)[i] = IF i <= Len(u) THEN u[i] ELSE l[i - Len(u)]
      BY <1>2, <2>8, ConcatProperties, Zenon
    <2>2. /\ u \o l \in Seq(Dir) /\ Len(u \o l) = 2 + Len(l)
          /\ \A i \in 1 .. 2 + Len(l) : (u \o l)[i] = IF i <= 2 THEN u[i] ELSE l[i - 2]
      BY <1>2, <2>9
    <2>3. DOMAIN (u \o l) = 1 .. 2 + Len(l)
      BY <2>2, LenProperties
    <2>4. /\ (u \o l)[1] = Upper(m) /\ (u \o l)[2] = Base(m)
          /\ \A i \in 3 .. Len(l) + 2 : (u \o l)[i] = l[i - 2]
      BY <1>2, <2>2
    <2>5. ToSet(u \o l) \subseteq {Upper(m), Base(m)} \cup ToSet(l)
      <3>1. SUFFICES ASSUME NEW i \in 1 .. 2 + Len(l)
                     PROVE  (u \o l)[i] \in {Upper(m), Base(m)} \cup ToSet(l)
        BY <2>3 DEF ToSet
      <3>2. CASE i <= 2
        <4>1. i = 1 \/ i = 2
          BY <3>2
        <4>q. QED
          BY <2>4, <4>1
      <3>3. CASE ~(i <= 2)
        <4>1. i \in 3 .. Len(l) + 2 /\ i - 2 \in DOMAIN l
          BY <1>2, <3>3
        <4>q. QED
          BY <4>1, <2>4 DEF ToSet
      <3>q. QED
        BY <3>2, <3>3
    <2>6. {Upper(m), Base(m)} \cup ToSet(l) \subseteq ToSet(u \o l)
      <3>1. Upper(m) \in ToSet(u \o l) /\ Base(m) \in ToSet(u \o l)
        <4>1. 1 \in DOMAIN (u \o l) /\ 2 \in DOMAIN (u \o l)
          BY <1>2, <2>3
        <4>q. QED
          BY <4>1, <2>4 DEF ToSet
      <3>2. ASSUME NEW i \in DOMAIN l
            PROVE  l[i] \in ToSet(u \o l)
        <4>1. i + 2 \in DOMAIN (u \o l) /\ (u \o l)[i + 2] = l[i]
          BY <1>2, <2>3, <2>4
        <4>q. QED
          BY <4>1 DEF ToSet
      <3>q. QED
        BY <3>1, <3>2 DEF ToSet
    <2>7. /\ Len(u \o l) = Len(l) + 2 /\ DOMAIN (u \o l) = 1 .. Len(u \o l)
      BY <1>2, <2>2, <2>3
    <2>q. QED
      BY <1>4, <2>1, <2>2, <2>4, <2>5, <2>6, <2>7 DEF l
  <1>q. QED
    BY <1>3, <1>4

\* The directories that a request names.
LEMMA RequestNamed ==
  ASSUME NEW r \in Requests
  PROVE  /\ r \in Request
         /\ r.upper \in Named \cup {NoDir} /\ r.work \in Named \cup {NoDir}
         /\ ToSet(r.lowers) \subseteq Named /\ r.lowers # <<>>
PROOF
  <1>1. r \in Request
    BY MountAssumption
  <1>2. r.lowers \in Seq(Dir \ {NoDir}) /\ r.lowers # <<>>
    BY <1>1 DEF Request
  <1>3. NoDir \notin ToSet(r.lowers)
    BY <1>2, InToSet
  <1> DEFINE X(q) == {q.upper, q.work} \cup ToSet(q.lowers)
  <1>5. Named = (UNION {X(q) : q \in Requests}) \ {NoDir}
    BY Zenon DEF Named
  <1> HIDE DEF X
  <1>6. X(r) \subseteq Named \cup {NoDir}
    <2>1. SUFFICES ASSUME NEW d \in X(r), d # NoDir
                   PROVE  d \in Named
      BY Zenon
    <2>2. \E Y \in {X(q) : q \in Requests} : d \in Y
      BY Zenon
    <2>3. d \in UNION {X(q) : q \in Requests}
      BY <2>2, Zenon
    <2> DEFINE U == UNION {X(q) : q \in Requests}
    <2>4. Named = U \ {NoDir} /\ d \in U
      BY <1>5, <2>3
    <2> HIDE DEF U
    <2>q. QED
      BY <2>1, <2>4
  <1>4. {r.upper, r.work} \cup ToSet(r.lowers) \subseteq Named \cup {NoDir}
    BY <1>6 DEF X
  <1>q. QED
    BY <1>1, <1>2, <1>3, <1>4

-----------------------------------------------------------------------------
(* Requests. *)

\* The order of the steps of ovl_fill_super.
LEMMA PcStep ==
  ASSUME TypeInv, NEW m \in Mounts, Step(m), ~Mount(m)
  PROVE  /\ pc'[m] \in Up => pc[m] \in Up
         /\ pc'[m] # "upper" /\ pc'[m] # "none"
         /\ pc'[m] = "work" => pc[m] = "upper"
         /\ pc'[m] = "makework" => pc[m] = "work"
         /\ pc'[m] = "index" => pc[m] = "origin"
         /\ pc'[m] = "origin" => pc[m] = "layers" /\ ofs[m].upper_mnt
         /\ pc'[m] = "live" => pc[m] \in {"overlap", "live"}
         /\ pc'[m] # "live" /\ pc[m] = "live" => PutSuper(m)
PROOF
  <1> USE DEF Up, Uppered, Worked, Made, Layered, Indexing, Checking
  <1>1. CASE GivesUp(m)
    BY <1>1 DEF GivesUp
  <1>2. CASE GetUpper(m) /\ ~GivesUp(m)
    BY <1>2, GetUpperFacts
  <1>3. CASE GetWorkdir(m) /\ ~GivesUp(m)
    BY <1>3, GetWorkdirFacts
  <1>4. CASE MakeWorkdir(m)
    BY <1>4, MakeWorkdirFacts
  <1>5. CASE NoWorkdir(m)
    BY <1>5, NoWorkdirFacts
  <1>6. CASE GetLowerstack(m) /\ ~GivesUp(m)
    BY <1>6, GetLowerstackFacts
  <1>7. CASE GetLowerLayer(m)
    BY <1>7, GetLowerLayerFacts
  <1>8. CASE LayersDone(m)
    BY <1>8, LayersDoneFacts
  <1>9. CASE VerifyOrigin(m) /\ ~GivesUp(m)
    BY <1>9, VerifyOriginFacts
  <1>10. CASE GetIndexdir(m)
    BY <1>10, GetIndexdirFacts
  <1>11. CASE NoIndexdir(m)
    BY <1>11, NoIndexdirFacts
  <1>12. CASE CheckLayer(m) /\ ~GivesUp(m)
    BY <1>12, CheckLayerFacts
  <1>13. CASE Finish(m)
    BY <1>13, FinishFacts
  <1>14. CASE PutSuper(m)
    BY <1>14, PutSuperFacts
  <1>15. CASE FreeWork(m)
    BY <1>15, FreeWorkFacts
  <1>16. CASE FreeUpper(m)
    BY <1>16, FreeUpperFacts
  <1>17. CASE Remount(m)
    BY <1>17, RemountFacts
  <1>q. QED
    BY <1>1, <1>2, <1>3, <1>4, <1>5, <1>6, <1>7, <1>8, <1>9, <1>10, <1>11, <1>12, <1>13, <1>14,
       <1>15, <1>16, <1>17, StepFailsFacts DEF Step

\* The request that ovl_mount makes of the options.
LEMMA MountAsked ==
  ASSUME TypeInv, NEW m \in Mounts, Mount(m)
  PROVE  /\ req'[m] \in Requests \cup {[r EXCEPT !.work = NoDir] : r \in Requests}
         /\ req'[m] \in Request
         /\ req'[m].upper \in Named \cup {NoDir} /\ req'[m].work \in Named \cup {NoDir}
         /\ ToSet(req'[m].lowers) \subseteq Named /\ req'[m].lowers # <<>>
         /\ req'[m].upper = NoDir => req'[m].work = NoDir
         /\ pc'[m] \in {"free", "lower", "upper"}
         /\ pc'[m] = "upper" => req'[m].upper # NoDir /\ req'[m].work # NoDir
         /\ pc'[m] = "lower" => req'[m].upper = NoDir
         /\ config'[m].index = req'[m].index /\ config'[m].xino = req'[m].xino
         /\ config'[m].metacopy => config'[m].redirect_dir
PROOF
  <1>1. PICK r \in Requests :
           /\ req'[m] = IF r.upper = NoDir THEN [r EXCEPT !.work = NoDir] ELSE r
           /\ config'[m] = ParseOpt(r).config
           /\ \/ pc'[m] = "free"
              \/ pc'[m] = "lower" /\ r.upper = NoDir
              \/ pc'[m] = "upper" /\ r.upper # NoDir /\ r.work # NoDir
    BY MountFacts
  <1>2. /\ r \in Request
        /\ r.upper \in Named \cup {NoDir} /\ r.work \in Named \cup {NoDir}
        /\ ToSet(r.lowers) \subseteq Named /\ r.lowers # <<>>
    BY RequestNamed
  <1> DEFINE q == [r EXCEPT !.work = NoDir]
  <1>3. NoDir \in Dir
    BY EmptySeq DEF NoDir, Dir
  <1>4. q \in Request
    BY <1>2, <1>3, Zenon DEF Request
  <1>5. /\ q.upper = r.upper /\ q.work = NoDir /\ q.lowers = r.lowers /\ q.index = r.index
        /\ q.xino = r.xino
    BY <1>2 DEF Request
  <1>6. /\ ParseOpt(r).config.metacopy => ParseOpt(r).config.redirect_dir
        /\ ParseOpt(r).config.index = r.index /\ ParseOpt(r).config.xino = r.xino
    BY ParseOptType
  <1>7. q \in {[p EXCEPT !.work = NoDir] : p \in Requests}
    OBVIOUS
  <1> HIDE DEF q
  <1>8. req'[m] = IF r.upper = NoDir THEN q ELSE r
    BY <1>1 DEF q
  <1>9. CASE r.upper = NoDir
    <2>1. req'[m] = q
      BY <1>8, <1>9
    <2>q. QED
      BY <1>1, <1>2, <1>4, <1>5, <1>6, <1>7, <1>9, <2>1
  <1>10. CASE r.upper # NoDir
    <2>1. req'[m] = r
      BY <1>8, <1>10
    <2>q. QED
      BY <1>1, <1>2, <1>6, <1>10, <2>1
  <1>q. QED
    BY <1>9, <1>10

LEMMA AskedStep ==
  ASSUME TypeInv, AskedInv, HoldInv, NEW m \in Mounts, Step(m)
  PROVE  AskedInv'
PROOF
  <1>1. SUFFICES ASSUME NEW n \in Mounts
                 PROVE  Asked(n)'
    BY DEF AskedInv
  <1>0. Asked(n)
    BY DEF AskedInv
  <1>2. CASE n # m
    BY <1>0, <1>2, OthersSame DEF Same, Asked, Upper, Base, Lowers
  <1>3. CASE n = m /\ Mount(m)
    BY <1>3, MountAsked DEF Asked, Upper, Base, Lowers, Up, Uppered, Worked, Made, Layered,
       Indexing, Checking
  <1>4. CASE n = m /\ ~Mount(m)
    <2>1. req' = req
      BY <1>4, RequestKept
    <2>2. pc'[m] = "origin" => Upper(m) # NoDir
      BY <1>4, PcStep DEF HoldInv, Holds
    <2>q. QED
      BY <1>0, <1>4, <2>1, <2>2, PcStep DEF Asked, Upper, Base, Lowers
  <1>q. QED
    BY <1>2, <1>3, <1>4

-----------------------------------------------------------------------------
(* Types, continued. *)

LEMMA ReqType ==
  ASSUME TypeInv, NEW m \in Mounts, Step(m)
  PROVE  /\ req' \in [Mounts -> [upper : Dir, work : Dir, lowers : Seq(Dir \ {NoDir}),
                         index : BOOLEAN, nfs_export : BOOLEAN,
                         metacopy : {"default", "on", "off"},
                         redirect : {"default", "on", "follow", "off", "nofollow"},
                         xino : {"off", "auto", "on"}, rdonly : BOOLEAN]]
         /\ \A n \in Mounts : req'[n] \in Requests \cup {NoRequest}
                                \cup {[r EXCEPT !.work = NoDir] : r \in Requests}
PROOF
  <1> DEFINE R == [upper : Dir, work : Dir, lowers : Seq(Dir \ {NoDir}),
                   index : BOOLEAN, nfs_export : BOOLEAN,
                   metacopy : {"default", "on", "off"},
                   redirect : {"default", "on", "follow", "off", "nofollow"},
                   xino : {"off", "auto", "on"}, rdonly : BOOLEAN]
  <1>1. req \in [Mounts -> R] /\ \A n \in Mounts : req[n] \in Requests \cup {NoRequest}
                                   \cup {[r EXCEPT !.work = NoDir] : r \in Requests}
    BY DEF TypeInv, TypeOK
  <1>2. Request \subseteq R
    BY Zenon DEF Request
  <1> HIDE DEF R
  <1>3. CASE Mount(m)
    <2>1. req'[m] \in R /\ req'[m] \in Requests \cup {[r EXCEPT !.work = NoDir] : r \in Requests}
      BY <1>2, <1>3, MountAsked
    <2>2. req' = [n \in Mounts |-> req'[n]]
      BY Functional
    <2>3. \A n \in Mounts : n # m => req'[n] = req[n]
      BY OthersSame DEF Same
    <2>4. \A n \in Mounts : req'[n] \in R
      BY <1>1, <2>1, <2>3
    <2>5. req' \in [Mounts -> R]
      BY <2>2, <2>4
    <2>q. QED
      BY <1>1, <2>1, <2>3, <2>5 DEF R
  <1>4. CASE ~Mount(m)
    BY <1>1, <1>4, RequestKept DEF R
  <1>q. QED
    BY <1>3, <1>4

LEMMA PcType ==
  ASSUME TypeInv, NEW m \in Mounts, Step(m)
  PROVE  pc' \in [Mounts -> {"none", "upper", "work", "makework", "lower", "layers", "origin",
                        "index", "overlap", "live", "free", "free_upper", "failed",
                        "unmounted"}]
PROOF
  <1> DEFINE P == {"none", "upper", "work", "makework", "lower", "layers", "origin",
                   "index", "overlap", "live", "free", "free_upper", "failed", "unmounted"}
  <1>0. pc \in [Mounts -> P]
    BY DEF TypeInv, TypeOK
  <1> SUFFICES pc'[m] \in P
    <2>1. pc' = [n \in Mounts |-> pc'[n]] /\ \A n \in Mounts : n # m => pc'[n] = pc[n]
      BY Functional, OthersSame DEF Same
    <2> HIDE DEF P
    <2>2. ASSUME pc'[m] \in P, NEW n \in Mounts
          PROVE  pc'[n] \in P
      BY <1>0, <2>1, <2>2
    <2>q. QED
      BY <2>1, <2>2 DEF P
  <1>2. CASE GivesUp(m)
    BY <1>2 DEF GivesUp
  <1>3. CASE ~GivesUp(m)
    <2>1. CASE Mount(m)
      BY <2>1, MountAsked
    <2>2. CASE GetUpper(m) \/ GetWorkdir(m) \/ MakeWorkdir(m) \/ NoWorkdir(m)
      BY <1>3, <2>2, GetUpperFacts, GetWorkdirFacts, MakeWorkdirFacts, NoWorkdirFacts
    <2>3. CASE GetLowerstack(m) \/ GetLowerLayer(m) \/ LayersDone(m) \/ VerifyOrigin(m)
      BY <1>3, <2>3, GetLowerstackFacts, GetLowerLayerFacts, LayersDoneFacts, VerifyOriginFacts
    <2>4. CASE GetIndexdir(m) \/ NoIndexdir(m) \/ CheckLayer(m) \/ Finish(m)
      BY <1>0, <1>3, <2>4, GetIndexdirFacts, NoIndexdirFacts, CheckLayerFacts, FinishFacts
    <2>5. CASE PutSuper(m) \/ FreeWork(m) \/ FreeUpper(m) \/ Remount(m)
      BY <1>0, <1>3, <2>5, PutSuperFacts, FreeWorkFacts, FreeUpperFacts, RemountFacts
    <2>q. QED
      BY <1>3, <2>1, <2>2, <2>3, <2>4, <2>5, StepFailsFacts DEF Step
  <1>q. QED
    BY <1>2, <1>3

LEMMA ResultType ==
  ASSUME TypeInv, NEW m \in Mounts, Step(m)
  PROVE  result' \in [Mounts -> {"0", "EINVAL", "EBUSY", "ELOOP", "ESTALE", "EIO", "unmounted"}]
PROOF
  <1> USE DEF TypeInv, Fail
  <1>1. CASE Mount(m)
    BY <1>1 DEF Mount
  <1>2. CASE GetUpper(m) \/ GetWorkdir(m) \/ MakeWorkdir(m) \/ NoWorkdir(m)
    BY <1>2 DEF GetUpper, GetWorkdir, MakeWorkdir, NoWorkdir
  <1>3. CASE GetLowerstack(m) \/ GetLowerLayer(m) \/ LayersDone(m) \/ VerifyOrigin(m)
    BY <1>3 DEF GetLowerstack, GetLowerLayer, LayersDone, VerifyOrigin
  <1>4. CASE GetIndexdir(m)
    BY <1>4 DEF GetIndexdir
  <1>5. CASE NoIndexdir(m) \/ CheckLayer(m) \/ Finish(m) \/ StepFails(m)
    BY <1>5 DEF NoIndexdir, CheckLayer, Finish, StepFails
  <1>6. CASE PutSuper(m) \/ FreeWork(m) \/ FreeUpper(m) \/ Remount(m)
    BY <1>6 DEF PutSuper, FreeWork, FreeUpper, Remount
  <1>q. QED
    BY <1>1, <1>2, <1>3, <1>4, <1>5, <1>6 DEF Step

\* The lower layer that the loop of ovl_get_lower_layers is at is one of the request's.
LEMMA LayerIndex ==
  ASSUME TypeInv, AskedInv, NEW m \in Mounts, GetLowerLayer(m)
  PROVE  /\ ofs[m].numlower \in Nat /\ Len(Lowers(m)) \in Nat
         /\ ofs[m].numlower + 1 \in 1 .. Len(Lowers(m))
         /\ Layer(m) \in ToSet(Lowers(m)) /\ Layer(m) \in Dir \ {NoDir}
PROOF
  <1>1. Lowers(m) \in Seq(Dir \ {NoDir}) /\ Len(Lowers(m)) \in Nat
    BY DirsType, LenProperties
  <1>2. ofs[m].numlower < Len(Lowers(m))
    BY GetLowerLayerFacts
  <1>3. ofs[m] \in Ofs
    BY DEF TypeInv
  <1>4. ofs[m].numlower \in Nat
    BY <1>3, Zenon DEF Ofs
  <1>5. ofs[m].numlower + 1 \in 1 .. Len(Lowers(m))
    BY <1>1, <1>2, <1>4
  <1>6. Layer(m) \in ToSet(Lowers(m))
    BY <1>1, <1>5, InToSet DEF Layer
  <1>q. QED
    BY <1>1, <1>4, <1>5, <1>6, InToSet

\* Traps are directories, and ofs holds no other.
LEMMA TrapsType ==
  ASSUME TypeInv, AskedInv, NEW m \in Mounts, Step(m)
  PROVE  /\ traps' \in [Mounts -> SUBSET (Dir \ {NoDir})]
         /\ \A n \in Mounts : ofs'[n].held \subseteq traps'[n]
PROOF
  <1> DEFINE D == Dir \ {NoDir}
  <1>0. traps[m] \subseteq D /\ ofs[m].held \subseteq traps[m]
    BY DEF TypeInv, TypeOK
  <1>1. SUFFICES traps'[m] \subseteq D /\ ofs'[m].held \subseteq traps'[m]
    <2>1. \A n \in Mounts : n # m => /\ traps'[n] \subseteq D
                                     /\ ofs'[n].held \subseteq traps'[n]
      BY OthersSame DEF Same, TypeInv, TypeOK
    <2> HIDE DEF D
    <2>2. \A n \in Mounts : traps'[n] \subseteq D /\ ofs'[n].held \subseteq traps'[n]
      BY <1>1, <2>1
    <2>3. traps' \in [Mounts -> SUBSET D]
      BY <2>2, Functional
    <2>q. QED
      BY <2>2, <2>3 DEF D
  <1>2. /\ WorkDir(Base(m)) \in D /\ IndexDir(Base(m)) \in D
        /\ Upper(m) \in Dir /\ Base(m) \in Dir /\ Lowers(m) \in Seq(D)
    BY DirsType
  <1>3. CASE GivesUp(m)
    BY <1>0, <1>3 DEF GivesUp
  <1>4. CASE Mount(m)
    <2>1. traps'[m] = {} /\ \E x \in Nat, y \in BOOLEAN : ofs'[m] = [NoOfs EXCEPT !.xino_bits = x, !.rdonly = y]
      <3>1. PICK r \in Requests : /\ traps'[m] = {}
                                  /\ ofs'[m] = [NoOfs EXCEPT !.xino_bits = IF r.xino = "off" THEN 0 ELSE HighBits,
                                                             !.rdonly = r.rdonly]
        BY <1>4, MountFacts
      <3>2. r.rdonly \in BOOLEAN /\ (IF r.xino = "off" THEN 0 ELSE HighBits) \in Nat
        BY MountAssumption DEF Request
      <3>q. QED
        BY <3>1, <3>2
    <2>q. QED
      BY <2>1 DEF NoOfs
  <1>5. CASE GetUpper(m) /\ ~GivesUp(m)
    <2>1. Upper(m) \in D
      BY <1>2, <1>5, GetUpperFacts DEF AskedInv, Asked
    <2> HIDE DEF D
    <2>2. /\ traps'[m] = traps[m] \cup {Upper(m)}
          /\ ofs'[m].held = ofs[m].held \cup {Upper(m)}
      BY <1>5, GetUpperFacts
    <2>q. QED
      BY <1>0, <2>1, <2>2
  <1>6. CASE GetWorkdir(m) /\ ~GivesUp(m)
    <2>1. Base(m) \in D
      BY <1>2, <1>6, GetWorkdirFacts DEF AskedInv, Asked, Up, Uppered
    <2> HIDE DEF D
    <2>2. \/ traps'[m] = traps[m] /\ ofs'[m].held = ofs[m].held
          \/ /\ traps'[m] = traps[m] \cup {Base(m)}
             /\ ofs'[m].held = ofs[m].held \cup {Base(m)}
      BY <1>6, GetWorkdirFacts
    <2>q. QED
      BY <1>0, <2>1, <2>2
  <1>7. CASE MakeWorkdir(m) \/ NoWorkdir(m)
    BY <1>0, <1>2, <1>7, MakeWorkdirFacts, NoWorkdirFacts
  <1>8. CASE GetLowerLayer(m)
    <2>1. Layer(m) \in D
      BY <1>8, LayerIndex
    <2> HIDE DEF D
    <2>q. QED
      BY <1>0, <1>8, <2>1, GetLowerLayerFacts
  <1>9. CASE ((GetLowerstack(m) \/ VerifyOrigin(m)) /\ ~GivesUp(m)) \/ LayersDone(m)
    BY <1>0, <1>9, GetLowerstackFacts, LayersDoneFacts, VerifyOriginFacts
  <1>10. CASE GetIndexdir(m) \/ NoIndexdir(m)
    <2> HIDE DEF D
    <2>1. CASE GetIndexdir(m)
      <3>1. /\ traps'[m] = traps[m] \cup {IndexDir(Base(m))}
            /\ ofs'[m].held = ofs[m].held \cup {IndexDir(Base(m))} /\ IndexDir(Base(m)) \in D
        BY <1>2, <2>1, GetIndexdirFacts
      <3>q. QED
        BY <1>0, <3>1
    <2>2. CASE NoIndexdir(m)
      BY <1>0, <2>2, NoIndexdirFacts
    <2>q. QED
      BY <1>10, <2>1, <2>2
  <1>11. CASE (CheckLayer(m) /\ ~GivesUp(m)) \/ Finish(m) \/ PutSuper(m)
    BY <1>0, <1>11, CheckLayerFacts, FinishFacts, PutSuperFacts
  <1>12. CASE FreeWork(m) \/ Remount(m)
    BY <1>0, <1>12, FreeWorkFacts, RemountFacts
  <1>13. CASE FreeUpper(m)
    BY <1>0, <1>13, FreeUpperFacts DEF NoOfs
  <1>q. QED
    BY <1>3, <1>4, <1>5, <1>6, <1>7, <1>8, <1>9, <1>10, <1>11, <1>12, <1>13, StepFailsFacts DEF Step

LEMMA TodoType ==
  ASSUME TypeInv, AskedInv, HoldInv, NEW m \in Mounts, Step(m)
  PROVE  todo' \in [Mounts -> Seq(Dir \ {NoDir})]
PROOF
  <1> DEFINE S == Seq(Dir \ {NoDir})
  <1>0. todo[m] \in S
    BY DEF TypeInv
  <1>1. SUFFICES todo'[m] \in S
    <2>1. \A n \in Mounts : n # m => todo'[n] \in S
      BY OthersSame DEF Same, TypeInv
    <2> HIDE DEF S
    <2>2. \A n \in Mounts : todo'[n] \in S
      BY <1>1, <2>1
    <2>3. todo' \in [Mounts -> S]
      BY <2>2, Functional
    <2>q. QED
      BY <2>3 DEF S
  <1>2. <<>> \in S
    BY EmptySeq
  <1>3. CASE Mount(m) \/ FreeUpper(m)
    BY <1>2, <1>3, MountFacts, FreeUpperFacts
  <1>4. CASE LayersDone(m)
    <2>1. todo'[m] = Roots(m) /\ Roots(m) \in Seq(Dir) /\ DOMAIN Roots(m) = 1 .. Len(Roots(m))
      BY <1>4, LayersDoneFacts, RootsFacts
    <2>2. NoDir \notin ToSet(Roots(m))
      <3>1. NoDir \notin ToSet(Lowers(m))
        BY DirsType, InToSet
      <3>2. ofs[m].upper_mnt => Upper(m) # NoDir /\ Base(m) # NoDir
        <4>1. pc[m] = "layers"
          BY <1>4, LayersDoneFacts
        <4>q. QED
          BY <4>1 DEF HoldInv, Holds, AskedInv, Asked, Up, Uppered, Worked, Made, Layered
      <3>q. QED
        BY <3>1, <3>2, RootsFacts
    <2>3. \A i \in 1 .. Len(Roots(m)) : Roots(m)[i] \in Dir \ {NoDir}
      BY <2>1, <2>2, ElementOfSeq, InToSet
    <2>4. Len(Roots(m)) \in Nat /\ Roots(m) \in [1 .. Len(Roots(m)) -> Dir]
      BY <2>1, LenProperties
    <2>5. Roots(m) \in [1 .. Len(Roots(m)) -> Dir \ {NoDir}]
      BY <2>3, <2>4
    <2>6. \A T : \A s : \A n \in Nat : s \in [1 .. n -> T] => s \in Seq(T)
      OBVIOUS
    <2>7. Roots(m) \in Seq(Dir \ {NoDir})
      BY <2>4, <2>5, <2>6
    <2>q. QED
      BY <2>1, <2>7
  <1>5. CASE CheckLayer(m) /\ ~GivesUp(m)
    <2>1. todo[m] # <<>> /\ todo'[m] = Tail(todo[m])
      BY <1>5, CheckLayerFacts
    <2>q. QED
      BY <1>0, <2>1, HeadTailProperties
  <1>6. CASE GivesUp(m)
    BY <1>0, <1>6 DEF GivesUp
  <1>7. CASE \/ GetUpper(m) \/ GetWorkdir(m) \/ MakeWorkdir(m) \/ NoWorkdir(m)
             \/ GetLowerstack(m) \/ GetLowerLayer(m) \/ VerifyOrigin(m)
             \/ GetIndexdir(m) \/ NoIndexdir(m) \/ Finish(m)
             \/ PutSuper(m) \/ FreeWork(m) \/ Remount(m)
    <2>1. todo' = todo
      BY <1>7 DEF GetUpper, GetWorkdir, MakeWorkdir, NoWorkdir, GetLowerstack, GetLowerLayer,
         VerifyOrigin, GetIndexdir, NoIndexdir, Finish, PutSuper, FreeWork, Remount, private
    <2>q. QED
      BY <1>0, <2>1
  <1>q. QED
    BY <1>3, <1>4, <1>5, <1>6, <1>7, StepFailsFacts DEF Step

\* A super block remembers those that were mounted before it, as long as they are.
LEMMA OlderStep ==
  ASSUME TypeInv, OlderInv, NEW m \in Mounts, Step(m)
  PROVE  /\ older' \in [Mounts -> SUBSET Mounts]
         /\ \A n \in Mounts : older'[n] \subseteq Mounts \ {n}
         /\ OlderInv'
PROOF
  <1>1. \A n \in Mounts : older[n] \subseteq Mounts \ {n} /\ \A k \in older[n] : k # n /\ pc[k] = "live"
    BY DEF TypeInv, TypeOK, OlderInv, Live
  <1>2. CASE Mount(m)
    <2>1. older'[m] = {n \in Mounts : pc[n] = "live"} /\ pc[m] \in Idle
      BY <1>2, MountFacts
    <2>2. \A n \in Mounts : n # m => older'[n] \subseteq older[n]
      BY OthersSame DEF Same
    <2>3. \A n \in Mounts : pc[n] = "live" => n # m /\ pc'[n] = "live"
      BY <2>1, OthersSame DEF Same, Idle
    <2>4. \A n \in Mounts : older'[n] \subseteq Mounts \ {n} /\ \A k \in older'[n] : k # n /\ pc'[k] = "live"
      BY <1>1, <2>1, <2>2, <2>3
    <2>q. QED
      BY <2>4, Functional DEF OlderInv, Live
  <1>3. CASE ~Mount(m)
    <2>1. \A n \in Mounts : older'[n] \subseteq older[n]
      <3>1. \A n \in Mounts : n # m => older'[n] \subseteq older[n]
        BY OthersSame DEF Same
      <3>2. older'[m] \subseteq older[m]
        <4>1. CASE PutSuper(m) \/ FreeUpper(m)
          BY <4>1, PutSuperFacts, FreeUpperFacts
        <4>2. CASE ~PutSuper(m) /\ ~FreeUpper(m)
          <5>1. older' = older
            BY <1>3, <4>2 DEF Step, GetUpper, GetWorkdir, MakeWorkdir, NoWorkdir, GetLowerstack,
               GetLowerLayer, LayersDone, VerifyOrigin, GetIndexdir, NoIndexdir, CheckLayer, Finish,
               StepFails, FreeWork, Remount
          <5>q. QED
            BY <5>1
        <4>q. QED
          BY <4>1, <4>2
      <3>q. QED
        BY <3>1, <3>2
    <2>2. \A n \in Mounts : \A k \in older'[n] : pc'[k] = "live"
      <3>1. SUFFICES ASSUME NEW n \in Mounts, NEW k \in older'[n]
                     PROVE  pc'[k] = "live"
        OBVIOUS
      <3>2. k \in Mounts /\ pc[k] = "live"
        BY <1>1, <2>1
      <3>3. CASE k # m
        BY <3>2, <3>3, OthersSame DEF Same
      <3>4. CASE k = m
        <4>1. ~PutSuper(m)
          BY <3>4, PutSuperFacts
        <4>q. QED
          BY <1>3, <3>2, <3>4, <4>1, PcStep
      <3>q. QED
        BY <3>3, <3>4
    <2>3. \A n \in Mounts : older'[n] \subseteq Mounts \ {n} /\ \A k \in older'[n] : k # n /\ pc'[k] = "live"
      BY <1>1, <2>1, <2>2
    <2>q. QED
      BY <2>3, Functional DEF OlderInv, Live
  <1>q. QED
    BY <1>2, <1>3

\* A new super block: nothing is done yet.
LEMMA MountOfs ==
  ASSUME TypeInv, NEW m \in Mounts, Mount(m)
  PROVE  /\ ofs'[m].upper_mnt = FALSE /\ ofs'[m].upperdir_locked = FALSE
         /\ ofs'[m].workdir_locked = FALSE /\ ofs'[m].workdir = FALSE /\ ofs'[m].indexdir = FALSE
         /\ ofs'[m].numlower = 0 /\ ofs'[m].lower_fs = <<>> /\ ofs'[m].held = {}
         /\ ofs'[m].xino_bits \in {0, HighBits}
PROOF
  <1>1. PICK r \in Requests :
          ofs'[m] = [NoOfs EXCEPT !.xino_bits = IF r.xino = "off" THEN 0 ELSE HighBits,
                                  !.rdonly = r.rdonly]
    BY MountFacts
  <1>2. PICK b \in {0, HighBits} : ofs'[m] = [NoOfs EXCEPT !.xino_bits = b, !.rdonly = r.rdonly]
    BY <1>1
  <1> DEFINE x == r.rdonly
  <1>3. ofs'[m] = [NoOfs EXCEPT !.xino_bits = b, !.rdonly = x]
    BY <1>2
  <1> HIDE DEF x
  <1>q. QED
    BY <1>3 DEF NoOfs

\* A super block that is gone.
LEMMA FreeUpperOfs ==
  ASSUME TypeInv, NEW m \in Mounts, FreeUpper(m)
  PROVE  /\ ofs'[m].upper_mnt = FALSE /\ ofs'[m].upperdir_locked = FALSE
         /\ ofs'[m].workdir_locked = FALSE /\ ofs'[m].workdir = FALSE /\ ofs'[m].indexdir = FALSE
         /\ ofs'[m].numlower = 0 /\ ofs'[m].lower_fs = <<>> /\ ofs'[m].held = {}
         /\ config'[m].index = FALSE /\ config'[m].nfs_export = FALSE
         /\ config'[m].metacopy = FALSE /\ pc'[m] \in {"failed", "unmounted"}
  BY FreeUpperFacts DEF NoOfs, NoConfig

\* The steps that leave the layers, and those that leave the marks alone.
LEMMA LayersKept ==
  ASSUME TypeInv, NEW m \in Mounts, Step(m), ~Mount(m), ~GetLowerLayer(m), ~FreeUpper(m)
  PROVE  KeepsLayers(m)
PROOF
  <1>1. CASE GivesUp(m)
    BY <1>1 DEF GivesUp, KeepsLayers
  <1>2. CASE ~GivesUp(m)
    <2>1. CASE GetUpper(m) \/ GetWorkdir(m) \/ MakeWorkdir(m) \/ NoWorkdir(m)
      BY <1>2, <2>1, GetUpperFacts, GetWorkdirFacts, MakeWorkdirFacts, NoWorkdirFacts
    <2>2. CASE GetLowerstack(m) \/ LayersDone(m) \/ GetIndexdir(m) \/ NoIndexdir(m)
      BY <1>2, <2>2, GetLowerstackFacts, LayersDoneFacts, GetIndexdirFacts, NoIndexdirFacts
    <2>3. CASE VerifyOrigin(m) \/ CheckLayer(m) \/ Finish(m) \/ PutSuper(m)
      BY <1>2, <2>3, VerifyOriginFacts, CheckLayerFacts, FinishFacts, PutSuperFacts DEF KeepsLayers
    <2>4. CASE FreeWork(m) \/ Remount(m)
      BY <2>4, FreeWorkFacts, RemountFacts
    <2>q. QED
      BY <1>2, <2>1, <2>2, <2>3, <2>4, StepFailsFacts DEF Step
  <1>q. QED
    BY <1>1, <1>2

LEMMA MarksKept ==
  ASSUME TypeInv, NEW m \in Mounts, Step(m), ~Mount(m), ~FreeWork(m), ~FreeUpper(m),
         ~GetUpper(m) \/ GivesUp(m), ~GetWorkdir(m) \/ GivesUp(m)
  PROVE  KeepsLocks(m) /\ inuse' = inuse
PROOF
  <1>1. CASE GivesUp(m)
    BY <1>1 DEF GivesUp, KeepsLocks
  <1>2. CASE ~GivesUp(m)
    <2>1. CASE MakeWorkdir(m) \/ NoWorkdir(m)
      BY <2>1, MakeWorkdirFacts, NoWorkdirFacts
    <2>2. CASE GetLowerstack(m) \/ GetLowerLayer(m) \/ LayersDone(m)
      BY <1>2, <2>2, GetLowerstackFacts, LayersDoneFacts, GetLowerLayerFacts
    <2>3. CASE VerifyOrigin(m) \/ CheckLayer(m) \/ Finish(m) \/ PutSuper(m)
      BY <1>2, <2>3, VerifyOriginFacts, CheckLayerFacts, FinishFacts, PutSuperFacts DEF KeepsLocks
    <2>4. CASE GetIndexdir(m) \/ NoIndexdir(m) \/ Remount(m)
      BY <2>4, GetIndexdirFacts, NoIndexdirFacts, RemountFacts
    <2>q. QED
      BY <1>2, <2>1, <2>2, <2>3, <2>4, StepFailsFacts DEF Step
  <1>q. QED
    BY <1>1, <1>2

LEMMA NumlowerType ==
  ASSUME TypeInv, AskedInv, NEW m \in Mounts, Step(m), NEW n \in Mounts
  PROVE  ofs'[n].numlower \in 0 .. Len(Lowers(n))'
PROOF
  <1>0. ofs[n].numlower \in 0 .. Len(Lowers(n)) /\ Len(Lowers(m)) \in Nat
    BY DirsType, LenProperties DEF TypeInv, TypeOK
  <1>1. CASE n # m
    BY <1>0, <1>1, OthersSame DEF Same, Lowers
  <1>2. CASE n = m
    <2>1. Len(Lowers(m))' \in Nat
      <3>1. req'[m].lowers \in Seq(Dir \ {NoDir})
        BY ReqType
      <3>q. QED
        BY <3>1, LenProperties DEF Lowers
    <2>2. CASE Mount(m) \/ FreeUpper(m)
      <3>1. ofs'[m].numlower = 0
        BY <2>2, MountOfs, FreeUpperOfs
      <3>q. QED
        BY <1>2, <2>1, <3>1
    <2>3. CASE GetLowerLayer(m)
      <3>1. Lowers(m)' = Lowers(m)
        BY <2>3, GetLowerLayerFacts DEF Lowers
      <3>2. ofs'[m].numlower \in {ofs[m].numlower, ofs[m].numlower + 1}
        BY <2>3, GetLowerLayerFacts
      <3>3. ofs[m].numlower + 1 \in 1 .. Len(Lowers(m))
        BY <2>3, LayerIndex
      <3>4. ofs'[m].numlower \in 0 .. Len(Lowers(m))
        BY <1>0, <1>2, <3>2, <3>3
      <3>q. QED
        BY <1>2, <3>1, <3>4
    <2>4. CASE ~Mount(m) /\ ~FreeUpper(m) /\ ~GetLowerLayer(m)
      <3>1. Lowers(m)' = Lowers(m) /\ ofs'[m].numlower = ofs[m].numlower
        BY <2>4, RequestKept, LayersKept DEF Lowers, KeepsLayers
      <3>q. QED
        BY <1>0, <1>2, <3>1
    <2>q. QED
      BY <2>2, <2>3, <2>4
  <1>q. QED
    BY <1>1, <1>2

LEMMA InuseType ==
  ASSUME TypeInv, AskedInv, NEW m \in Mounts, Step(m)
  PROVE  inuse' \subseteq Named
PROOF
  <1>0. inuse \subseteq Named
    BY DEF TypeInv, TypeOK
  <1>1. CASE Mount(m)
    BY <1>0, <1>1, MountFacts
  <1>2. CASE FreeWork(m) \/ FreeUpper(m)
    BY <1>0, <1>2, FreeWorkFacts, FreeUpperFacts
  <1>3. CASE GetUpper(m) /\ ~GivesUp(m)
    <2>1. Upper(m) \in Named
      BY <1>3, GetUpperFacts DEF AskedInv, Asked
    <2>2. inuse' = inuse \cup {Upper(m)}
      BY <1>3, GetUpperFacts
    <2>q. QED
      BY <1>0, <2>1, <2>2
  <1>4. CASE GetWorkdir(m) /\ ~GivesUp(m)
    <2>1. Base(m) \in Named
      BY <1>4, GetWorkdirFacts DEF AskedInv, Asked, Up, Uppered
    <2>2. inuse' \in {inuse, inuse \cup {Base(m)}}
      BY <1>4, GetWorkdirFacts
    <2>q. QED
      BY <1>0, <2>1, <2>2
  <1>q. QED
    BY <1>0, <1>1, <1>2, <1>3, <1>4, MarksKept

LEMMA DiskType ==
  ASSUME TypeInv, AskedInv, NEW m \in Mounts, Step(m)
  PROVE  /\ rootOrigin' \in [Named -> Dir] /\ indexUpper' \in [Named -> Dir]
         /\ \A d \in Named : /\ rootOrigin'[d] \in Named \cup {NoDir}
                             /\ indexUpper'[d] \in Named \cup {NoDir}
PROOF
  <1>0. /\ rootOrigin \in [Named -> Dir] /\ indexUpper \in [Named -> Dir]
        /\ \A d \in Named : /\ rootOrigin[d] \in Named \cup {NoDir}
                            /\ indexUpper[d] \in Named \cup {NoDir}
    BY DEF TypeInv, TypeOK
  <1>1. Upper(m) \in Dir /\ Lowers(m) \in Seq(Dir \ {NoDir})
    BY DirsType
  <1>2. CASE VerifyOrigin(m) /\ ~GivesUp(m)
    <2>1. Lowers(m) # <<>>
      BY <1>2, VerifyOriginFacts DEF AskedInv, Asked, Up, Uppered, Worked, Made, Layered, Indexing
    <2>2. Len(Lowers(m)) \in Nat /\ Len(Lowers(m)) # 0
      BY <1>1, <2>1, LenProperties, EmptySeq
    <2>3. Lowers(m)[1] \in ToSet(Lowers(m)) /\ Lowers(m)[1] \in Dir
      BY <1>1, <2>2, InToSet
    <2>4. Lowers(m)[1] \in Named
      BY <2>3 DEF AskedInv, Asked
    <2>q. QED
      BY <1>0, <1>2, <2>3, <2>4, VerifyOriginFacts
  <1>3. CASE GetIndexdir(m)
    <2>1. Upper(m) \in Named \cup {NoDir}
      BY DEF AskedInv, Asked
    <2>2. /\ rootOrigin' = rootOrigin
          /\ \/ indexUpper' = indexUpper
             \/ indexUpper' = [indexUpper EXCEPT ![Base(m)] = IF @ = NoDir THEN Upper(m) ELSE @]
      BY <1>3, GetIndexdirFacts
    <2>q. QED
      BY <1>0, <1>1, <2>1, <2>2
  <1>4. CASE GivesUp(m)
    BY <1>0, <1>4 DEF GivesUp
  <1>5. CASE ~GivesUp(m) /\ ~VerifyOrigin(m) /\ ~GetIndexdir(m)
    <2>1. UNCHANGED <<rootOrigin, indexUpper>>
      BY <1>5, StepFailsFacts DEF Step, Mount, GetUpper, GetWorkdir, MakeWorkdir, NoWorkdir,
         GetLowerstack, GetLowerLayer, LayersDone, NoIndexdir, CheckLayer, Finish, StepFails,
         PutSuper, FreeWork, FreeUpper, Remount, disk
    <2>q. QED
      BY <1>0, <2>1
  <1>q. QED
    BY <1>2, <1>3, <1>4, <1>5

LEMMA ThreadType ==
  ASSUME TypeInv, NEW m \in Mounts, Step(m)
  PROVE  /\ calls' \in 0 .. MaxMounts
         /\ thread' \in 0 .. MaxMounts /\ running' \subseteq 1 .. MaxMounts
         /\ misstopped' \in BOOLEAN
PROOF
  <1>0. /\ calls \in 0 .. MaxMounts /\ thread \in 0 .. MaxMounts /\ running \subseteq 1 .. MaxMounts
        /\ misstopped \in BOOLEAN
    BY DEF TypeInv, TypeOK
  <1>1. CASE Mount(m)
    <2>1. /\ thread' = calls + 1 /\ running' = running \cup {calls + 1}
          /\ calls < MaxMounts /\ calls' = calls + 1 /\ misstopped' = misstopped
      BY <1>1, MountFacts
    <2>2. calls + 1 \in 1 .. MaxMounts
      BY <1>0, <2>1, MountAssumption
    <2>q. QED
      BY <1>0, <2>1, <2>2
  <1>2. CASE PutSuper(m)
    <2>1. misstopped' \in BOOLEAN /\ running' = running \ {thread} /\ calls' = calls
          /\ thread' = thread
      BY <1>2 DEF PutSuper
    <2>q. QED
      BY <1>0, <2>1
  <1>3. CASE ~Mount(m) /\ ~PutSuper(m)
    <2>1. UNCHANGED <<thread, running, misstopped>>
      BY <1>3, ThreadKeptBy
    <2>2. calls' = calls
      BY <1>3, RequestKept
    <2>q. QED
      BY <1>0, <2>1, <2>2
  <1>q. QED
    BY <1>1, <1>2, <1>3

LEMMA TypeStep ==
  ASSUME TypeInv, AskedInv, HoldInv, OlderInv, SupportInv, FsidInv, NEW m \in Mounts, Step(m)
  PROVE  TypeInv'
PROOF
  <1>1. config' \in [Mounts -> Config]
    BY ConfigType
  <1>2. \A n \in Mounts :
          \A f \in {"index", "nfs_export", "metacopy", "redirect_dir", "redirect_follow"} :
            config'[n][f] \in BOOLEAN
    BY <1>1 DEF Config
  <1>3. \A n \in Mounts : ofs'[n].numlower \in 0 .. Len(Lowers(n))'
    BY NumlowerType
  <1>4. \A n \in Mounts : ofs'[n].held \subseteq traps'[n] /\ older'[n] \subseteq Mounts \ {n}
    BY TrapsType, OlderStep
  <1>5. \A n \in Mounts : req'[n] \in Requests \cup {NoRequest}
                            \cup {[r EXCEPT !.work = NoDir] : r \in Requests}
    BY ReqType
  <1>6. TypeOK'
    BY <1>2, <1>3, <1>4, <1>5, PcType, InuseType, DiskType, ThreadType DEF TypeOK
  <1>7. offered' \in Scenarios
    BY OfferedKept DEF TypeInv
  <1>q. QED
    BY <1>1, <1>6, <1>7, ReqType, OfsType, TrapsType, TodoType, ResultType, OlderStep, DiskType,
       ThreadType DEF TypeInv

-----------------------------------------------------------------------------
(* Marks. *)

\* Options are only ever switched off.
LEMMA OptionsOff ==
  ASSUME TypeInv, NEW m \in Mounts, Step(m), ~Mount(m)
  PROVE  /\ config'[m].index => config[m].index
         /\ config'[m].nfs_export => config[m].nfs_export
         /\ config'[m].metacopy => config[m].metacopy
PROOF
  <1>1. CASE FreeUpper(m)
    BY <1>1, FreeUpperOfs
  <1>2. CASE MakeWorkdir(m)
    BY <1>2, MakeWorkdirFacts
  <1>3. CASE GetLowerstack(m) /\ ~GivesUp(m)
    BY <1>3, GetLowerstackFacts DEF KeepsConfig
  <1>4. CASE GetLowerLayer(m)
    BY <1>4, GetLowerLayerFacts DEF KeepsConfig
  <1>5. CASE LayersDone(m)
    BY <1>5, LayersDoneFacts
  <1>6. CASE Finish(m)
    BY <1>6, FinishFacts DEF KeepsConfig
  <1>7. CASE GivesUp(m)
    BY <1>7 DEF GivesUp
  <1>8. CASE \/ GetUpper(m) \/ GetWorkdir(m) \/ NoWorkdir(m) \/ VerifyOrigin(m) \/ GetIndexdir(m)
             \/ NoIndexdir(m) \/ CheckLayer(m) \/ PutSuper(m) \/ FreeWork(m) \/ Remount(m)
    <2>1. config' = config
      BY <1>8 DEF GetUpper, GetWorkdir, NoWorkdir, VerifyOrigin, GetIndexdir, NoIndexdir,
         CheckLayer, PutSuper, FreeWork, Remount, private
    <2>q. QED
      BY <2>1
  <1>q. QED
    BY <1>1, <1>2, <1>3, <1>4, <1>5, <1>6, <1>7, <1>8, StepFailsFacts DEF Step

\* The steps between ovl_get_workdir and ovl_free_fs.
LEMMA MiddleStep ==
  ASSUME TypeInv, NEW m \in Mounts, Step(m), ~Mount(m), ~FreeWork(m), ~FreeUpper(m),
         ~GetUpper(m) \/ GivesUp(m), ~GetWorkdir(m) \/ GivesUp(m)
  PROVE  /\ pc'[m] \notin Idle \cup {"upper", "work", "free_upper"}
         /\ pc'[m] \in Uppered => pc[m] \in Worked
PROOF
  <1> USE DEF Idle, Uppered, Worked, Made, Layered, Indexing, Checking
  <1>1. CASE GivesUp(m)
    BY <1>1 DEF GivesUp
  <1>2. CASE MakeWorkdir(m) \/ NoWorkdir(m)
    BY <1>2, MakeWorkdirFacts, NoWorkdirFacts
  <1>3. CASE GetLowerstack(m) /\ ~GivesUp(m)
    BY <1>3, GetLowerstackFacts
  <1>4. CASE GetLowerLayer(m) \/ LayersDone(m)
    BY <1>4, GetLowerLayerFacts, LayersDoneFacts
  <1>5. CASE (VerifyOrigin(m) \/ CheckLayer(m)) /\ ~GivesUp(m)
    BY <1>5, VerifyOriginFacts, CheckLayerFacts
  <1>6. CASE GetIndexdir(m) \/ NoIndexdir(m)
    BY <1>6, GetIndexdirFacts, NoIndexdirFacts
  <1>7. CASE Finish(m) \/ PutSuper(m) \/ Remount(m)
    BY <1>7, FinishFacts, PutSuperFacts, RemountFacts
  <1>q. QED
    BY <1>1, <1>2, <1>3, <1>4, <1>5, <1>6, <1>7, StepFailsFacts DEF Step

LEMMA HoldStep ==
  ASSUME TypeInv, AskedInv, HoldInv, NEW m \in Mounts, Step(m)
  PROVE  HoldInv'
PROOF
  <1>1. SUFFICES ASSUME NEW n \in Mounts
                 PROVE  Holds(n)'
    BY DEF HoldInv
  <1>0. Holds(n)
    BY DEF HoldInv
  <1>2. CASE n # m
    BY <1>0, <1>2, OthersSame, Zenon DEF Same, Holds, Upper, Base
  <1>3. CASE n = m
    <2> USE DEF Idle, Uppered, Worked, Made, Layered, Indexing, Checking
    <2>0. Holds(m)
      BY <1>0, <1>3
    <2>1. CASE Mount(m)
      <3>1. /\ ofs'[m].upper_mnt = FALSE /\ ofs'[m].upperdir_locked = FALSE
            /\ ofs'[m].workdir_locked = FALSE
        BY <2>1, MountOfs
      <3>2. /\ pc'[m] \in {"free", "lower", "upper"}
            /\ pc'[m] = "lower" => req'[m].upper = NoDir
            /\ config'[m].index = req'[m].index
        BY <2>1, MountAsked
      <3>q. QED
        BY <1>3, <3>1, <3>2 DEF Holds, Upper, Base
    <2>2. CASE GetUpper(m) /\ ~GivesUp(m)
      <3>1. /\ pc[m] = "upper" /\ req' = req /\ config' = config
            /\ pc'[m] = "free" \/ (pc'[m] = "work" /\ (Upper(m) \notin inuse \/ ~config[m].index))
            /\ ofs'[m].upper_mnt /\ (ofs'[m].upperdir_locked <=> Upper(m) \notin inuse)
            /\ ofs'[m].workdir_locked = ofs[m].workdir_locked
        BY <2>2, GetUpperFacts
      <3>2. Upper(m) # NoDir
        BY <3>1 DEF AskedInv, Asked
      <3>q. QED
        BY <1>3, <2>0, <3>1, <3>2 DEF Holds, Upper, Base
    <2>3. CASE GetWorkdir(m) /\ ~GivesUp(m)
      <3>1. /\ pc[m] = "work" /\ req' = req /\ config' = config
            /\ Upper(m) # Base(m)
            /\ \/ pc'[m] = "free" /\ KeepsLocks(m)
               \/ /\ pc'[m] = "makework" /\ (Base(m) \notin inuse \/ ~config[m].index)
                  /\ ofs'[m].upper_mnt = ofs[m].upper_mnt
                  /\ ofs'[m].upperdir_locked = ofs[m].upperdir_locked
                  /\ ofs'[m].workdir_locked <=> Base(m) \notin inuse
        BY <2>3, GetWorkdirFacts
      <3>2. Base(m) # NoDir
        BY <3>1 DEF AskedInv, Asked, Up
      <3>q. QED
        BY <1>3, <2>0, <3>1, <3>2 DEF Holds, Upper, Base, KeepsLocks
    <2>4. CASE FreeWork(m)
      <3>1. /\ pc'[m] = "free_upper" /\ req' = req /\ config' = config /\ ~ofs'[m].workdir_locked
            /\ ofs'[m].upper_mnt = ofs[m].upper_mnt
            /\ ofs'[m].upperdir_locked = ofs[m].upperdir_locked
        BY <2>4, FreeWorkFacts
      <3>q. QED
        BY <1>3, <2>0, <3>1 DEF Holds, Upper, Base
    <2>5. CASE FreeUpper(m)
      BY <1>3, <2>5, FreeUpperOfs DEF Holds
    <2>6. CASE /\ ~Mount(m) /\ ~FreeWork(m) /\ ~FreeUpper(m)
               /\ ~GetUpper(m) \/ GivesUp(m)
               /\ ~GetWorkdir(m) \/ GivesUp(m)
      <3>1. KeepsLocks(m) /\ req' = req /\ (config'[m].index => config[m].index)
        BY <2>6, MarksKept, RequestKept, OptionsOff
      <3>2. /\ pc'[m] \notin Idle \cup {"upper", "work", "free_upper"}
            /\ pc'[m] \in Uppered => pc[m] \in Worked
        BY <2>6, MiddleStep
      <3>q. QED
        BY <1>3, <2>0, <3>1, <3>2 DEF Holds, Upper, Base, KeepsLocks
    <2>q. QED
      BY <2>1, <2>2, <2>3, <2>4, <2>5, <2>6
  <1>q. QED
    BY <1>2, <1>3

\* What a super block has marked, before and after a step.
LEMMA MarkedStep ==
  ASSUME TypeInv, HoldInv, NEW m \in Mounts, Step(m)
  PROVE  /\ \A n \in Mounts : n # m => Marked(n)' = Marked(n)
         /\ \/ inuse' = inuse /\ Marked(m)' = Marked(m)
            \/ \E d : d \notin inuse /\ inuse' = inuse \cup {d} /\ Marked(m)' = Marked(m) \cup {d}
            \/ \E D : D \subseteq Marked(m) /\ inuse' = inuse \ D /\ Marked(m)' = Marked(m) \ D
PROOF
  <1>1. \A n \in Mounts : n # m => Marked(n)' = Marked(n)
    BY OthersSame DEF Same, Marked, Upper, Base
  <1>0. Holds(m)
    BY DEF HoldInv
  <1>2. CASE Mount(m)
    <2>1. ofs'[m].upperdir_locked = FALSE /\ ofs'[m].workdir_locked = FALSE
      BY <1>2, MountOfs
    <2>2. inuse' = inuse /\ pc[m] \in Idle
      BY <1>2, MountFacts
    <2>3. ~ofs[m].upperdir_locked /\ ~ofs[m].workdir_locked
      BY <1>0, <2>2 DEF Holds
    <2>q. QED
      BY <1>1, <2>1, <2>2, <2>3 DEF Marked
  <1>3. CASE GetUpper(m) /\ ~GivesUp(m)
    <2>1. /\ pc[m] = "upper" /\ req' = req
          /\ ofs'[m].upperdir_locked <=> Upper(m) \notin inuse
          /\ ofs'[m].workdir_locked = ofs[m].workdir_locked
          /\ inuse' = inuse \cup {Upper(m)}
      BY <1>3, GetUpperFacts
    <2>2. ~ofs[m].upperdir_locked /\ ~ofs[m].workdir_locked
      BY <1>0, <2>1 DEF Holds
    <2>3. Marked(m) = {} /\ Marked(m)' = IF Upper(m) \notin inuse THEN {Upper(m)} ELSE {}
      BY <2>1, <2>2 DEF Marked, Upper, Base
    <2>q. QED
      BY <1>1, <2>1, <2>3
  <1>4. CASE GetWorkdir(m) /\ ~GivesUp(m)
    <2>1. /\ pc[m] = "work" /\ req' = req
          /\ \/ inuse' = inuse /\ KeepsLocks(m)
             \/ /\ inuse' = inuse \cup {Base(m)}
                /\ ofs'[m].upperdir_locked = ofs[m].upperdir_locked
                /\ ofs'[m].workdir_locked <=> Base(m) \notin inuse
      BY <1>4, GetWorkdirFacts
    <2>2. ~ofs[m].workdir_locked
      BY <1>0, <2>1 DEF Holds
    <2>3. CASE inuse' = inuse /\ KeepsLocks(m)
      BY <1>1, <2>1, <2>3 DEF Marked, Upper, Base, KeepsLocks
    <2>4. CASE /\ inuse' = inuse \cup {Base(m)}
               /\ ofs'[m].upperdir_locked = ofs[m].upperdir_locked
               /\ ofs'[m].workdir_locked <=> Base(m) \notin inuse
      <3>1. Marked(m)' = Marked(m) \cup (IF Base(m) \notin inuse THEN {Base(m)} ELSE {})
        BY <2>1, <2>2, <2>4 DEF Marked, Upper, Base
      <3>q. QED
        BY <1>1, <2>4, <3>1
    <2>q. QED
      BY <2>1, <2>3, <2>4
  <1>5. CASE FreeWork(m)
    <2>1. /\ inuse' = inuse \ UnlockWork(m) /\ ~ofs'[m].workdir_locked /\ req' = req
          /\ ofs'[m].upperdir_locked = ofs[m].upperdir_locked
      BY <1>5, FreeWorkFacts
    <2>2. ofs[m].workdir_locked => Upper(m) # Base(m)
      BY <1>0 DEF Holds
    <2>3. UnlockWork(m) \subseteq Marked(m) /\ Marked(m)' = Marked(m) \ UnlockWork(m)
      BY <2>1, <2>2 DEF Marked, Upper, Base, UnlockWork
    <2>q. QED
      BY <1>1, <2>1, <2>3
  <1>6. CASE FreeUpper(m)
    <2>1. inuse' = inuse \ UnlockUpper(m) /\ pc[m] = "free_upper" /\ req' = req
      BY <1>6, FreeUpperFacts
    <2>2. ~ofs[m].workdir_locked
      BY <1>0, <2>1 DEF Holds
    <2>3. ofs'[m].upperdir_locked = FALSE /\ ofs'[m].workdir_locked = FALSE
      BY <1>6, FreeUpperOfs
    <2>4. UnlockUpper(m) = Marked(m) /\ Marked(m)' = {}
      BY <2>2, <2>3 DEF Marked, Upper, Base, UnlockUpper
    <2>q. QED
      BY <1>1, <2>1, <2>4
  <1>7. CASE /\ ~Mount(m) /\ ~FreeWork(m) /\ ~FreeUpper(m)
             /\ ~GetUpper(m) \/ GivesUp(m)
             /\ ~GetWorkdir(m) \/ GivesUp(m)
    <2>1. KeepsLocks(m) /\ inuse' = inuse /\ req' = req
      BY <1>7, MarksKept, RequestKept
    <2>q. QED
      BY <1>1, <2>1 DEF Marked, Upper, Base, KeepsLocks
  <1>q. QED
    BY <1>2, <1>3, <1>4, <1>5, <1>6, <1>7

LEMMA MarkStep ==
  ASSUME TypeInv, HoldInv, MarkInv, NEW m \in Mounts, Step(m)
  PROVE  MarkInv'
PROOF
  <1> DEFINE M(n) == Marked(n)
             N(n) == Marked(n)'
  <1>0. /\ \A d : d \in inuse <=> \E n \in Mounts : d \in M(n)
        /\ \A k, n \in Mounts : k # n => \A d : ~(d \in M(k) /\ d \in M(n))
    BY DEF MarkInv
  <1>1. /\ \A n \in Mounts : n # m => N(n) = M(n)
        /\ \/ inuse' = inuse /\ N(m) = M(m)
           \/ \E d : d \notin inuse /\ inuse' = inuse \cup {d} /\ N(m) = M(m) \cup {d}
           \/ \E D : D \subseteq M(m) /\ inuse' = inuse \ D /\ N(m) = M(m) \ D
    BY MarkedStep
  <1>2. SUFFICES /\ \A d : d \in inuse' <=> \E n \in Mounts : d \in N(n)
                 /\ \A k, n \in Mounts : k # n => N(k) \cap N(n) = {}
    BY DEF MarkInv
  <1> HIDE DEF M, N
  <1>3. CASE inuse' = inuse /\ N(m) = M(m)
    BY <1>0, <1>1, <1>3
  <1>4. ASSUME NEW d, d \notin inuse, inuse' = inuse \cup {d}, N(m) = M(m) \cup {d}
        PROVE  /\ \A x : x \in inuse' <=> \E n \in Mounts : x \in N(n)
               /\ \A k, n \in Mounts : k # n => N(k) \cap N(n) = {}
    BY <1>0, <1>1, <1>4
  <1>5. ASSUME NEW D, D \subseteq M(m), inuse' = inuse \ D, N(m) = M(m) \ D
        PROVE  /\ \A x : x \in inuse' <=> \E n \in Mounts : x \in N(n)
               /\ \A k, n \in Mounts : k # n => N(k) \cap N(n) = {}
    BY <1>0, <1>1, <1>5
  <1>q. QED
    BY <1>1, <1>3, <1>4, <1>5

-----------------------------------------------------------------------------
(* Traps. *)

\* What a step before ovl_free_fs does to the traps of its super block.
LEMMA TrapsGrow ==
  ASSUME TypeInv, NEW m \in Mounts, Step(m), ~Mount(m), ~FreeWork(m), ~FreeUpper(m)
  PROVE  \/ traps'[m] = traps[m] /\ ofs'[m].held = ofs[m].held
         \/ \E d : traps'[m] = traps[m] \cup {d} /\ ofs'[m].held = ofs[m].held \cup {d}
         \/ /\ GetLowerLayer(m) /\ pc'[m] = "free" /\ result'[m] = "EBUSY"
            /\ traps'[m] = traps[m] \cup {Layer(m)} /\ ofs'[m].held = ofs[m].held
PROOF
  <1>1. CASE GivesUp(m)
    BY <1>1 DEF GivesUp
  <1>2. CASE GetUpper(m) /\ ~GivesUp(m)
    BY <1>2, GetUpperFacts
  <1>3. CASE GetWorkdir(m) /\ ~GivesUp(m)
    BY <1>3, GetWorkdirFacts
  <1>4. CASE MakeWorkdir(m) \/ NoWorkdir(m)
    BY <1>4, MakeWorkdirFacts, NoWorkdirFacts
  <1>5. CASE GetLowerLayer(m)
    BY <1>5, GetLowerLayerFacts
  <1>6. CASE (GetLowerstack(m) \/ VerifyOrigin(m) \/ CheckLayer(m)) /\ ~GivesUp(m)
    BY <1>6, GetLowerstackFacts, VerifyOriginFacts, CheckLayerFacts
  <1>7. CASE LayersDone(m) \/ GetIndexdir(m) \/ NoIndexdir(m)
    BY <1>7, LayersDoneFacts, GetIndexdirFacts, NoIndexdirFacts
  <1>8. CASE Finish(m) \/ PutSuper(m) \/ Remount(m)
    BY <1>8, FinishFacts, PutSuperFacts, RemountFacts
  <1>q. QED
    BY <1>1, <1>2, <1>3, <1>4, <1>5, <1>6, <1>7, <1>8, StepFailsFacts DEF Step

\* Where the steps of a mounting or mounted super block lead.
LEMMA UpStep ==
  ASSUME TypeInv, NEW m \in Mounts, Step(m), ~Mount(m), ~FreeWork(m), ~FreeUpper(m)
  PROVE  pc[m] \in Up /\ pc'[m] \in Up \cup {"free"}
PROOF
  <1> USE DEF Up, Uppered, Worked, Made, Layered, Indexing, Checking
  <1>1. CASE GivesUp(m)
    BY <1>1 DEF GivesUp
  <1>2. CASE (GetUpper(m) \/ GetWorkdir(m)) /\ ~GivesUp(m)
    BY <1>2, GetUpperFacts, GetWorkdirFacts
  <1>4. CASE MakeWorkdir(m) \/ NoWorkdir(m)
    BY <1>4, MakeWorkdirFacts, NoWorkdirFacts
  <1>5. CASE GetLowerLayer(m)
    BY <1>5, GetLowerLayerFacts
  <1>6. CASE (GetLowerstack(m) \/ VerifyOrigin(m) \/ CheckLayer(m)) /\ ~GivesUp(m)
    BY <1>6, GetLowerstackFacts, VerifyOriginFacts, CheckLayerFacts
  <1>7. CASE LayersDone(m) \/ GetIndexdir(m) \/ NoIndexdir(m)
    BY <1>7, LayersDoneFacts, GetIndexdirFacts, NoIndexdirFacts
  <1>8. CASE Finish(m) \/ PutSuper(m) \/ Remount(m)
    BY <1>8, FinishFacts, PutSuperFacts, RemountFacts
  <1>q. QED
    BY <1>1, <1>2, <1>4, <1>5, <1>6, <1>7, <1>8, StepFailsFacts DEF Step

LEMMA TrapStep ==
  ASSUME TypeInv, AskedInv, TrapInv, NEW m \in Mounts, Step(m)
  PROVE  TrapInv'
PROOF
  <1>1. SUFFICES ASSUME NEW n \in Mounts
                 PROVE  Trapped(n)'
    BY DEF TrapInv
  <1>0. Trapped(n)
    BY DEF TrapInv
  <1>2. CASE n # m
    BY <1>0, <1>2, OthersSame DEF Same, Trapped, Leak, Lowers
  <1>3. CASE n = m
    <2> USE DEF Up, Uppered, Worked, Made, Layered, Indexing, Checking
    <2>0. Trapped(m)
      BY <1>0, <1>3
    <2>1. CASE Mount(m)
      <3>1. traps'[m] = {} /\ ofs'[m].held = {} /\ pc'[m] \in {"free", "lower", "upper"}
        BY <2>1, MountFacts, MountOfs, MountAsked
      <3>q. QED
        BY <1>3, <3>1 DEF Trapped
    <2>2. CASE FreeWork(m)
      <3>1. /\ pc[m] = "free" /\ pc'[m] = "free_upper" /\ traps'[m] = traps[m] \ ofs[m].held
            /\ ofs'[m].held = {} /\ req' = req /\ result' = result
        BY <2>2, FreeWorkFacts
      <3>2. traps[m] = ofs[m].held \/ Leak(m, traps[m] \ ofs[m].held)
        BY <2>0, <3>1 DEF Trapped
      <3>3. traps'[m] = {} \/ Leak(m, traps'[m])
        BY <3>1, <3>2
      <3>4. traps'[m] = {} \/ Leak(m, traps[m])'
        BY <3>1, <3>3 DEF Leak, Lowers
      <3>q. QED
        BY <1>3, <3>1, <3>4 DEF Trapped
    <2>3. CASE FreeUpper(m)
      <3>1. /\ pc[m] = "free_upper" /\ traps' = traps /\ req' = req /\ result' = result
            /\ pc'[m] \in {"failed", "unmounted"} /\ ofs'[m].held = {}
        BY <2>3, FreeUpperFacts, FreeUpperOfs
      <3>2. traps[m] = {} \/ Leak(m, traps[m])
        BY <2>0, <3>1 DEF Trapped
      <3>q. QED
        BY <1>3, <3>1, <3>2 DEF Trapped, Leak, Lowers
    <2>4. CASE ~Mount(m) /\ ~FreeWork(m) /\ ~FreeUpper(m)
      <3>1. pc[m] \in Up /\ pc'[m] \in Up \cup {"free"} /\ req' = req
        BY <2>4, UpStep, RequestKept
      <3>2. traps[m] = ofs[m].held
        BY <2>0, <3>1 DEF Trapped
      <3>3. CASE traps'[m] = ofs'[m].held
        BY <1>3, <3>1, <3>3 DEF Trapped
      <3>4. CASE /\ GetLowerLayer(m) /\ pc'[m] = "free" /\ result'[m] = "EBUSY"
                 /\ traps'[m] = traps[m] \cup {Layer(m)} /\ ofs'[m].held = ofs[m].held
        <4>1. Layer(m) \in ToSet(Lowers(m)) /\ traps'[m] \ ofs'[m].held \subseteq {Layer(m)}
          BY <3>2, <3>4, LayerIndex
        <4>2. Leak(m, traps[m] \ ofs[m].held)'
          BY <3>1, <3>4, <4>1 DEF Leak, Lowers
        <4>q. QED
          BY <1>3, <3>4, <4>2 DEF Trapped
      <3>q. QED
        BY <2>4, <3>2, <3>3, <3>4, TrapsGrow
    <2>q. QED
      BY <2>1, <2>2, <2>3, <2>4
  <1>q. QED
    BY <1>2, <1>3

-----------------------------------------------------------------------------
(* Layers. *)

\* The layers seen so far have traps of their own.
Separate(m) ==
  /\ ofs[m].upper_mnt => Upper(m) \in traps[m] /\ Base(m) \in traps[m] /\ Upper(m) # Base(m)
  /\ \A i \in 1 .. ofs[m].numlower :
       /\ Lowers(m)[i] \in traps[m]
       /\ ofs[m].upper_mnt => Lowers(m)[i] # Upper(m) /\ Lowers(m)[i] # Base(m)
       /\ \A j \in 1 .. ofs[m].numlower : i # j => Lowers(m)[i] # Lowers(m)[j]

LEMMA SeparateKept ==
  ASSUME NEW m \in Mounts, Separate(m), KeepsLayers(m), ofs'[m].upper_mnt = ofs[m].upper_mnt,
         req' = req, traps[m] \subseteq traps'[m]
  PROVE  Separate(m)'
PROOF
  <1>1. Upper(m)' = Upper(m) /\ Base(m)' = Base(m) /\ Lowers(m)' = Lowers(m)
    BY DEF Upper, Base, Lowers
  <1>2. ofs'[m].numlower = ofs[m].numlower
    BY DEF KeepsLayers
  <1>q. QED
    BY <1>1, <1>2 DEF Separate

LEMMA SeparateAdded ==
  ASSUME TypeInv, AskedInv, NEW m \in Mounts, Separate(m), GetLowerLayer(m), pc'[m] # "free"
  PROVE  Separate(m)'
PROOF
  <1>1. /\ req' = req /\ ofs'[m].upper_mnt = ofs[m].upper_mnt
        /\ Layer(m) \notin traps[m] /\ traps'[m] = traps[m] \cup {Layer(m)}
        /\ ofs'[m].numlower = ofs[m].numlower + 1
    BY GetLowerLayerFacts DEF KeepsLocks
  <1>2. Upper(m)' = Upper(m) /\ Base(m)' = Base(m) /\ Lowers(m)' = Lowers(m)
    BY <1>1 DEF Upper, Base, Lowers
  <1>3. ofs[m].numlower \in Nat
    BY LayerIndex
  <1> DEFINE k == ofs[m].numlower
             l == Lowers(m)
  <1>4. l[k + 1] \notin traps[m] /\ traps'[m] = traps[m] \cup {l[k + 1]}
    BY <1>1 DEF Layer
  <1>5. ofs[m].upper_mnt => Upper(m) \in traps[m] /\ Base(m) \in traps[m] /\ Upper(m) # Base(m)
    BY DEF Separate
  <1>6. \A i \in 1 .. k : /\ l[i] \in traps[m]
                          /\ ofs[m].upper_mnt => l[i] # Upper(m) /\ l[i] # Base(m)
                          /\ \A j \in 1 .. k : i # j => l[i] # l[j]
    BY DEF Separate
  <1>7. ofs'[m].numlower = k + 1 /\ k \in Nat
    BY <1>1, <1>3
  <1>9. \A i \in 1 .. k + 1 : i \in 1 .. k \/ i = k + 1
    BY <1>7
  <1> HIDE DEF k, l
  <1>8. \A i \in 1 .. k + 1 : /\ l[i] \in traps'[m]
                              /\ ofs[m].upper_mnt => l[i] # Upper(m) /\ l[i] # Base(m)
                              /\ \A j \in 1 .. k + 1 : i # j => l[i] # l[j]
    BY <1>4, <1>5, <1>6, <1>9
  <1>q. QED
    BY <1>1, <1>2, <1>4, <1>5, <1>7, <1>8 DEF Separate, l

\* The roots that have been walked, over a step of the walk or another one.
LEMMA WalkedKept ==
  ASSUME NEW m \in Mounts, req' = req, ofs'[m].upper_mnt = ofs[m].upper_mnt
  PROVE  /\ Roots(m)' = Roots(m)
         /\ todo'[m] = todo[m] => Walked(m)' = Walked(m)
         /\ todo'[m] = Roots(m) => Walked(m)' = {}
  BY DEF Roots, Upper, Base, Lowers, Walked

LEMMA WalkedOne ==
  ASSUME TypeInv, AskedInv, NEW m \in Mounts, CheckLayer(m), ~GivesUp(m)
  PROVE  /\ Head(todo[m]) \in Dir
         /\ Walked(m)' \subseteq Walked(m) \cup {Head(todo[m])}
         /\ \A e \in Dir \ {NoDir} :
              Inside(Head(todo[m]), e) => e \notin traps[m] /\ (config[m].index => e \notin inuse)
PROOF
  <1>1. /\ todo[m] # <<>> /\ todo'[m] = Tail(todo[m]) /\ req' = req /\ ofs' = ofs
        /\ \A e \in Ancestors(Head(todo[m])) :
              e \notin traps[m] /\ (config[m].index => e \notin inuse)
    BY CheckLayerFacts
  <1>2. todo[m] \in Seq(Dir \ {NoDir})
    BY DEF TypeInv
  <1>3. Head(todo[m]) \in Dir \ {NoDir} /\ ToSet(todo[m]) = {Head(todo[m])} \cup ToSet(Tail(todo[m]))
    BY <1>1, <1>2, HeadTailProperties, TailSet
  <1>4. Roots(m)' = Roots(m)
    BY <1>1, WalkedKept
  <1>5. Walked(m)' = ToSet(Roots(m)) \ ToSet(Tail(todo[m]))
    BY <1>1, <1>4 DEF Walked
  <1>6. Walked(m)' \subseteq Walked(m) \cup {Head(todo[m])}
    BY <1>3, <1>5 DEF Walked
  <1>7. \A e \in Dir \ {NoDir} : Inside(Head(todo[m]), e) => e \in Ancestors(Head(todo[m]))
    BY <1>3, InsideAncestor
  <1>q. QED
    BY <1>1, <1>3, <1>6, <1>7

\* What the other super blocks see of themselves.
LEMMA OthersViews ==
  ASSUME TypeInv, NEW m \in Mounts, Step(m), NEW n \in Mounts, n # m
  PROVE  /\ Upper(n)' = Upper(n) /\ Base(n)' = Base(n) /\ Lowers(n)' = Lowers(n)
         /\ Roots(n)' = Roots(n) /\ Walked(n)' = Walked(n) /\ Marked(n)' = Marked(n)
PROOF
  <1>1. req'[n] = req[n] /\ ofs'[n] = ofs[n] /\ todo'[n] = todo[n]
    BY OthersSame DEF Same
  <1>2. Upper(n)' = Upper(n) /\ Base(n)' = Base(n) /\ Lowers(n)' = Lowers(n)
    BY <1>1 DEF Upper, Base, Lowers
  <1>3. Roots(n)' = Roots(n)
    BY <1>1, <1>2 DEF Roots
  <1>4. Walked(n)' = Walked(n)
    BY <1>1, <1>3 DEF Walked
  <1>5. Marked(n)' = Marked(n)
    BY <1>1, <1>2 DEF Marked
  <1>q. QED
    BY <1>2, <1>3, <1>4, <1>5

LEMMA LayerStep ==
  ASSUME TypeInv, AskedInv, HoldInv, LayerInv, NEW m \in Mounts, Step(m)
  PROVE  LayerInv'
PROOF
  <1>1. SUFFICES ASSUME NEW n \in Mounts
                 PROVE  Distinct(n)'
    BY DEF LayerInv
  <1>0. Distinct(n)
    BY DEF LayerInv
  <1>2. CASE n # m
    <2>1. /\ Upper(n)' = Upper(n) /\ Base(n)' = Base(n) /\ Lowers(n)' = Lowers(n)
          /\ Roots(n)' = Roots(n) /\ Walked(n)' = Walked(n)
          /\ pc'[n] = pc[n] /\ ofs'[n] = ofs[n] /\ traps'[n] = traps[n] /\ todo'[n] = todo[n]
      BY <1>2, OthersSame, OthersViews DEF Same
    <2>q. QED
      BY <1>0, <2>1 DEF Distinct
  <1>3. CASE n = m
    <2> USE DEF Up, Uppered, Worked, Made, Layered, Indexing, Checking
    <2>0. Distinct(m)
      BY <1>0, <1>3
    <2>a. SUFFICES Distinct(m)'
      BY <1>3
    <2>b. CASE pc'[m] \notin Up
      BY <2>b DEF Distinct
    <2>c. pc[m] \in Worked => Separate(m)
      BY <2>0 DEF Distinct, Separate
    <2>d. ASSUME Separate(m)', pc'[m] \in Worked,
                 pc'[m] \in Up \ Layered => ofs'[m].numlower = 0,
                 pc'[m] \in Indexing => ofs'[m].numlower = Len(Lowers(m))',
                 pc'[m] \in Indexing =>
                   \A d \in Walked(m)', e \in traps'[m] : ~Inside(d, e),
                 pc'[m] \in {"origin", "index"} => todo'[m] = Roots(m)',
                 pc'[m] = "live" => todo'[m] = <<>>
          PROVE  Distinct(m)'
      BY <2>d DEF Distinct, Separate
    <2>1. CASE Mount(m)
      <3>1. /\ ofs'[m].numlower = 0 /\ ofs'[m].upper_mnt = FALSE
            /\ pc'[m] \in {"free", "lower", "upper"}
        BY <2>1, MountOfs, MountAsked
      <3>q. QED
        BY <3>1 DEF Distinct
    <2>2. CASE GetUpper(m) /\ ~GivesUp(m) /\ pc'[m] \in Up
      <3>1. /\ pc[m] = "upper" /\ pc'[m] = "work" /\ req' = req
            /\ traps'[m] = traps[m] \cup {Upper(m)} /\ ofs'[m].numlower = ofs[m].numlower
        BY <2>2, GetUpperFacts DEF KeepsLayers
      <3>2. ofs'[m].numlower = 0
        BY <2>0, <3>1 DEF Distinct
      <3>q. QED
        BY <3>1, <3>2 DEF Distinct, Upper
    <2>3. CASE GetWorkdir(m) /\ ~GivesUp(m) /\ pc'[m] \in Up
      <3>1. /\ pc[m] = "work" /\ pc'[m] = "makework" /\ req' = req /\ Upper(m) # Base(m)
            /\ traps'[m] = traps[m] \cup {Base(m)} /\ ofs'[m].numlower = ofs[m].numlower
            /\ ofs'[m].upper_mnt = ofs[m].upper_mnt
        BY <2>3, GetWorkdirFacts DEF KeepsLayers
      <3>2. ofs'[m].numlower = 0 /\ (ofs[m].upper_mnt => Upper(m) \in traps[m])
        BY <2>0, <3>1 DEF Distinct
      <3>q. QED
        BY <3>1, <3>2 DEF Distinct, Upper, Base
    <2>4. CASE MakeWorkdir(m) \/ NoWorkdir(m) \/ (GetLowerstack(m) /\ ~GivesUp(m))
      <3>1. /\ pc[m] \in {"makework", "lower"} /\ pc'[m] \in {"lower", "layers"} /\ req' = req
            /\ traps[m] \subseteq traps'[m] /\ KeepsLayers(m)
            /\ ofs'[m].upper_mnt = ofs[m].upper_mnt
        BY <2>4, MakeWorkdirFacts, NoWorkdirFacts, GetLowerstackFacts DEF KeepsLocks
      <3>2. Separate(m)'
        BY <2>c, <3>1, SeparateKept
      <3>3. ofs'[m].numlower = 0
        BY <2>0, <3>1 DEF Distinct, KeepsLayers
      <3>q. QED
        BY <2>d, <3>1, <3>2, <3>3
    <2>5. CASE GetLowerLayer(m) /\ pc'[m] \in Up
      <3>1. pc[m] = "layers" /\ pc'[m] = "layers"
        BY <2>5, GetLowerLayerFacts
      <3>2. Separate(m)'
        BY <2>c, <2>5, <3>1, SeparateAdded
      <3>q. QED
        BY <2>d, <3>1, <3>2
    <2>6. CASE LayersDone(m)
      <3>1. /\ pc[m] = "layers" /\ pc'[m] \in {"origin", "overlap"} /\ req' = req /\ traps' = traps
            /\ KeepsLayers(m) /\ ofs'[m].upper_mnt = ofs[m].upper_mnt
            /\ todo'[m] = Roots(m) /\ ofs[m].numlower = Len(Lowers(m))
        BY <2>6, LayersDoneFacts DEF KeepsLocks
      <3>2. Separate(m)'
        BY <2>c, <3>1, SeparateKept
      <3>3. Roots(m)' = Roots(m) /\ Walked(m)' = {}
        BY <3>1, WalkedKept
      <3>4. ofs'[m].numlower = Len(Lowers(m))'
        BY <3>1 DEF KeepsLayers, Lowers
      <3>q. QED
        BY <2>d, <3>1, <3>2, <3>3, <3>4
    <2>7. CASE (VerifyOrigin(m) /\ ~GivesUp(m)) \/ NoIndexdir(m) \/ Finish(m) \/ Remount(m)
      <3>1. /\ pc[m] \in Indexing /\ pc'[m] \in Indexing /\ req' = req
            /\ traps' = traps /\ todo' = todo
            /\ KeepsLayers(m) /\ ofs'[m].upper_mnt = ofs[m].upper_mnt
            /\ pc'[m] \in {"origin", "index"} => pc[m] = "origin"
            /\ pc'[m] = "live" => pc[m] = "live" \/ todo[m] = <<>>
        BY <2>7, VerifyOriginFacts, NoIndexdirFacts, FinishFacts, RemountFacts
           DEF KeepsLocks, KeepsLayers
      <3>2. Separate(m)'
        BY <2>c, <3>1, SeparateKept
      <3>3. Roots(m)' = Roots(m) /\ Walked(m)' = Walked(m)
        BY <3>1, WalkedKept
      <3>4. ofs'[m].numlower = Len(Lowers(m))'
        BY <2>0, <3>1 DEF KeepsLayers, Lowers, Distinct
      <3>5. /\ \A d \in Walked(m), e \in traps[m] : ~Inside(d, e)
            /\ pc'[m] \in {"origin", "index"} => todo'[m] = Roots(m)
            /\ pc'[m] = "live" => todo'[m] = <<>>
        BY <2>0, <3>1 DEF Distinct
      <3>q. QED
        BY <2>d, <3>1, <3>2, <3>3, <3>4, <3>5
    <2>8. CASE GetIndexdir(m) /\ pc'[m] \in Up
      <3>1. /\ pc[m] = "index" /\ pc'[m] = "overlap" /\ req' = req /\ todo' = todo
            /\ traps[m] \subseteq traps'[m]
            /\ KeepsLayers(m) /\ ofs'[m].upper_mnt = ofs[m].upper_mnt
        BY <2>8, GetIndexdirFacts DEF KeepsLocks
      <3>2. Separate(m)'
        BY <2>c, <3>1, SeparateKept
      <3>3. todo[m] = Roots(m)
        BY <2>0, <3>1 DEF Distinct
      <3>4. Walked(m)' = {}
        BY <3>1, <3>3, WalkedKept
      <3>5. ofs'[m].numlower = Len(Lowers(m))'
        BY <2>0, <3>1 DEF KeepsLayers, Lowers, Distinct
      <3>q. QED
        BY <2>d, <3>1, <3>2, <3>4, <3>5
    <2>9. CASE CheckLayer(m) /\ ~GivesUp(m)
      <3>1. /\ pc[m] = "overlap" /\ pc'[m] = "overlap" /\ req' = req /\ traps' = traps /\ ofs' = ofs
        BY <2>9, CheckLayerFacts
      <3>2. Separate(m)'
        BY <2>c, <3>1, SeparateKept DEF KeepsLayers
      <3>3. ofs'[m].numlower = Len(Lowers(m))' /\ \A d \in Walked(m), e \in traps[m] : ~Inside(d, e)
        BY <2>0, <3>1 DEF Lowers, Distinct
      <3>4. traps[m] \subseteq Dir \ {NoDir}
        BY DEF TypeInv
      <3>5. \A d \in Walked(m)', e \in traps'[m] : ~Inside(d, e)
        BY <2>9, <3>1, <3>3, <3>4, WalkedOne
      <3>q. QED
        BY <2>d, <3>1, <3>2, <3>3, <3>5
    <2>10. CASE GivesUp(m) \/ PutSuper(m) \/ FreeWork(m) \/ FreeUpper(m)
      <3>1. pc'[m] \notin Up
        BY <2>10, PutSuperFacts, FreeWorkFacts, FreeUpperFacts DEF GivesUp
      <3>q. QED
        BY <2>b, <3>1
    <2>q. QED
      BY <2>b, <2>1, <2>2, <2>3, <2>4, <2>5, <2>6, <2>7, <2>8, <2>9, <2>10, StepFailsFacts DEF Step
  <1>q. QED
    BY <1>2, <1>3

-----------------------------------------------------------------------------
(* Directories in use by older mounts. *)

\* A mounted super block keeps its marks.
LEMMA LiveMarked ==
  ASSUME TypeInv, NEW m \in Mounts, Step(m), pc[m] = "live"
  PROVE  Marked(m)' = Marked(m) /\ inuse' = inuse
PROOF
  <1>1. /\ ~Mount(m) /\ ~FreeWork(m) /\ ~FreeUpper(m) /\ ~GetUpper(m) /\ ~GetWorkdir(m)
    BY DEF Mount, FreeWork, FreeUpper, GetUpper, GetWorkdir
  <1>2. KeepsLocks(m) /\ inuse' = inuse /\ req' = req
    BY <1>1, MarksKept, RequestKept
  <1>q. QED
    BY <1>2 DEF Marked, Upper, Base, KeepsLocks

LEMMA NestStep ==
  ASSUME TypeInv, AskedInv, HoldInv, MarkInv, LayerInv, OlderInv, NestInv,
         NEW m \in Mounts, Step(m)
  PROVE  NestInv'
PROOF
  <1>1. SUFFICES ASSUME NEW n \in Mounts
                 PROVE  Unnested(n)'
    BY DEF NestInv
  <1>0. Unnested(n)
    BY DEF NestInv
  <1>a. \A k \in older'[n] : k \in older[n] => Marked(k)' = Marked(k)
    <2>1. SUFFICES ASSUME NEW k \in older[n]
                   PROVE  Marked(k)' = Marked(k)
      OBVIOUS
    <2>2. k \in Mounts /\ pc[k] = "live"
      BY DEF TypeInv, TypeOK, OlderInv, Live
    <2>q. QED
      BY <2>2, LiveMarked, OthersViews
  <1>2. CASE n # m
    <2>1. /\ Upper(n)' = Upper(n) /\ Base(n)' = Base(n) /\ Lowers(n)' = Lowers(n)
          /\ Walked(n)' = Walked(n) /\ config'[n] = config[n] /\ older'[n] \subseteq older[n]
          /\ pc'[n] = pc[n] /\ ofs'[n] = ofs[n]
      BY <1>2, OthersSame, OthersViews DEF Same
    <2>q. QED
      BY <1>0, <1>a, <2>1 DEF Unnested
  <1>3. CASE n = m
    <2> USE DEF Up, Uppered, Worked, Made, Layered, Indexing, Checking
    <2>0. Unnested(m)
      BY <1>0, <1>3
    <2>a. SUFFICES Unnested(m)'
      BY <1>3
    <2>b. CASE pc'[m] \notin Up
      BY <2>b DEF Unnested
    <2>1. CASE Mount(m)
      <3>1. ofs'[m].numlower = 0 /\ pc'[m] \in {"free", "lower", "upper"}
        BY <2>1, MountOfs, MountAsked
      <3>q. QED
        BY <3>1 DEF Unnested
    <2>2. CASE ~Mount(m) /\ pc'[m] \in Up
      <3>1. /\ req' = req /\ pc[m] \in Up /\ (config'[m].index => config[m].index)
            /\ Lowers(m)' = Lowers(m) /\ ~FreeUpper(m) /\ ~FreeWork(m)
        BY <2>2, RequestKept, PcStep, OptionsOff, FreeUpperFacts, FreeWorkFacts DEF Lowers
      <3>2. older'[m] \subseteq older[m]
        <4>1. CASE PutSuper(m)
          BY <4>1, PutSuperFacts
        <4>2. CASE ~PutSuper(m)
          <5>1. older' = older
            BY <2>2, <3>1, <4>2 DEF Step, GetUpper, GetWorkdir, MakeWorkdir, NoWorkdir,
               GetLowerstack, GetLowerLayer, LayersDone, VerifyOrigin, GetIndexdir, NoIndexdir,
               CheckLayer, Finish, StepFails, Remount
          <5>q. QED
            BY <5>1
        <4>q. QED
          BY <4>1, <4>2
      <3>3. \A k \in older'[m] : Marked(k)' = Marked(k) /\ k \in older[m]
        BY <1>3, <1>a, <3>2
      <3>4. \A k \in older[m] : Marked(k) \subseteq inuse
        BY DEF MarkInv, TypeInv, TypeOK
      <3>5. \A k \in older[m] : Marked(k) \subseteq Dir \ {NoDir}
        <4>1. SUFFICES ASSUME NEW k \in Mounts
                       PROVE  Marked(k) \subseteq Dir \ {NoDir}
          BY DEF TypeInv, TypeOK
        <4>2. Upper(k) \in Dir /\ Base(k) \in Dir
          BY DirsType
        <4>3. /\ ofs[k].upperdir_locked => Upper(k) # NoDir
              /\ ofs[k].workdir_locked => Base(k) # NoDir
          BY DEF HoldInv, Holds
        <4>q. QED
          BY <4>2, <4>3 DEF Marked
      <3>6. ASSUME config[m].index, NEW k \in older[m], NEW e \in Marked(k)
            PROVE  /\ \A i \in 1 .. ofs[m].numlower : Lowers(m)[i] # e
                   /\ pc[m] \in Indexing => \A d \in Walked(m) : ~Inside(d, e)
        BY <2>0, <3>1, <3>6 DEF Unnested
      <3>7. SUFFICES ASSUME config'[m].index, config[m].index, NEW k \in older[m], NEW e \in Marked(k)
                     PROVE  /\ \A i \in 1 .. ofs'[m].numlower : Lowers(m)[i] # e
                            /\ pc'[m] \in Indexing => \A d \in Walked(m)' : ~Inside(d, e)
        BY <3>1, <3>3 DEF Unnested
      <3>8. CASE GetLowerLayer(m)
        <4>1. /\ pc'[m] = "layers" /\ (Layer(m) \notin inuse \/ ~config'[m].index)
              /\ ofs'[m].numlower = ofs[m].numlower + 1
          BY <2>2, <3>8, GetLowerLayerFacts
        <4>2. Lowers(m)[ofs[m].numlower + 1] # e
          BY <3>4, <3>7, <4>1 DEF Layer
        <4>3. ofs[m].numlower \in Nat
          BY <3>8, LayerIndex
        <4>q. QED
          BY <3>6, <3>7, <4>1, <4>2, <4>3
      <3>9. CASE ~GetLowerLayer(m)
        <4>1. ofs'[m].numlower = ofs[m].numlower
          BY <2>2, <3>1, <3>9, LayersKept DEF KeepsLayers
        <4>2. CASE pc'[m] \notin Indexing
          BY <3>6, <3>7, <4>1, <4>2
        <4>3. CASE pc'[m] \in Indexing
          <5>0. ofs'[m].upper_mnt = ofs[m].upper_mnt
            <6>1. (~GetUpper(m) \/ GivesUp(m)) /\ (~GetWorkdir(m) \/ GivesUp(m))
              BY <4>3, GetUpperFacts, GetWorkdirFacts
            <6>q. QED
              BY <2>2, <3>1, <6>1, MarksKept DEF KeepsLocks
          <5>1. CASE LayersDone(m)
            <6>1. todo'[m] = Roots(m)
              BY <5>1, LayersDoneFacts
            <6>2. Walked(m)' = {}
              BY <3>1, <5>0, <6>1, WalkedKept
            <6>q. QED
              BY <3>6, <3>7, <4>1, <6>2
          <5>2. CASE CheckLayer(m) /\ ~GivesUp(m)
            <6>1. pc[m] \in Indexing
              BY <5>2, CheckLayerFacts
            <6>2. \A d \in Walked(m)' : ~Inside(d, e)
              BY <3>4, <3>5, <3>6, <3>7, <5>2, <6>1, WalkedOne
            <6>q. QED
              BY <3>6, <3>7, <4>1, <6>2
          <5>3. CASE ~LayersDone(m) /\ (~CheckLayer(m) \/ GivesUp(m))
            <6>1. pc[m] \in Indexing /\ todo' = todo
              <7>1. CASE GivesUp(m)
                BY <4>3, <7>1 DEF GivesUp
              <7>2. CASE (GetUpper(m) \/ GetWorkdir(m) \/ GetLowerstack(m)) /\ ~GivesUp(m)
                BY <4>3, <7>2, GetUpperFacts, GetWorkdirFacts, GetLowerstackFacts
              <7>3. CASE MakeWorkdir(m) \/ NoWorkdir(m) \/ PutSuper(m)
                BY <4>3, <7>3, MakeWorkdirFacts, NoWorkdirFacts, PutSuperFacts
              <7>4. CASE (VerifyOrigin(m) /\ ~GivesUp(m)) \/ GetIndexdir(m) \/ NoIndexdir(m)
                BY <7>4, VerifyOriginFacts, GetIndexdirFacts, NoIndexdirFacts
              <7>5. CASE Finish(m) \/ Remount(m)
                BY <7>5, FinishFacts, RemountFacts
              <7>q. QED
                BY <2>2, <3>1, <3>9, <5>3, <7>1, <7>2, <7>3, <7>4, <7>5, StepFailsFacts DEF Step
            <6>2. Walked(m)' = Walked(m)
              BY <3>1, <5>0, <6>1, WalkedKept
            <6>q. QED
              BY <3>6, <3>7, <4>1, <6>1, <6>2
          <5>q. QED
            BY <5>1, <5>2, <5>3
        <4>q. QED
          BY <4>2, <4>3
      <3>q. QED
        BY <3>8, <3>9
    <2>q. QED
      BY <2>b, <2>1, <2>2
  <1>q. QED
    BY <1>2, <1>3

-----------------------------------------------------------------------------
(* Options and what they rest upon. *)

\* The file systems of the lower layers get distinct uuids as long as it matters.
LEMMA ApartStep ==
  ASSUME TypeInv, AskedInv, HoldInv, LayerInv, SupportInv, FsidInv, NEW m \in Mounts, Step(m),
         config'[m].nfs_export \/ (config'[m].index /\ ofs'[m].upper_mnt)
  PROVE  Apart(m)'
PROOF
  <1>0. config[m].nfs_export \/ (config[m].index /\ ofs[m].upper_mnt) => Apart(m)
    BY DEF SupportInv, Supported
  <1>1. CASE Mount(m)
    <2>1. ofs'[m].lower_fs = <<>>
      BY <1>1, MountOfs
    <2>q. QED
      BY <2>1 DEF Apart
  <1>2. CASE FreeUpper(m)
    BY <1>2, FreeUpperOfs DEF Apart
  <1>3. CASE GetUpper(m) /\ ~GivesUp(m)
    <2>1. pc[m] = "upper" /\ ofs'[m].lower_fs = ofs[m].lower_fs
      BY <1>3, GetUpperFacts DEF KeepsLayers
    <2>2. ofs[m].numlower = 0 /\ Len(ofs[m].lower_fs) <= ofs[m].numlower
      BY <2>1 DEF LayerInv, Distinct, FsidInv, Numbered, Up, Uppered, Worked, Made, Layered,
         Indexing, Checking
    <2>3. ofs[m].lower_fs \in Seq(Name)
      BY DEF TypeInv, Ofs
    <2>4. DOMAIN ofs[m].lower_fs = {}
      BY <2>2, <2>3, LenProperties
    <2>q. QED
      BY <2>1, <2>4 DEF Apart
  <1>4. CASE GetLowerLayer(m)
    <2> DEFINE f == Fs(Layer(m))
               s == ofs[m].lower_fs
    <2>1. /\ config'[m].index => config[m].index /\ (NewFsid(m, f) => LowerUuidOk(m, f))
          /\ config'[m].nfs_export => config[m].nfs_export /\ (NewFsid(m, f) => LowerUuidOk(m, f))
          /\ ofs'[m].lower_fs = LowerFs(m, f) /\ ofs'[m].upper_mnt = ofs[m].upper_mnt
      BY <1>4, GetLowerLayerFacts DEF KeepsLocks
    <2>2. config[m].nfs_export \/ (config[m].index /\ ofs[m].upper_mnt)
      BY <2>1
    <2>3. NewFsid(m, f) => \A i \in DOMAIN s : Uuid[s[i]] # Uuid[f]
      BY <2>1, <2>2 DEF LowerUuidOk
    <2>4. \A i, j \in DOMAIN s : i # j => Uuid[s[i]] # Uuid[s[j]]
      BY <1>0, <2>2 DEF Apart
    <2>5. s \in Seq(Name) /\ DOMAIN s = 1 .. Len(s) /\ Len(s) \in Nat
      BY LenProperties DEF TypeInv, Ofs
    <2>6. CASE ~NewFsid(m, f)
      BY <2>1, <2>4, <2>6 DEF Apart, LowerFs
    <2>7. CASE NewFsid(m, f)
      <3>1. ofs'[m].lower_fs = Append(s, f)
        BY <2>1, <2>7 DEF LowerFs
      <3>2. f \in Name
        BY <1>4, LayerIndex, HeadTailProperties DEF Dir, NoDir, Fs
      <3> HIDE DEF f, s
      <3>3. /\ DOMAIN Append(s, f) = 1 .. Len(s) + 1 /\ Append(s, f)[Len(s) + 1] = f
            /\ \A i \in 1 .. Len(s) : Append(s, f)[i] = s[i]
        BY <2>5, <3>2
      <3>4. \A i \in 1 .. Len(s) + 1 : i \in 1 .. Len(s) \/ i = Len(s) + 1
        BY <2>5
      <3>5. \A i, j \in 1 .. Len(s) + 1 : i # j => Uuid[Append(s, f)[i]] # Uuid[Append(s, f)[j]]
        BY <2>3, <2>4, <2>5, <2>7, <3>3, <3>4
      <3>q. QED
        BY <3>1, <3>3, <3>5 DEF Apart
    <2>q. QED
      BY <2>6, <2>7
  <1>5. CASE ~Mount(m) /\ ~FreeUpper(m) /\ ~GetLowerLayer(m) /\ (~GetUpper(m) \/ GivesUp(m))
    <2>1. ofs'[m].lower_fs = ofs[m].lower_fs
      BY <1>5, LayersKept DEF KeepsLayers
    <2>2. /\ config'[m].index => config[m].index
          /\ config'[m].nfs_export => config[m].nfs_export
      BY <1>5, OptionsOff
    <2>3. ofs'[m].upper_mnt = ofs[m].upper_mnt
      <3>1. CASE FreeWork(m)
        BY <3>1, FreeWorkFacts
      <3>2. CASE GetWorkdir(m) /\ ~GivesUp(m)
        BY <3>2, GetWorkdirFacts DEF KeepsLocks
      <3>q. QED
        BY <1>5, <3>1, <3>2, MarksKept DEF KeepsLocks
    <2>q. QED
      BY <1>0, <2>1, <2>2, <2>3 DEF Apart
  <1>q. QED
    BY <1>1, <1>2, <1>3, <1>4, <1>5

LEMMA SupportStep ==
  ASSUME TypeInv, AskedInv, HoldInv, LayerInv, SupportInv, FsidInv, NEW m \in Mounts, Step(m)
  PROVE  SupportInv'
PROOF
  <1>1. SUFFICES ASSUME NEW n \in Mounts
                 PROVE  Supported(n)'
    BY DEF SupportInv
  <1>0. Supported(n)
    BY DEF SupportInv
  <1>2. CASE n # m
    <2>1. /\ Upper(n)' = Upper(n) /\ Lowers(n)' = Lowers(n) /\ config'[n] = config[n]
          /\ pc'[n] = pc[n] /\ ofs'[n] = ofs[n]
      BY <1>2, OthersSame, OthersViews DEF Same
    <2>2. Fhs(n)' = Fhs(n) /\ Apart(n)' = Apart(n)
      BY <2>1 DEF Fhs, Apart
    <2>q. QED
      BY <1>0, <2>1, <2>2 DEF Supported
  <1>3. CASE n = m
    <2> USE DEF Up, Uppered, Worked, Made, Layered, Indexing, Checking
    <2>0. Supported(m)
      BY <1>0, <1>3
    <2>a. SUFFICES Supported(m)'
      BY <1>3
    <2>b. config'[m].nfs_export \/ (config'[m].index /\ ofs'[m].upper_mnt) => Apart(m)'
      BY ApartStep
    <2>c. req' = req => Upper(m)' = Upper(m) /\ Lowers(m)' = Lowers(m) /\ Fhs(m)' = Fhs(m)
      BY DEF Upper, Lowers, Fhs
    <2>d. Upper(m) # NoDir /\ pc[m] \in Uppered => ofs[m].upper_mnt
      BY DEF HoldInv, Holds
    <2>e. pc[m] \in {"makework", "index"} => Upper(m) # NoDir
      BY DEF AskedInv, Asked
    <2>1. CASE Mount(m)
      <3>1. /\ ofs'[m].upper_mnt = FALSE /\ ofs'[m].workdir = FALSE /\ ofs'[m].indexdir = FALSE
            /\ pc'[m] \in {"free", "lower", "upper"}
            /\ config'[m].metacopy => config'[m].redirect_dir
        BY <2>1, MountOfs, MountAsked
      <3>q. QED
        BY <2>b, <3>1 DEF Supported
    <2>2. CASE GivesUp(m)
      <3>1. pc'[m] = "free" /\ config' = config /\ ofs' = ofs
        BY <2>2 DEF GivesUp
      <3>q. QED
        BY <2>0, <2>b, <3>1 DEF Supported
    <2>3. CASE GetUpper(m) /\ ~GivesUp(m)
      <3>1. /\ pc'[m] \in {"free", "work"} /\ pc[m] = "upper" /\ config' = config /\ req' = req
            /\ KeepsDirs(m) /\ ofs'[m].upper_mnt
        BY <2>3, GetUpperFacts
      <3>q. QED
        BY <2>0, <2>b, <3>1 DEF Supported, KeepsDirs
    <2>4. CASE GetWorkdir(m) /\ ~GivesUp(m)
      <3>1. /\ pc'[m] \in {"free", "makework"} /\ pc[m] = "work" /\ config' = config /\ req' = req
            /\ KeepsDirs(m) /\ ofs'[m].upper_mnt = ofs[m].upper_mnt
        BY <2>4, GetWorkdirFacts DEF KeepsLocks
      <3>q. QED
        BY <2>0, <2>b, <3>1 DEF Supported, KeepsDirs
    <2>5. CASE MakeWorkdir(m)
      <3>1. /\ pc[m] = "makework" /\ pc'[m] = "lower" /\ req' = req
            /\ ofs'[m].workdir /\ ofs'[m].indexdir = ofs[m].indexdir
            /\ ofs'[m].upper_mnt = ofs[m].upper_mnt
            /\ config'[m].index => config[m].index /\ Fs(Upper(m)) \notin NoXattrs
                                                   /\ Handles[Fs(Upper(m))] # "none"
            /\ config'[m].metacopy => config[m].metacopy /\ Fs(Upper(m)) \notin NoXattrs
            /\ config'[m].redirect_dir = config[m].redirect_dir
        BY <2>5, MakeWorkdirFacts DEF KeepsLocks
      <3>q. QED
        BY <2>0, <2>b, <2>c, <2>d, <2>e, <3>1 DEF Supported
    <2>6. CASE NoWorkdir(m)
      <3>1. /\ pc[m] = "makework" /\ pc'[m] = "lower" /\ req' = req /\ config' = config
            /\ ofs'[m].workdir = ofs[m].workdir /\ ofs'[m].indexdir = ofs[m].indexdir
            /\ ofs'[m].upper_mnt = ofs[m].upper_mnt /\ ofs'[m].rdonly
        BY <2>6, NoWorkdirFacts DEF KeepsLocks
      <3>q. QED
        BY <2>0, <2>b, <2>c, <3>1 DEF Supported
    <2>7. CASE GetLowerstack(m) /\ ~GivesUp(m)
      <3>1. /\ pc[m] = "lower" /\ pc'[m] = "layers" /\ req' = req
            /\ Len(Lowers(m)) <= OVL_MAX_STACK
            /\ KeepsConfig(m) /\ KeepsDirs(m) /\ ofs'[m].upper_mnt = ofs[m].upper_mnt
            /\ config'[m].index => config[m].index
            /\ config'[m].nfs_export /\ Upper(m) = NoDir => ~config[m].redirect_follow
            /\ config'[m].nfs_export \/ (config'[m].index /\ Upper(m) # NoDir) => Fhs(m)
        BY <2>7, GetLowerstackFacts DEF KeepsLocks
      <3>q. QED
        BY <2>0, <2>b, <2>c, <3>1 DEF Supported, KeepsConfig, KeepsDirs
    <2>8. CASE GetLowerLayer(m)
      <3>1. /\ pc[m] = "layers" /\ pc'[m] \in {"layers", "free"} /\ req' = req
            /\ KeepsConfig(m) /\ KeepsDirs(m) /\ ofs'[m].upper_mnt = ofs[m].upper_mnt
            /\ config'[m].index => config[m].index
            /\ config'[m].nfs_export => config[m].nfs_export
        BY <2>8, GetLowerLayerFacts DEF KeepsLocks
      <3>q. QED
        BY <2>0, <2>b, <2>c, <3>1 DEF Supported, KeepsConfig, KeepsDirs
    <2>9. CASE LayersDone(m)
      <3>1. /\ pc[m] = "layers" /\ pc'[m] \in {"origin", "overlap"} /\ req' = req
            /\ pc'[m] = "origin" => ofs[m].workdir /\ config[m].index
            /\ ofs'[m].rdonly <=> ofs[m].rdonly \/ ~ofs[m].upper_mnt
            /\ ofs'[m].workdir = ofs[m].workdir /\ ofs'[m].indexdir = ofs[m].indexdir
            /\ ofs'[m].upper_mnt = ofs[m].upper_mnt
            /\ config'[m].index = config[m].index
            /\ config'[m].nfs_export = config[m].nfs_export
            /\ config'[m].metacopy = config[m].metacopy
            /\ config'[m].redirect_dir = config[m].redirect_dir
            /\ config'[m].redirect_follow = config[m].redirect_follow
        BY <2>9, LayersDoneFacts DEF KeepsLocks
      <3>q. QED
        BY <2>0, <2>b, <2>c, <3>1 DEF Supported
    <2>10. CASE (VerifyOrigin(m) \/ CheckLayer(m)) /\ ~GivesUp(m)
      <3>1. /\ req' = req /\ config' = config /\ ofs' = ofs
            /\ \/ pc[m] = "origin" /\ pc'[m] = "index"
               \/ pc[m] = "overlap" /\ pc'[m] = "overlap"
        BY <2>10, VerifyOriginFacts, CheckLayerFacts
      <3>q. QED
        BY <2>0, <2>b, <2>c, <3>1 DEF Supported
    <2>11. CASE GetIndexdir(m)
      <3>1. /\ pc[m] = "index" /\ pc'[m] \in {"free", "overlap"} /\ req' = req /\ config' = config
            /\ ofs'[m].indexdir /\ ofs'[m].workdir = ofs[m].workdir
            /\ ofs'[m].rdonly = ofs[m].rdonly /\ ofs'[m].upper_mnt = ofs[m].upper_mnt
        BY <2>11, GetIndexdirFacts DEF KeepsLocks
      <3>q. QED
        BY <2>0, <2>b, <2>c, <2>d, <2>e, <3>1 DEF Supported
    <2>12. CASE NoIndexdir(m)
      <3>1. /\ pc[m] = "index" /\ pc'[m] = "overlap" /\ req' = req /\ config' = config
            /\ ~ofs'[m].workdir /\ ofs'[m].indexdir = ofs[m].indexdir
            /\ ofs'[m].rdonly /\ ofs'[m].upper_mnt = ofs[m].upper_mnt
        BY <2>12, NoIndexdirFacts DEF KeepsLocks
      <3>q. QED
        BY <2>0, <2>b, <2>c, <3>1 DEF Supported
    <2>13. CASE Finish(m)
      <3>1. /\ pc[m] = "overlap" /\ pc'[m] = "live" /\ req' = req /\ ofs' = ofs
            /\ KeepsConfig(m)
            /\ config'[m].index <=> config[m].index /\ ofs[m].indexdir
            /\ config'[m].nfs_export => /\ config[m].nfs_export /\ ~config[m].metacopy
                                        /\ ofs[m].indexdir \/ ~ofs[m].upper_mnt
        BY <2>13, FinishFacts
      <3>q. QED
        BY <2>0, <2>b, <2>c, <3>1 DEF Supported, KeepsConfig
    <2>14. CASE PutSuper(m) \/ FreeWork(m)
      <3>1. /\ pc'[m] \in {"free", "free_upper"} /\ config' = config
            /\ ofs'[m].workdir = ofs[m].workdir /\ ofs'[m].indexdir = ofs[m].indexdir
            /\ ofs'[m].upper_mnt = ofs[m].upper_mnt
        BY <2>14, PutSuperFacts, FreeWorkFacts DEF KeepsDirs
      <3>q. QED
        BY <2>0, <2>b, <3>1 DEF Supported
    <2>15. CASE FreeUpper(m)
      <3>1. /\ pc'[m] \in {"failed", "unmounted"} /\ config'[m].metacopy = FALSE
            /\ ofs'[m].workdir = FALSE /\ ofs'[m].indexdir = FALSE
        BY <2>15, FreeUpperOfs
      <3>q. QED
        BY <2>b, <3>1 DEF Supported
    <2>16. CASE Remount(m)
      <3>1. /\ pc[m] = "live" /\ pc'[m] = "live" /\ req' = req /\ config' = config
            /\ ofs'[m].rdonly \/ (ofs[m].upper_mnt /\ ofs[m].workdir)
            /\ ofs'[m].workdir = ofs[m].workdir /\ ofs'[m].indexdir = ofs[m].indexdir
            /\ ofs'[m].upper_mnt = ofs[m].upper_mnt
        BY <2>16, RemountFacts DEF KeepsLocks
      <3>q. QED
        BY <2>0, <2>b, <2>c, <3>1 DEF Supported
    <2>q. QED
      BY <2>1, <2>2, <2>3, <2>4, <2>5, <2>6, <2>7, <2>8, <2>9, <2>10, <2>11, <2>12, <2>13, <2>14,
         <2>15, <2>16, StepFailsFacts DEF Step
  <1>q. QED
    BY <1>2, <1>3

-----------------------------------------------------------------------------
(* File system numbers. *)

\* Appending a new element keeps a sequence injective.
LEMMA AppendNewInjective ==
  ASSUME NEW S, NEW s \in Seq(S), NEW f \in S, IsInjective(s), f \notin ToSet(s)
  PROVE  IsInjective(Append(s, f)) /\ Len(Append(s, f)) = Len(s) + 1
PROOF
  <1>1. DOMAIN s = 1 .. Len(s) /\ Len(s) \in Nat
    BY LenProperties
  <1>2. /\ DOMAIN Append(s, f) = 1 .. Len(s) + 1 /\ Append(s, f)[Len(s) + 1] = f
        /\ \A i \in 1 .. Len(s) : Append(s, f)[i] = s[i]
        /\ Len(Append(s, f)) = Len(s) + 1
    BY <1>1
  <1>3. \A i \in 1 .. Len(s) + 1 : i \in 1 .. Len(s) \/ i = Len(s) + 1
    BY <1>1
  <1>4. \A i \in 1 .. Len(s) : s[i] # f
    BY <1>1 DEF ToSet
  <1>5. \A i, j \in 1 .. Len(s) : s[i] = s[j] => i = j
    BY <1>1 DEF IsInjective
  <1>6. \A i, j \in 1 .. Len(s) + 1 : Append(s, f)[i] = Append(s, f)[j] => i = j
    BY <1>2, <1>3, <1>4, <1>5
  <1>7. \A i, j \in DOMAIN Append(s, f) : Append(s, f)[i] = Append(s, f)[j] => i = j
    BY <1>2, <1>6, Zenon
  <1> DEFINE t == Append(s, f)
  <1>8. (\A i, j \in DOMAIN t : t[i] = t[j] => i = j) /\ Len(t) = Len(s) + 1
    BY <1>2, <1>7
  <1> HIDE DEF t
  <1>9. IsInjective(t) /\ Len(t) = Len(s) + 1
    BY <1>8 DEF IsInjective
  <1>q. QED
    BY <1>9 DEF t

\* The layer added may bring a new file system.
LEMMA LowerFsGrows ==
  ASSUME TypeInv, AskedInv, FsidInv, NEW m \in Mounts, GetLowerLayer(m)
  PROVE  /\ IsInjective(ofs'[m].lower_fs)
         /\ Len(ofs[m].lower_fs) \in Nat
         /\ Len(ofs'[m].lower_fs) \in {Len(ofs[m].lower_fs), Len(ofs[m].lower_fs) + 1}
PROOF
  <1> DEFINE f == Fs(Layer(m))
             s == ofs[m].lower_fs
  <1>1. ofs'[m].lower_fs = LowerFs(m, f)
    BY GetLowerLayerFacts
  <1>2. f \in Name
    BY LayerIndex, HeadTailProperties DEF Dir, NoDir, Fs
  <1>3. s \in Seq(Name) /\ Len(s) \in Nat
    BY LenProperties DEF TypeInv, Ofs
  <1>4. IsInjective(s)
    BY DEF FsidInv, Numbered
  <1>5. CASE NewFsid(m, f)
    <2>1. ofs'[m].lower_fs = Append(s, f) /\ f \notin ToSet(s)
      BY <1>1, <1>5 DEF LowerFs, NewFsid
    <2> HIDE DEF f, s
    <2>2. IsInjective(Append(s, f)) /\ Len(Append(s, f)) = Len(s) + 1
      BY <1>2, <1>3, <1>4, <2>1, AppendNewInjective, Zenon
    <2>q. QED
      BY <1>3, <2>1, <2>2 DEF s
  <1>6. CASE ~NewFsid(m, f)
    BY <1>1, <1>3, <1>4, <1>6 DEF LowerFs
  <1>q. QED
    BY <1>5, <1>6

\* ovl_get_lower_layers leaves room for the numbers of all file systems.
LEMMA LayersDoneFits ==
  ASSUME TypeInv, AskedInv, SupportInv, FsidInv, NEW m \in Mounts, LayersDone(m)
  PROVE  XinoFits(m)'
PROOF
  <1> DEFINE k == Len(ofs[m].lower_fs)
             one == k = 0 \/ (k = 1 /\ ~ofs[m].upper_mnt)
             bits == ofs[m].xino_bits
             b == ofs'[m].xino_bits
  <1>1. /\ pc[m] = "layers" /\ ofs'[m].lower_fs = ofs[m].lower_fs
        /\ b = IF one THEN 0
               ELSE IF config[m].xino = "on" /\ bits = 0 THEN XinoBits(k) ELSE bits
        /\ config'[m].xino = IF one THEN "off" ELSE config[m].xino
    BY LayersDoneFacts DEF KeepsLayers
  <1>2. bits \in {0, HighBits}
    BY <1>1 DEF FsidInv, Numbered, Up, Uppered, Worked, Made, Layered, Indexing, Checking
  <1>3. k \in Nat /\ k <= OVL_MAX_STACK
    BY FewFs, LenProperties DEF TypeInv, Ofs
  <1>4. IsInjective(ofs'[m].lower_fs)
    BY <1>1 DEF FsidInv, Numbered
  <1>5. Len(ofs'[m].lower_fs) = k
    BY <1>1
  <1> HIDE DEF k, bits, b
  <1>6. CASE one
    <2>1. b = 0 /\ config'[m].xino = "off"
      BY <1>1, <1>6
    <2>q. QED
      BY <1>4, <2>1 DEF XinoFits, b
  <1>7. CASE ~one /\ config[m].xino = "on" /\ bits = 0
    <2>1. k \in 1 .. OVL_MAX_STACK
      BY <1>3, <1>7, MountAssumption
    <2>2. b = XinoBits(k) /\ XinoBits(k) \in 1 .. k /\ k < 2^XinoBits(k)
      BY <1>1, <1>7, <2>1, XinoBitsRange
    <2>3. b > 0 /\ k < 2^b
      BY <1>3, <2>2
    <2>q. QED
      BY <1>4, <1>5, <2>3 DEF XinoFits, b
  <1>8. CASE ~one /\ ~(config[m].xino = "on" /\ bits = 0)
    <2>1. b = bits /\ config'[m].xino = config[m].xino
      BY <1>1, <1>8
    <2>2. b > 0 => k < 2^b
      <3>1. k \in 0 .. OVL_MAX_STACK
        BY <1>3, MountAssumption
      <3>2. b > 0 => b = HighBits
        BY <1>2, <2>1, MountAssumption
      <3>q. QED
        BY <3>1, <3>2, BitsAssumption
    <2>3. config'[m].xino = "on" => b > 0
      BY <1>2, <1>8, <2>1, MountAssumption
    <2>q. QED
      BY <1>4, <1>5, <2>2, <2>3 DEF XinoFits, b
  <1>q. QED
    BY <1>6, <1>7, <1>8

LEMMA FsidStep ==
  ASSUME TypeInv, AskedInv, LayerInv, SupportInv, FsidInv, NEW m \in Mounts, Step(m)
  PROVE  FsidInv'
PROOF
  <1>1. SUFFICES ASSUME NEW n \in Mounts
                 PROVE  Numbered(n)'
    BY DEF FsidInv
  <1>0. Numbered(n)
    BY DEF FsidInv
  <1>2. CASE n # m
    <2>1. config'[n] = config[n] /\ pc'[n] = pc[n] /\ ofs'[n] = ofs[n]
      BY <1>2, OthersSame DEF Same
    <2>q. QED
      BY <1>0, <2>1 DEF Numbered, XinoFits
  <1>3. CASE n = m
    <2> USE DEF Up, Uppered, Worked, Made, Layered, Indexing, Checking
    <2>0. Numbered(m)
      BY <1>0, <1>3
    <2>a. SUFFICES Numbered(m)'
      BY <1>3
    <2>1. CASE Mount(m) \/ FreeUpper(m)
      <3>1. /\ ofs'[m].lower_fs = <<>> /\ ofs'[m].numlower = 0
            /\ pc'[m] \in {"free", "lower", "upper", "failed", "unmounted"}
            /\ pc'[m] \in Up => ofs'[m].xino_bits \in {0, HighBits}
        BY <2>1, MountOfs, MountAsked, FreeUpperOfs
      <3>2. IsInjective(<<>>) /\ Len(<<>>) = 0
        BY DEF IsInjective
      <3>3. IsInjective(ofs'[m].lower_fs) /\ Len(ofs'[m].lower_fs) <= ofs'[m].numlower
        BY <3>1, <3>2
      <3>q. QED
        BY <3>1, <3>3 DEF Numbered
    <2>2. CASE GetLowerLayer(m)
      <3>1. /\ pc[m] = "layers" /\ ofs'[m].xino_bits = ofs[m].xino_bits
            /\ \/ pc'[m] = "free"
               \/ pc'[m] = "layers" /\ ofs'[m].numlower = ofs[m].numlower + 1
        BY <2>2, GetLowerLayerFacts
      <3>2. Len(ofs[m].lower_fs) <= ofs[m].numlower /\ ofs[m].xino_bits \in {0, HighBits}
        BY <2>0, <3>1 DEF Numbered
      <3>3. ofs[m].numlower \in Nat
        BY <2>2, LayerIndex
      <3>4. /\ IsInjective(ofs'[m].lower_fs) /\ Len(ofs[m].lower_fs) \in Nat
            /\ Len(ofs'[m].lower_fs) \in {Len(ofs[m].lower_fs), Len(ofs[m].lower_fs) + 1}
        BY <2>2, LowerFsGrows
      <3>5. pc'[m] = "layers" => Len(ofs'[m].lower_fs) <= ofs'[m].numlower
        BY <3>1, <3>2, <3>3, <3>4
      <3>q. QED
        BY <3>1, <3>2, <3>4, <3>5 DEF Numbered
    <2>3. CASE LayersDone(m)
      <3>1. pc[m] = "layers" /\ pc'[m] \in Indexing /\ KeepsLayers(m)
        BY <2>3, LayersDoneFacts
      <3>2. XinoFits(m)'
        BY <2>3, LayersDoneFits
      <3>q. QED
        BY <2>0, <3>1, <3>2 DEF Numbered, KeepsLayers
    <2>4. CASE \/ (GetUpper(m) \/ GetWorkdir(m) \/ GetLowerstack(m)) /\ ~GivesUp(m)
               \/ MakeWorkdir(m) \/ NoWorkdir(m)
      <3>1. /\ pc[m] \in Up \ Indexing /\ pc'[m] \in (Up \ Indexing) \cup {"free"}
            /\ KeepsLayers(m) /\ ofs'[m].xino_bits \in {0, ofs[m].xino_bits}
        BY <2>4, GetUpperFacts, GetWorkdirFacts, GetLowerstackFacts, MakeWorkdirFacts, NoWorkdirFacts
      <3>q. QED
        BY <2>0, <3>1 DEF Numbered, KeepsLayers
    <2>5. CASE \/ (VerifyOrigin(m) \/ CheckLayer(m)) /\ ~GivesUp(m)
               \/ GetIndexdir(m) \/ NoIndexdir(m) \/ Finish(m) \/ Remount(m)
      <3>1. /\ pc[m] \in Indexing /\ pc'[m] \in Indexing \cup {"free"}
            /\ KeepsLayers(m) /\ ofs'[m].xino_bits = ofs[m].xino_bits
            /\ config'[m].xino = config[m].xino
        BY <2>5, VerifyOriginFacts, CheckLayerFacts, GetIndexdirFacts, NoIndexdirFacts, FinishFacts,
           RemountFacts DEF KeepsLayers, KeepsConfig
      <3>q. QED
        BY <2>0, <3>1 DEF Numbered, KeepsLayers, XinoFits
    <2>6. CASE GivesUp(m) \/ PutSuper(m) \/ FreeWork(m)
      <3>1. pc'[m] \in {"free", "free_upper"} /\ KeepsLayers(m)
        BY <2>6, PutSuperFacts, FreeWorkFacts DEF GivesUp, KeepsLayers
      <3>q. QED
        BY <2>0, <3>1 DEF Numbered, KeepsLayers
    <2>q. QED
      BY <2>1, <2>2, <2>3, <2>4, <2>5, <2>6, StepFailsFacts DEF Step
  <1>q. QED
    BY <1>2, <1>3

-----------------------------------------------------------------------------
(* The marks on disk. *)

\* A mark that is set is never changed.
LEMMA DiskKept ==
  ASSUME TypeInv, AskedInv, NEW m \in Mounts, Step(m), NEW d \in Named
  PROVE  /\ rootOrigin[d] # NoDir => rootOrigin'[d] = rootOrigin[d]
         /\ indexUpper[d] # NoDir => indexUpper'[d] = indexUpper[d]
PROOF
  <1>1. CASE GivesUp(m)
    BY <1>1 DEF GivesUp
  <1>2. CASE VerifyOrigin(m) /\ ~GivesUp(m)
    <2>1. /\ rootOrigin' = [rootOrigin EXCEPT ![Upper(m)] = IF @ = NoDir THEN Lowers(m)[1] ELSE @]
          /\ indexUpper' = indexUpper
      BY <1>2, VerifyOriginFacts
    <2>2. rootOrigin \in [Named -> Dir]
      BY DEF TypeInv
    <2>q. QED
      BY <2>1, <2>2
  <1>3. CASE GetIndexdir(m)
    <2>1. /\ rootOrigin' = rootOrigin
          /\ \/ indexUpper' = indexUpper
             \/ indexUpper' = [indexUpper EXCEPT ![Base(m)] = IF @ = NoDir THEN Upper(m) ELSE @]
      BY <1>3, GetIndexdirFacts
    <2>2. indexUpper \in [Named -> Dir]
      BY DEF TypeInv
    <2>q. QED
      BY <2>1, <2>2
  <1>4. CASE ~GivesUp(m) /\ ~VerifyOrigin(m) /\ ~GetIndexdir(m)
    BY <1>4, StepFailsFacts DEF Step, Mount, GetUpper, GetWorkdir, MakeWorkdir, NoWorkdir,
       GetLowerstack, GetLowerLayer, LayersDone, NoIndexdir, CheckLayer, Finish, StepFails,
       PutSuper, FreeWork, FreeUpper, Remount, disk
  <1>q. QED
    BY <1>1, <1>2, <1>3, <1>4

\* A mount that has verified its marks has layers to compare them with.
LEMMA VerifiedNamed ==
  ASSUME TypeInv, AskedInv, HoldInv, SupportInv, NEW n \in Mounts,
         pc[n] = "index" \/ (pc[n] \in Checking /\ ofs[n].indexdir)
  PROVE  /\ Upper(n) \in Named /\ Base(n) \in Named
         /\ Upper(n) # NoDir /\ Lowers(n)[1] # NoDir
PROOF
  <1>1. Upper(n) # NoDir
    BY DEF AskedInv, Asked, SupportInv, Supported, HoldInv, Holds
  <1>2. pc[n] \in Up
    BY DEF Up, Uppered, Worked, Made, Layered, Indexing, Checking
  <1>3. Base(n) # NoDir /\ Lowers(n) # <<>>
    BY <1>1, <1>2 DEF AskedInv, Asked
  <1>4. Upper(n) \in Named /\ Base(n) \in Named
    BY <1>1, <1>3 DEF AskedInv, Asked
  <1>5. Lowers(n) \in Seq(Dir \ {NoDir})
    BY DirsType
  <1>6. Len(Lowers(n)) \in Nat /\ Len(Lowers(n)) # 0
    BY <1>3, <1>5, LenProperties, EmptySeq
  <1>7. Lowers(n)[1] \in Dir \ {NoDir}
    BY <1>5, <1>6, ElementOfSeq
  <1>q. QED
    BY <1>1, <1>4, <1>7

LEMMA OriginStep ==
  ASSUME TypeInv, AskedInv, HoldInv, SupportInv, OriginInv, NEW m \in Mounts, Step(m)
  PROVE  OriginInv'
PROOF
  <1>1. SUFFICES ASSUME NEW n \in Mounts
                 PROVE  Verifies(n)'
    BY DEF OriginInv
  <1>0. Verifies(n)
    BY DEF OriginInv
  <1>a. ASSUME Upper(n)' = Upper(n), Base(n)' = Base(n), Lowers(n)' = Lowers(n),
               pc'[n] = "index" => pc[n] = "index",
               pc'[n] \in Checking /\ ofs'[n].indexdir => pc[n] \in Checking /\ ofs[n].indexdir
        PROVE  Verifies(n)'
    <2>1. pc[n] = "index" \/ (pc[n] \in Checking /\ ofs[n].indexdir)
            => /\ rootOrigin[Upper(n)] = Lowers(n)[1]
               /\ rootOrigin'[Upper(n)] = rootOrigin[Upper(n)]
      BY <1>0, VerifiedNamed, DiskKept DEF Verifies
    <2>2. pc[n] \in Checking /\ ofs[n].indexdir
            => /\ indexUpper[Base(n)] = Upper(n)
               /\ indexUpper'[Base(n)] = indexUpper[Base(n)]
      BY <1>0, VerifiedNamed, DiskKept DEF Verifies
    <2>q. QED
      BY <1>a, <2>1, <2>2 DEF Verifies
  <1>2. CASE n # m
    <2>1. /\ Upper(n)' = Upper(n) /\ Base(n)' = Base(n) /\ Lowers(n)' = Lowers(n)
          /\ pc'[n] = pc[n] /\ ofs'[n] = ofs[n]
      BY <1>2, OthersSame, OthersViews DEF Same
    <2>q. QED
      BY <1>a, <2>1
  <1>3. CASE n = m
    <2> USE DEF Checking
    <2>1. CASE Mount(m)
      <3>1. pc'[m] \in {"free", "lower", "upper"}
        BY <2>1, MountAsked
      <3>q. QED
        BY <1>3, <3>1 DEF Verifies
    <2>2. CASE ~Mount(m)
      <3>0. req' = req /\ Upper(m)' = Upper(m) /\ Base(m)' = Base(m) /\ Lowers(m)' = Lowers(m)
        BY <2>2, RequestKept DEF Upper, Base, Lowers
      <3>1. CASE VerifyOrigin(m) /\ ~GivesUp(m)
        <4>1. /\ pc[m] = "origin" /\ pc'[m] = "index" /\ rootOrigin[Upper(m)] \in {NoDir, Lowers(m)[1]}
              /\ rootOrigin' = [rootOrigin EXCEPT ![Upper(m)] = IF @ = NoDir THEN Lowers(m)[1] ELSE @]
          BY <3>1, VerifyOriginFacts
        <4>2. Upper(m) \in Named /\ rootOrigin \in [Named -> Dir]
          BY <4>1 DEF AskedInv, Asked, TypeInv
        <4>3. rootOrigin'[Upper(m)] = Lowers(m)[1]
          BY <4>1, <4>2
        <4>q. QED
          BY <1>3, <3>0, <4>1, <4>3 DEF Verifies
      <3>2. CASE GetIndexdir(m)
        <4>1. CASE pc'[m] = "free"
          BY <1>3, <4>1 DEF Verifies
        <4>2. CASE pc'[m] # "free"
          <5>1. /\ pc[m] = "index" /\ pc'[m] = "overlap" /\ indexUpper[Base(m)] \in {NoDir, Upper(m)}
                /\ rootOrigin' = rootOrigin
                /\ indexUpper' = [indexUpper EXCEPT ![Base(m)] = IF @ = NoDir THEN Upper(m) ELSE @]
            BY <3>2, <4>2, GetIndexdirFacts
          <5>2. Base(m) \in Named /\ indexUpper \in [Named -> Dir]
            BY <5>1, VerifiedNamed DEF TypeInv
          <5>3. indexUpper'[Base(m)] = Upper(m) /\ rootOrigin[Upper(m)] = Lowers(m)[1]
            BY <1>0, <1>3, <5>1, <5>2 DEF Verifies
          <5>q. QED
            BY <1>3, <3>0, <5>1, <5>3 DEF Verifies
        <4>q. QED
          BY <4>1, <4>2
      <3>3. CASE (~VerifyOrigin(m) \/ GivesUp(m)) /\ ~GetIndexdir(m)
        <4>1. pc'[m] # "index"
          <5>1. SUFFICES ASSUME pc'[m] = "index"
                         PROVE  FALSE
            OBVIOUS
          <5>2. pc[m] = "origin" /\ ~GivesUp(m)
            BY <2>2, <5>1, PcStep DEF GivesUp
          <5>3. StepFails(m)
            BY <2>2, <3>3, <5>2 DEF Step, GetUpper, GetWorkdir, MakeWorkdir, NoWorkdir,
               GetLowerstack, GetLowerLayer, LayersDone, NoIndexdir, CheckLayer, Finish,
               PutSuper, FreeWork, FreeUpper, Remount
          <5>q. QED
            BY <5>2, <5>3, StepFailsFacts
        <4>2. pc'[m] \in Checking /\ ofs'[m].indexdir => pc[m] \in Checking /\ ofs[m].indexdir
          <5>0. pc[m] \in Up \ Checking => ~ofs[m].indexdir
            BY DEF SupportInv, Supported
          <5> USE DEF Up, Uppered, Worked, Made, Layered, Indexing
          <5>1. CASE GivesUp(m) \/ PutSuper(m) \/ FreeWork(m) \/ FreeUpper(m)
            BY <5>1, PutSuperFacts, FreeWorkFacts, FreeUpperOfs DEF GivesUp
          <5>2. CASE (GetUpper(m) \/ GetWorkdir(m) \/ GetLowerstack(m)) /\ ~GivesUp(m)
            BY <5>2, GetUpperFacts, GetWorkdirFacts, GetLowerstackFacts
          <5>3. CASE MakeWorkdir(m) \/ NoWorkdir(m) \/ GetLowerLayer(m)
            BY <5>3, MakeWorkdirFacts, NoWorkdirFacts, GetLowerLayerFacts
          <5>4. CASE LayersDone(m) \/ NoIndexdir(m)
            BY <5>0, <5>4, LayersDoneFacts, NoIndexdirFacts
          <5>5. CASE (CheckLayer(m) /\ ~GivesUp(m)) \/ Finish(m) \/ Remount(m)
            BY <5>5, CheckLayerFacts, FinishFacts, RemountFacts
          <5>q. QED
            BY <2>2, <3>3, <5>1, <5>2, <5>3, <5>4, <5>5, StepFailsFacts DEF Step
        <4>q. QED
          BY <1>3, <1>a, <3>0, <4>1, <4>2
      <3>q. QED
        BY <3>1, <3>2, <3>3
    <2>q. QED
      BY <2>1, <2>2
  <1>q. QED
    BY <1>2, <1>3

-----------------------------------------------------------------------------
(* The copy thread. *)

\* A new thread for a new mount, one thread less when a mount is gone, no new mount.
LEMMA ThreadAdded ==
  ASSUME NEW S, NEW T, ExistsInjection(S, T), NEW m, NEW k, k \notin T, NEW R, R \subseteq S \cup {m}
  PROVE  ExistsInjection(R, T \cup {k})
PROOF
  <1>1. PICK g \in [S -> T] : \A a, b \in S : g[a] = g[b] => a = b
    BY DEF ExistsInjection, Injection, IsInjective
  <1>2. PICK h : h = [n \in R |-> IF n = m THEN k ELSE g[n]]
    OBVIOUS
  <1>3. \A n \in R : n # m => n \in S /\ g[n] \in T /\ h[n] = g[n]
    BY <1>1, <1>2
  <1>4. \A n \in R : n = m => h[n] = k
    BY <1>2
  <1>5. h \in [R -> T \cup {k}]
    BY <1>2, <1>3
  <1>6. ASSUME NEW a \in R, NEW b \in R, h[a] = h[b] PROVE a = b
    BY <1>1, <1>3, <1>4, <1>6
  <1>q. QED
    BY <1>2, <1>5, <1>6 DEF ExistsInjection, Injection, IsInjective

LEMMA ThreadRemoved ==
  ASSUME NEW S, NEW T, ExistsInjection(S, T), NEW m \in S, NEW k
  PROVE  ExistsInjection(S \ {m}, T \ {k})
PROOF
  <1>1. PICK g \in [S -> T] : \A a, b \in S : g[a] = g[b] => a = b
    BY DEF ExistsInjection, Injection, IsInjective
  <1>2. PICK h : h = [n \in S \ {m} |-> IF g[n] = k THEN g[m] ELSE g[n]]
    OBVIOUS
  <1>3. ASSUME NEW n \in S \ {m} PROVE h[n] \in T \ {k}
    <2>1. CASE g[n] = k
      <3>1. g[m] # k
        BY <1>1, <2>1
      <3>q. QED
        BY <1>1, <1>2, <2>1, <3>1
    <2>2. CASE g[n] # k
      BY <1>1, <1>2, <2>2
    <2>q. QED
      BY <2>1, <2>2
  <1>4. ASSUME NEW a \in S \ {m}, NEW b \in S \ {m}, h[a] = h[b] PROVE a = b
    <2>1. /\ h[a] = IF g[a] = k THEN g[m] ELSE g[a]
          /\ h[b] = IF g[b] = k THEN g[m] ELSE g[b]
      BY <1>2
    <2>2. g[a] # g[m] /\ g[b] # g[m] /\ (g[a] = g[b] => a = b)
      BY <1>1
    <2>q. QED
      BY <1>4, <2>1, <2>2
  <1>q. QED
    BY <1>2, <1>3, <1>4 DEF ExistsInjection, Injection, IsInjective

LEMMA ThreadsEnough ==
  ASSUME NEW S, NEW T, ExistsInjection(S, T), NEW R, R \subseteq S
  PROVE  ExistsInjection(R, T)
PROOF
  <1>1. PICK g \in [S -> T] : \A a, b \in S : g[a] = g[b] => a = b
    BY DEF ExistsInjection, Injection, IsInjective
  <1>2. PICK h : h = [n \in R |-> g[n]]
    OBVIOUS
  <1>3. h \in [R -> T] /\ \A a, b \in R : h[a] = h[b] => a = b
    BY <1>1, <1>2
  <1>q. QED
    BY <1>2, <1>3 DEF ExistsInjection, Injection, IsInjective

LEMMA ThreadStep ==
  ASSUME TypeInv, ThreadInv, NEW m \in Mounts, Step(m)
  PROVE  ThreadInv'
PROOF
  <1>0. ExistsInjection(Served, running) /\ running \subseteq 1 .. calls /\ calls \in Nat
    BY MountAssumption DEF ThreadInv, TypeInv
  <1>1. \A n \in Mounts : n # m => pc'[n] = pc[n]
    BY OthersSame DEF Same
  <1>2. \A n \in Mounts : n # m => (n \in Served' <=> n \in Served)
    BY <1>1 DEF Served
  <1>3. Served \subseteq Mounts /\ Served' \subseteq Mounts
    BY DEF Served
  <1>4. CASE Mount(m)
    <2>1. running' = running \cup {calls + 1} /\ calls' = calls + 1
      BY <1>4, MountFacts
    <2>2. calls + 1 \notin running /\ running' \subseteq 1 .. calls'
      BY <1>0, <2>1
    <2>3. Served' \subseteq Served \cup {m}
      BY <1>2, <1>3
    <2>4. ExistsInjection(Served', running \cup {calls + 1})
      BY <1>0, <2>2, <2>3, ThreadAdded
    <2>q. QED
      BY <2>1, <2>2, <2>4, Zenon DEF ThreadInv
  <1>5. CASE PutSuper(m)
    <2>1. /\ pc[m] = "live" /\ pc'[m] = "free" /\ running' = running \ {thread}
          /\ calls' = calls
      BY <1>5, PutSuperFacts DEF PutSuper
    <2>2. m \in Served /\ Served' = Served \ {m}
      <3>1. m \in Served /\ m \notin Served'
        BY <2>1 DEF Served
      <3>q. QED
        BY <1>2, <1>3, <3>1
    <2>3. ExistsInjection(Served \ {m}, running \ {thread})
      BY <1>0, <2>2, ThreadRemoved
    <2>q. QED
      BY <1>0, <2>1, <2>2, <2>3 DEF ThreadInv
  <1>6. CASE ~Mount(m) /\ ~PutSuper(m)
    <2>1. running' = running /\ calls' = calls
      BY <1>6, ThreadKeptBy, RequestKept
    <2>2. m \in Served' => m \in Served
      <3>1. CASE FreeWork(m) \/ FreeUpper(m)
        BY <3>1, FreeWorkFacts, FreeUpperFacts DEF Served
      <3>2. CASE ~FreeWork(m) /\ ~FreeUpper(m)
        <4>1. pc[m] \in Up
          BY <1>6, <3>2, UpStep
        <4>q. QED
          BY <4>1 DEF Served, Up, Uppered, Worked, Made, Layered, Indexing, Checking
      <3>q. QED
        BY <3>1, <3>2
    <2>3. Served' \subseteq Served
      BY <1>2, <1>3, <2>2
    <2>4. ExistsInjection(Served', running)
      BY <1>0, <2>3, ThreadsEnough
    <2>q. QED
      BY <1>0, <2>1, <2>4, Zenon DEF ThreadInv
  <1>q. QED
    BY <1>4, <1>5, <1>6

-----------------------------------------------------------------------------
(* The invariant holds from the start and is kept. *)

LEMMA InitInv == Init => MountInv
PROOF
  <1>0. SUFFICES ASSUME Init
                 PROVE  MountInv
    OBVIOUS
  <1>1. \A m \in Mounts :
          /\ pc[m] = "none" /\ req[m] = NoRequest /\ config[m] = NoConfig /\ ofs[m] = NoOfs
          /\ traps[m] = {} /\ todo[m] = <<>> /\ result[m] = "0" /\ older[m] = {}
    BY <1>0 DEF Init
  <1>2. \A m \in Mounts :
          /\ ofs[m].upper_mnt = FALSE /\ ofs[m].upperdir_locked = FALSE
          /\ ofs[m].workdir_locked = FALSE /\ ofs[m].workdir = FALSE /\ ofs[m].indexdir = FALSE
          /\ ofs[m].numlower = 0 /\ ofs[m].lower_fs = <<>> /\ ofs[m].held = {}
          /\ config[m].index = FALSE /\ config[m].nfs_export = FALSE
          /\ config[m].metacopy = FALSE
          /\ Upper(m) = NoDir /\ Base(m) = NoDir /\ Lowers(m) = <<>>
    BY <1>1 DEF NoOfs, NoConfig, NoRequest, Upper, Base, Lowers
  <1>3. \A m \in Mounts : Marked(m) = {}
    BY <1>2 DEF Marked
  <1>4. \A m \in Mounts : pc[m] \in Idle /\ pc[m] \notin Up /\ pc[m] \notin {"free", "free_upper"}
    BY <1>1 DEF Idle, Up, Uppered, Worked, Made, Layered, Indexing, Checking
  <1>5. TypeInv
    <2>1. NoDir \in Dir /\ <<>> \in Seq(Dir \ {NoDir}) /\ <<>> \in Seq(Name)
      BY DEF NoDir, Dir
    <2>2. NoOfs \in Ofs
      BY <2>1 DEF NoOfs, Ofs
    <2>3. NoConfig \in Config
      BY DEF NoConfig, Config
    <2>4. NoRequest \in [upper : Dir, work : Dir, lowers : Seq(Dir \ {NoDir}),
                         index : BOOLEAN, nfs_export : BOOLEAN,
                         metacopy : {"default", "on", "off"},
                         redirect : {"default", "on", "follow", "off", "nofollow"},
                         xino : {"off", "auto", "on"}, rdonly : BOOLEAN]
      BY <2>1 DEF NoRequest
    <2>5. /\ req \in [Mounts -> [upper : Dir, work : Dir, lowers : Seq(Dir \ {NoDir}),
                         index : BOOLEAN, nfs_export : BOOLEAN,
                         metacopy : {"default", "on", "off"},
                         redirect : {"default", "on", "follow", "off", "nofollow"},
                         xino : {"off", "auto", "on"}, rdonly : BOOLEAN]]
          /\ config \in [Mounts -> Config] /\ ofs \in [Mounts -> Ofs]
      BY <1>0, <2>2, <2>3, <2>4, Zenon DEF Init
    <2>6. /\ traps \in [Mounts -> SUBSET (Dir \ {NoDir})]
          /\ todo \in [Mounts -> Seq(Dir \ {NoDir})]
          /\ result \in [Mounts -> {"0", "EINVAL", "EBUSY", "ELOOP", "ESTALE", "EIO", "unmounted"}]
          /\ older \in [Mounts -> SUBSET Mounts]
          /\ rootOrigin \in [Named -> Dir] /\ indexUpper \in [Named -> Dir]
          /\ offered \in Scenarios /\ calls \in 0 .. MaxMounts
      BY <1>0, <2>1, MountAssumption DEF Init
    <2>7. TypeOK
      <3>1. pc \in [Mounts -> {"none", "upper", "work", "makework", "lower", "layers", "origin",
                        "index", "overlap", "live", "free", "free_upper", "failed", "unmounted"}]
        BY <1>0 DEF Init
      <3>2. \A m \in Mounts :
              \A f \in {"index", "nfs_export", "metacopy", "redirect_dir", "redirect_follow"} :
                config[m][f] \in BOOLEAN
        BY <2>5 DEF Config
      <3>3. \A m \in Mounts : /\ req[m] \in Requests \cup {NoRequest}
                                              \cup {[r EXCEPT !.work = NoDir] : r \in Requests}
                              /\ ofs[m].numlower \in 0 .. Len(Lowers(m))
                              /\ ofs[m].held \subseteq traps[m]
                              /\ older[m] \subseteq Mounts \ {m}
        BY <1>1, <1>2
      <3>4. \A d \in Named : rootOrigin[d] \in Named \cup {NoDir} /\ indexUpper[d] \in Named \cup {NoDir}
        BY <1>0 DEF Init
      <3>5. /\ inuse \subseteq Named
            /\ thread \in 0 .. MaxMounts /\ running \subseteq 1 .. MaxMounts
            /\ misstopped \in BOOLEAN
        <4>1. inuse = {} /\ thread = 0 /\ running = {} /\ misstopped = FALSE
          BY <1>0 DEF Init
        <4>2. thread \in 0 .. MaxMounts
          BY <4>1, MountAssumption
        <4>q. QED
          BY <4>1, <4>2, Zenon
      <3>q. QED
        BY <3>1, <3>2, <3>3, <3>4, <3>5 DEF TypeOK
    <2>q. QED
      BY <2>5, <2>6, <2>7 DEF TypeInv
  <1>6. AskedInv
    <2>1. \A m \in Mounts : ToSet(Lowers(m)) = {}
      BY <1>2 DEF ToSet
    <2>q. QED
      BY <1>1, <1>2, <1>4, <2>1 DEF AskedInv, Asked
  <1>7. HoldInv
    BY <1>1, <1>2, <1>4 DEF HoldInv, Holds, Uppered, Worked, Made, Layered, Indexing, Checking
  <1>8. MarkInv
    BY <1>0, <1>3 DEF MarkInv, Init
  <1>9. TrapInv
    BY <1>1, <1>4 DEF TrapInv, Trapped
  <1>10. LayerInv
    BY <1>1, <1>4 DEF LayerInv, Distinct, Up, Uppered, Worked, Made, Layered, Indexing, Checking
  <1>11. OlderInv /\ NestInv
    BY <1>1, <1>4 DEF OlderInv, NestInv, Unnested
  <1>12. SupportInv
    BY <1>1, <1>2, <1>4 DEF SupportInv, Supported, Up, Uppered, Worked, Made, Layered, Indexing,
       Checking
  <1>13. FsidInv
    BY <1>1, <1>2, <1>4 DEF FsidInv, Numbered, IsInjective, Up, Uppered, Worked, Made, Layered,
       Indexing, Checking
  <1>14. OriginInv
    BY <1>1, <1>2 DEF OriginInv, Verifies, Checking
  <1>15. ThreadInv
    <2>1. Served = {} /\ running = {}
      BY <1>0, <1>1 DEF Served, Init
    <2>2. PICK g : g = [n \in {} |-> n]
      OBVIOUS
    <2>3. g \in [{} -> {}] /\ \A a, b \in DOMAIN g : g[a] = g[b] => a = b
      BY <2>2
    <2>4. ExistsInjection({}, {})
      BY <2>3 DEF ExistsInjection, Injection, IsInjective
    <2>q. QED
      BY <2>1, <2>4 DEF ThreadInv
  <1>q. QED
    BY <1>5, <1>6, <1>7, <1>8, <1>9, <1>10, <1>11, <1>12, <1>13, <1>14, <1>15 DEF MountInv

LEMMA StepInv ==
  ASSUME MountInv, NEW m \in Mounts, Step(m)
  PROVE  MountInv'
PROOF
  <1>1. /\ TypeInv /\ AskedInv /\ HoldInv /\ MarkInv /\ TrapInv /\ LayerInv
        /\ OlderInv /\ NestInv /\ SupportInv /\ FsidInv /\ OriginInv /\ ThreadInv
    BY DEF MountInv
  <1>2. TypeInv' /\ AskedInv' /\ HoldInv' /\ MarkInv'
    BY <1>1, TypeStep, AskedStep, HoldStep, MarkStep, Zenon
  <1>3. TrapInv' /\ LayerInv' /\ OlderInv' /\ NestInv'
    BY <1>1, TrapStep, LayerStep, OlderStep, NestStep, Zenon
  <1>4. SupportInv' /\ FsidInv' /\ OriginInv' /\ ThreadInv'
    BY <1>1, SupportStep, FsidStep, OriginStep, ThreadStep, Zenon
  <1>q. QED
    BY <1>2, <1>3, <1>4 DEF MountInv

LEMMA StutterInv ==
  ASSUME MountInv, UNCHANGED vars
  PROVE  MountInv'
PROOF
  <1>1. UNCHANGED <<pc, req, config, ofs, traps, todo, result, older, inuse, rootOrigin,
             indexUpper, thread, running, misstopped, offered, calls, troubles>>
    BY DEF vars
  <1> USE <1>1 DEF MountInv
  <1>2. TypeInv'
    BY DEF TypeInv, TypeOK, Lowers
  <1>3. AskedInv' /\ HoldInv' /\ TrapInv'
    BY DEF AskedInv, Asked, HoldInv, Holds, TrapInv, Trapped, Leak, Upper, Base, Lowers
  <1>4. MarkInv' /\ NestInv' /\ OlderInv'
    <2>1. \A m \in Mounts : Marked(m)' = Marked(m)
      BY DEF Marked, Upper, Base
    <2>2. MarkInv'
      <3>1. inuse = UNION {Marked(m) : m \in Mounts}
        BY DEF MarkInv
      <3>2. inuse' = UNION {Marked(m)' : m \in Mounts}
        BY <2>1, <3>1
      <3>q. QED
        BY <2>1, <3>2 DEF MarkInv
    <2>3. OlderInv' /\ \A m \in Mounts : older[m] \subseteq Mounts
      BY DEF OlderInv, Live, TypeInv
    <2>4. NestInv'
      BY <2>1, <2>3 DEF NestInv, Unnested, Walked, Roots, Upper, Base, Lowers
    <2>q. QED
      BY <2>2, <2>3, <2>4
  <1>5. LayerInv'
    <2>1. SUFFICES ASSUME NEW m \in Mounts
                   PROVE  Distinct(m)'
      BY DEF LayerInv
    <2>2. Distinct(m)
      BY DEF LayerInv
    <2>3. Upper(m)' = Upper(m) /\ Base(m)' = Base(m) /\ Lowers(m)' = Lowers(m)
      BY DEF Upper, Base, Lowers
    <2>4. Walked(m)' = Walked(m) /\ Roots(m)' = Roots(m)
      BY <2>3 DEF Walked, Roots
    <2>q. QED
      BY <2>2, <2>3, <2>4, ZenonT(30) DEF Distinct
  <1>6. SupportInv' /\ OriginInv'
    BY DEF SupportInv, Supported, Fhs, Apart, OriginInv, Verifies, Upper, Base, Lowers
  <1>7. FsidInv' /\ ThreadInv'
    <2>1. Served' = Served
      BY DEF Served
    <2>2. FsidInv'
      BY DEF FsidInv, Numbered, XinoFits
    <2>q. QED
      BY <2>1, <2>2 DEF ThreadInv
  <1>q. QED
    BY <1>2, <1>3, <1>4, <1>5, <1>6, <1>7

\* What a mount call has established at each of its steps (MountLifeInv), in every
\* reachable state.
LEMMA MountInvCorrect == Spec => []MountInv
PROOF
  <1>1. MountInv /\ [Next]_vars => MountInv'
    <2>1. SUFFICES ASSUME MountInv, [Next]_vars
                   PROVE  MountInv'
      OBVIOUS
    <2>2. CASE Next
      <3>1. PICK m \in Mounts : Step(m)
        BY <2>2 DEF Next, Step
      <3>q. QED
        BY <2>1, <3>1, StepInv
    <2>3. CASE UNCHANGED vars
      BY <2>1, <2>3, StutterInv
    <2>q. QED
      BY <2>1, <2>2, <2>3
  <1>q. QED
    BY <1>1, InitInv, PTL DEF Spec

-----------------------------------------------------------------------------
(* The properties. *)

\* InUseMatched: every I_OVL_INUSE mark belongs to exactly one super block, which will take
\* it off, on every path through ovl_fill_super and ovl_free_fs and for any interleaving.
THEOREM InUseMatchedCorrect == Spec => []InUseMatched
PROOF
  <1>1. MountInv => InUseMatched
    <2>1. SUFFICES ASSUME MountInv
                   PROVE  InUseMatched
      OBVIOUS
    <2>2. TypeOK /\ MarkInv /\ HoldInv
      BY <2>1 DEF MountInv, TypeInv
    <2>3. \A m \in Mounts : ofs[m].workdir_locked => Upper(m) # Base(m)
      BY <2>2 DEF HoldInv, Holds
    <2>q. QED
      BY <2>2, <2>3 DEF InUseMatched, MarkInv
  <1>q. QED
    BY <1>1, MountInvCorrect, PTL

\* TrapsReleased: ovl_free_fs puts every trap inode, but for the one that
\* ovl_get_lower_layers leaves when it returns EBUSY.
THEOREM TrapsReleasedCorrect == Spec => []TrapsReleased
PROOF
  <1>1. MountInv => TrapsReleased
    <2>1. SUFFICES ASSUME MountInv, NEW m \in Mounts, pc[m] \in {"failed", "unmounted"},
                          traps[m] # {}
                   PROVE  /\ result[m] = "EBUSY" /\ traps[m] \subseteq ToSet(Lowers(m))
                          /\ Cardinality(traps[m]) = 1
      BY DEF TrapsReleased
    <2>2. Leak(m, traps[m])
      BY <2>1 DEF MountInv, TrapInv, Trapped
    <2>3. PICK d \in ToSet(Lowers(m)) : traps[m] \subseteq {d} /\ result[m] = "EBUSY"
      BY <2>2 DEF Leak
    <2>4. traps[m] = {d}
      BY <2>1, <2>3
    <2>5. Cardinality({d}) = 1
      BY FS_Singleton
    <2>q. QED
      BY <2>3, <2>4, <2>5
  <1>q. QED
    BY <1>1, MountInvCorrect, PTL

\* A mounted overlay that asked for an index holds the marks of both its directories.
LEMMA IndexedMarks ==
  ASSUME MountInv, NEW m \in Mounts, Live(m), req[m].index
  PROVE  {Upper(m), Base(m)} \subseteq Marked(m) \cup {NoDir}
PROOF
  <1>1. Asked(m) /\ Holds(m)
    BY DEF MountInv, AskedInv, HoldInv
  <1>2. pc[m] \in Uppered /\ pc[m] \in Worked
    BY DEF Live, Uppered, Worked, Made, Layered, Indexing, Checking
  <1>3. CASE Upper(m) = NoDir
    BY <1>1, <1>3 DEF Asked
  <1>4. CASE Upper(m) # NoDir
    <2>1. ofs[m].upper_mnt
      BY <1>1, <1>2, <1>4 DEF Holds
    <2>2. ofs[m].upperdir_locked /\ ofs[m].workdir_locked
      BY <1>1, <1>2, <2>1 DEF Holds
    <2>q. QED
      BY <2>2 DEF Marked
  <1>q. QED
    BY <1>3, <1>4

\* ExclusiveUpper: two mounts that asked for index=on share no upper or work directory,
\* however their ovl_fill_super calls interleave.
THEOREM ExclusiveUpperCorrect == Spec => []ExclusiveUpper
PROOF
  <1>1. MountInv => ExclusiveUpper
    <2>1. SUFFICES ASSUME MountInv, NEW m \in Mounts, NEW n \in Mounts, m # n, Live(m), Live(n),
                          req[m].index, req[n].index
                   PROVE  {Upper(m), Base(m)} \cap {Upper(n), Base(n)} \subseteq {NoDir}
      BY DEF ExclusiveUpper
    <2>2. /\ {Upper(m), Base(m)} \subseteq Marked(m) \cup {NoDir}
          /\ {Upper(n), Base(n)} \subseteq Marked(n) \cup {NoDir}
      BY <2>1, IndexedMarks
    <2>3. Marked(m) \cap Marked(n) = {}
      BY <2>1 DEF MountInv, MarkInv
    <2>q. QED
      BY <2>2, <2>3
  <1>q. QED
    BY <1>1, MountInvCorrect, PTL

\* What the walk of ovl_check_overlapping_layers has seen when the overlay is mounted.
LEMMA AllWalked ==
  ASSUME MountInv, NEW m \in Mounts, Live(m)
  PROVE  Walked(m) = ToSet(Roots(m))
PROOF
  <1>1. todo[m] = <<>>
    BY DEF MountInv, LayerInv, Distinct, Live
  <1>2. ToSet(todo[m]) = {}
    BY <1>1 DEF ToSet
  <1>q. QED
    BY <1>2 DEF Walked

\* NoNestedUse: a mount that keeps its index has no layer in a directory that an older
\* mount writes to.
THEOREM NoNestedUseCorrect == Spec => []NoNestedUse
PROOF
  <1>1. MountInv => NoNestedUse
    <2>1. SUFFICES ASSUME MountInv, NEW m \in Mounts, Live(m), config[m].index,
                          NEW n \in older[m], NEW d \in ToSet(Roots(m)), NEW e \in Marked(n)
                   PROVE  d # e /\ ~Inside(d, e)
      BY DEF NoNestedUse
    <2>2. TypeInv /\ MarkInv /\ OlderInv /\ Asked(m) /\ Holds(m) /\ Distinct(m) /\ Unnested(m)
      BY <2>1 DEF MountInv, AskedInv, HoldInv, LayerInv, NestInv
    <2>3. pc[m] \in Up /\ pc[m] \in Indexing
      BY <2>1 DEF Live, Up, Uppered, Worked, Made, Layered, Indexing, Checking
    <2>4. ~Inside(d, e)
      <3>1. d \in Walked(m)
        BY <2>1, AllWalked
      <3>q. QED
        BY <2>1, <2>2, <2>3, <3>1 DEF Unnested
    <2>5. d # e
      <3>1. CASE ofs[m].upper_mnt /\ d \in {Upper(m), Base(m)}
        <4>1. n \in Mounts /\ n # m
          BY <2>1, <2>2 DEF OlderInv, TypeInv
        <4>2. Marked(m) \cap Marked(n) = {}
          BY <2>2, <4>1 DEF MarkInv
        <4>3. req[m].index
          BY <2>1, <2>2 DEF Holds
        <4>4. pc[m] \in Uppered /\ pc[m] \in Worked
          BY <2>1 DEF Live, Uppered, Worked, Made, Layered, Indexing, Checking
        <4>5. ofs[m].upperdir_locked /\ ofs[m].workdir_locked
          BY <2>2, <3>1, <4>3, <4>4 DEF Holds
        <4>6. d \in Marked(m)
          BY <3>1, <4>5 DEF Marked
        <4>q. QED
          BY <2>1, <4>2, <4>6
      <3>2. CASE d \in ToSet(Lowers(m))
        <4>1. Lowers(m) \in Seq(Dir \ {NoDir})
          BY <2>2 DEF TypeInv, Lowers
        <4>2. PICK i \in 1 .. Len(Lowers(m)) : Lowers(m)[i] = d
          BY <3>2, <4>1, InToSet
        <4>3. ofs[m].numlower = Len(Lowers(m))
          BY <2>2, <2>3 DEF Distinct
        <4>q. QED
          BY <2>1, <2>2, <2>3, <4>2, <4>3 DEF Unnested
      <3>3. d \in (IF ofs[m].upper_mnt THEN {Upper(m), Base(m)} ELSE {}) \cup ToSet(Lowers(m))
        BY <2>1, <2>2, RootsFacts
      <3>q. QED
        BY <3>1, <3>2, <3>3
    <2>q. QED
      BY <2>4, <2>5
  <1>q. QED
    BY <1>1, MountInvCorrect, PTL

\* NoOverlap: no two roots of a mounted overlay are the same directory or one below the
\* other.
THEOREM NoOverlapCorrect == Spec => []NoOverlap
PROOF
  <1>1. MountInv => NoOverlap
    <2>1. SUFFICES ASSUME MountInv, NEW m \in Mounts, Live(m),
                          NEW i \in DOMAIN Roots(m), NEW j \in DOMAIN Roots(m), i # j
                   PROVE  Roots(m)[i] # Roots(m)[j] /\ ~Inside(Roots(m)[i], Roots(m)[j])
      BY DEF NoOverlap
    <2>2. TypeInv /\ Distinct(m)
      BY <2>1 DEF MountInv, LayerInv
    <2>3. pc[m] \in Up /\ pc[m] \in Indexing /\ pc[m] \in Uppered /\ pc[m] \in Worked
      BY <2>1 DEF Live, Up, Uppered, Worked, Made, Layered, Indexing, Checking
    <2>4. /\ ofs[m].numlower = Len(Lowers(m))
          /\ ofs[m].upper_mnt => /\ Upper(m) \in traps[m] /\ Base(m) \in traps[m]
                                 /\ Upper(m) # Base(m)
      BY <2>2, <2>3 DEF Distinct
    <2>5. \A k \in 1 .. Len(Lowers(m)) :
            /\ Lowers(m)[k] \in traps[m]
            /\ ofs[m].upper_mnt => Lowers(m)[k] # Upper(m) /\ Lowers(m)[k] # Base(m)
            /\ \A l \in 1 .. Len(Lowers(m)) : k # l => Lowers(m)[k] # Lowers(m)[l]
      BY <2>2, <2>3, <2>4 DEF Distinct
    <2>6. Len(Lowers(m)) \in Nat
      BY <2>2, LenProperties DEF TypeInv, Lowers
    <2>7. Roots(m)[j] \in traps[m] /\ Roots(m)[i] # Roots(m)[j]
      <3>1. CASE ~ofs[m].upper_mnt
        BY <2>1, <2>2, <2>5, <3>1, RootsFacts
      <3>2. CASE ofs[m].upper_mnt
        <4>1. /\ i \in 1 .. Len(Lowers(m)) + 2 /\ j \in 1 .. Len(Lowers(m)) + 2
              /\ Roots(m)[1] = Upper(m) /\ Roots(m)[2] = Base(m)
              /\ \A k \in 3 .. Len(Lowers(m)) + 2 : Roots(m)[k] = Lowers(m)[k - 2]
          BY <2>1, <2>2, <3>2, RootsFacts
        <4>2. ASSUME NEW k \in 1 .. Len(Lowers(m)) + 2
              PROVE  k = 1 \/ k = 2 \/ (/\ k - 2 \in 1 .. Len(Lowers(m))
                                        /\ Roots(m)[k] = Lowers(m)[k - 2])
          BY <2>6, <4>1
        <4>3. Roots(m)[j] \in traps[m]
          BY <2>4, <2>5, <3>2, <4>1, <4>2
        <4>4. Roots(m)[i] # Roots(m)[j]
          <5>1. i = 1 \/ i = 2 \/ (i - 2 \in 1 .. Len(Lowers(m)) /\ Roots(m)[i] = Lowers(m)[i - 2])
            BY <4>1, <4>2
          <5>2. j = 1 \/ j = 2 \/ (j - 2 \in 1 .. Len(Lowers(m)) /\ Roots(m)[j] = Lowers(m)[j - 2])
            BY <4>1, <4>2
          <5>3. i - 2 # j - 2
            BY <2>1, <2>6, <4>1
          <5>q. QED
            BY <2>1, <2>4, <2>5, <3>2, <4>1, <5>1, <5>2, <5>3
        <4>q. QED
          BY <4>3, <4>4
      <3>q. QED
        BY <3>1, <3>2
    <2>8. Roots(m)[i] \in Walked(m)
      <3>1. Roots(m)[i] \in ToSet(Roots(m))
        BY <2>1 DEF ToSet
      <3>q. QED
        BY <2>1, <3>1, AllWalked
    <2>9. ~Inside(Roots(m)[i], Roots(m)[j])
      BY <2>2, <2>3, <2>7, <2>8 DEF Distinct
    <2>q. QED
      BY <2>7, <2>9
  <1>q. QED
    BY <1>1, MountInvCorrect, PTL

\* ConfigSound: the options of a mounted overlay have the support they depend on, whatever
\* was asked for and whichever fallbacks were taken.
THEOREM ConfigSoundCorrect == Spec => []ConfigSound
PROOF
  <1>1. MountInv => ConfigSound
    <2>0. SUFFICES ASSUME MountInv, NEW m \in Mounts, Live(m)
                   PROVE
          /\ ~ofs[m].rdonly => ofs[m].upper_mnt /\ ofs[m].workdir
          /\ config[m].index =>
               /\ ofs[m].indexdir /\ ofs[m].workdir
               /\ \A f \in {Fs(d) : d \in ToSet(Lowers(m))} : Handles[f] # "none"
               /\ \A f, g \in ToSet(ofs[m].lower_fs) : f # g => Uuid[f] # Uuid[g]
               /\ Fs(Upper(m)) \notin NoXattrs /\ Handles[Fs(Upper(m))] # "none"
          /\ config[m].nfs_export =>
               /\ \A f \in {Fs(d) : d \in ToSet(Lowers(m))} : Handles[f] # "none"
               /\ \A f, g \in ToSet(ofs[m].lower_fs) : f # g => Uuid[f] # Uuid[g]
               /\ ~config[m].metacopy
               /\ IF ofs[m].upper_mnt THEN config[m].index ELSE ~config[m].redirect_follow
          /\ config[m].metacopy => config[m].redirect_dir
          /\ XinoFits(m)
          /\ config[m].metacopy /\ ~ofs[m].rdonly => Fs(Upper(m)) \notin NoXattrs
      BY DEF ConfigSound
    <2>1. TypeInv /\ Holds(m) /\ Supported(m) /\ Numbered(m)
      BY <2>0 DEF MountInv, HoldInv, SupportInv, FsidInv
    <2>2. /\ pc[m] = "live" /\ pc[m] \in Up /\ pc[m] \in Uppered /\ pc[m] \in Made
          /\ pc[m] \in Layered /\ pc[m] \in Indexing /\ pc[m] \in Checking
      BY <2>0 DEF Live, Up, Uppered, Worked, Made, Layered, Indexing, Checking
    <2>3. ofs[m].upper_mnt <=> Upper(m) # NoDir
      BY <2>1, <2>2 DEF Holds
    <2>4. /\ config[m].metacopy => config[m].redirect_dir
          /\ ofs[m].upper_mnt => ofs[m].workdir \/ ofs[m].rdonly
          /\ ofs[m].upper_mnt \/ ofs[m].rdonly
          /\ ofs[m].workdir \/ ofs[m].indexdir => ofs[m].upper_mnt
          /\ ofs[m].workdir /\ config[m].index =>
               Fs(Upper(m)) \notin NoXattrs /\ Handles[Fs(Upper(m))] # "none"
          /\ ofs[m].workdir /\ config[m].metacopy => Fs(Upper(m)) \notin NoXattrs
          /\ ofs[m].indexdir => ofs[m].workdir
      BY <2>1, <2>2 DEF Supported
    <2>5. /\ config[m].nfs_export \/ (config[m].index /\ Upper(m) # NoDir) => Fhs(m)
          /\ config[m].nfs_export /\ Upper(m) = NoDir => ~config[m].redirect_follow
          /\ config[m].nfs_export \/ (config[m].index /\ ofs[m].upper_mnt) => Apart(m)
          /\ config[m].index => ofs[m].indexdir
          /\ config[m].nfs_export => ~config[m].metacopy
          /\ config[m].nfs_export /\ ofs[m].upper_mnt => config[m].index
      BY <2>1, <2>2 DEF Supported
    <2>6. XinoFits(m)
      BY <2>1, <2>2 DEF Numbered
    <2>7. Fhs(m) => \A f \in {Fs(d) : d \in ToSet(Lowers(m))} : Handles[f] # "none"
      BY DEF Fhs
    <2>8. Apart(m) => \A f, g \in ToSet(ofs[m].lower_fs) : f # g => Uuid[f] # Uuid[g]
      <3>1. SUFFICES ASSUME Apart(m), NEW f \in ToSet(ofs[m].lower_fs),
                            NEW g \in ToSet(ofs[m].lower_fs), f # g
                     PROVE  Uuid[f] # Uuid[g]
        OBVIOUS
      <3>2. PICK i \in DOMAIN ofs[m].lower_fs : ofs[m].lower_fs[i] = f
        BY DEF ToSet
      <3>3. PICK j \in DOMAIN ofs[m].lower_fs : ofs[m].lower_fs[j] = g
        BY DEF ToSet
      <3>q. QED
        BY <3>1, <3>2, <3>3 DEF Apart
    <2>q. QED
      BY <2>3, <2>4, <2>5, <2>6, <2>7, <2>8, Zenon
  <1>q. QED
    BY <1>1, MountInvCorrect, PTL

\* IndexBelongs: the marks on disk that ovl_get_indexdir verifies or sets still name the
\* layers of every mount that uses the index.
THEOREM IndexBelongsCorrect == Spec => []IndexBelongs
PROOF
  <1>1. MountInv => IndexBelongs
    <2>1. SUFFICES ASSUME MountInv, NEW m \in Mounts, Live(m), config[m].index
                   PROVE  indexUpper[Base(m)] = Upper(m) /\ rootOrigin[Upper(m)] = Lowers(m)[1]
      BY DEF IndexBelongs
    <2>2. Supported(m) /\ Verifies(m) /\ pc[m] = "live" /\ pc[m] \in Checking
      BY <2>1 DEF MountInv, SupportInv, OriginInv, Live, Checking
    <2>3. ofs[m].indexdir
      BY <2>1, <2>2 DEF Supported
    <2>q. QED
      BY <2>2, <2>3 DEF Verifies
  <1>q. QED
    BY <1>1, MountInvCorrect, PTL

\* ThreadServes: each mount in progress or live has a copy thread of its own that runs, over
\* any number of overlapping, failing and ending mounts, although ovl_mount overwrites the
\* one pointer and ovl_put_super stops whatever it points to (super.c:396, 1868).
THEOREM ThreadServesCorrect == Spec => []ThreadServes
PROOF
  <1>1. MountInv => ThreadServes
    BY DEF MountInv, ThreadInv, ThreadServes
  <1>q. QED
    BY <1>1, MountInvCorrect, PTL

=============================================================================
