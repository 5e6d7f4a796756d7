---------------------------- MODULE MountLifeInv ----------------------------
(***************************************************************************)
(* The inductive invariant behind the safety properties of MountLife: what *)
(* a mount call has established when it has come to a given step.          *)
(***************************************************************************)
EXTENDS MountLife

Idle     == {"none", "failed", "unmounted"}
Checking == {"overlap", "live"}
Indexing == {"origin", "index"} \cup Checking
Layered  == {"layers"} \cup Indexing
Made     == {"lower"} \cup Layered            \* past ovl_make_workdir
Worked   == {"makework"} \cup Made
Uppered  == {"work"} \cup Worked              \* past ovl_get_upper
Up       == {"upper"} \cup Uppered            \* mounting or mounted

Config == [index : BOOLEAN, nfs_export : BOOLEAN, metacopy : BOOLEAN,
           redirect_dir : BOOLEAN, redirect_follow : BOOLEAN, xino : {"off", "auto", "on"}]

Ofs == [upper_mnt : BOOLEAN, upperdir_locked : BOOLEAN, workbasedir : BOOLEAN,
        workdir_locked : BOOLEAN, workdir : BOOLEAN, indexdir : BOOLEAN, numlower : Nat,
        lower_fs : Seq(Name), xino_bits : Nat, held : SUBSET (Dir \ {NoDir}),
        rdonly : BOOLEAN]

\* The full types.
TypeInv ==
  /\ TypeOK
  /\ req \in [Mounts -> [upper : Dir, work : Dir, lowers : Seq(Dir \ {NoDir}),
                         index : BOOLEAN, nfs_export : BOOLEAN,
                         metacopy : {"default", "on", "off"},
                         redirect : {"default", "on", "follow", "off", "nofollow"},
                         xino : {"off", "auto", "on"}, rdonly : BOOLEAN]]
  /\ config \in [Mounts -> Config]
  /\ ofs \in [Mounts -> Ofs]
  /\ traps \in [Mounts -> SUBSET (Dir \ {NoDir})]
  /\ todo \in [Mounts -> Seq(Dir \ {NoDir})]
  /\ result \in [Mounts -> {"0", "EINVAL", "EBUSY", "ELOOP", "ESTALE", "EIO", "unmounted"}]
  /\ older \in [Mounts -> SUBSET Mounts]
  /\ rootOrigin \in [Named -> Dir] /\ indexUpper \in [Named -> Dir]
  /\ offered \in Scenarios /\ calls \in 0 .. MaxMounts

\* The request that a super block was called with.
Asked(m) ==
  /\ Upper(m) \in Named \cup {NoDir} /\ Base(m) \in Named \cup {NoDir}
  /\ ToSet(Lowers(m)) \subseteq Named
  /\ Upper(m) = NoDir => Base(m) = NoDir
  /\ pc[m] \in Up => /\ Lowers(m) # <<>>
                     /\ Upper(m) # NoDir => Base(m) # NoDir
  /\ pc[m] \in {"upper", "work", "makework", "origin", "index"} => Upper(m) # NoDir
AskedInv == \A m \in Mounts : Asked(m)

\* The marks: who holds which, and from which step to which.
Holds(m) ==
  /\ pc[m] \in Idle \cup {"upper"} => ~ofs[m].upper_mnt /\ ~ofs[m].upperdir_locked
  /\ pc[m] \in Idle \cup {"upper", "work", "free_upper"} => ~ofs[m].workdir_locked
  /\ ofs[m].upper_mnt \/ ofs[m].upperdir_locked => Upper(m) # NoDir
  /\ ofs[m].workdir_locked => Base(m) # NoDir /\ Upper(m) # Base(m)
  /\ pc[m] \in Uppered => (ofs[m].upper_mnt <=> Upper(m) # NoDir)
  /\ pc[m] \in {"upper", "work"} => config[m].index = req[m].index
  /\ config[m].index => req[m].index
  /\ pc[m] \in Uppered /\ ofs[m].upper_mnt /\ req[m].index => ofs[m].upperdir_locked
  /\ pc[m] \in Worked /\ ofs[m].upper_mnt /\ req[m].index => ofs[m].workdir_locked
HoldInv == \A m \in Mounts : Holds(m)
MarkInv ==
  /\ inuse = UNION {Marked(m) : m \in Mounts}
  /\ \A m, n \in Mounts : m # n => Marked(m) \cap Marked(n) = {}

\* The traps: all held by ofs, but for the one that a lower layer in use leaves.
Leak(m, T) == \E d \in ToSet(Lowers(m)) : T \subseteq {d} /\ result[m] = "EBUSY"
Trapped(m) ==
  /\ pc[m] \in Up => traps[m] = ofs[m].held
  /\ pc[m] = "free" => traps[m] = ofs[m].held \/ Leak(m, traps[m] \ ofs[m].held)
  /\ pc[m] = "none" => traps[m] = {}
  /\ pc[m] \in {"free_upper", "failed", "unmounted"} =>
       /\ ofs[m].held = {}
       /\ traps[m] = {} \/ Leak(m, traps[m])
TrapInv == \A m \in Mounts : Trapped(m)

\* The layers seen so far are apart, and those walked are below no trap.
Walked(m) == ToSet(Roots(m)) \ ToSet(todo[m])
Distinct(m) ==
  /\ pc[m] \in Uppered /\ ofs[m].upper_mnt => Upper(m) \in traps[m]
  /\ pc[m] \in Worked /\ ofs[m].upper_mnt => Base(m) \in traps[m] /\ Upper(m) # Base(m)
  /\ pc[m] \in Up \ Layered => ofs[m].numlower = 0
  /\ pc[m] \in Indexing => ofs[m].numlower = Len(Lowers(m))
  /\ pc[m] \in Up =>
       \A i \in 1 .. ofs[m].numlower :
         /\ Lowers(m)[i] \in traps[m]
         /\ ofs[m].upper_mnt => Lowers(m)[i] # Upper(m) /\ Lowers(m)[i] # Base(m)
         /\ \A j \in 1 .. ofs[m].numlower : i # j => Lowers(m)[i] # Lowers(m)[j]
  /\ pc[m] \in Indexing => \A d \in Walked(m), e \in traps[m] : ~Inside(d, e)
  /\ pc[m] \in {"origin", "index"} => todo[m] = Roots(m)
  /\ pc[m] = "live" => todo[m] = <<>>
LayerInv == \A m \in Mounts : Distinct(m)

\* With an index the layers seen are not in use by an older mount, and those walked
\* are not below a directory that is.
Unnested(m) ==
  pc[m] \in Up /\ config[m].index =>
    \A n \in older[m] : \A e \in Marked(n) :
      /\ \A i \in 1 .. ofs[m].numlower : Lowers(m)[i] # e
      /\ pc[m] \in Indexing => \A d \in Walked(m) : ~Inside(d, e)
OlderInv == \A m \in Mounts : \A n \in older[m] : n # m /\ Live(n)
NestInv == \A m \in Mounts : Unnested(m)

\* What the options that are still on rest upon.
Fhs(m)   == \A d \in ToSet(Lowers(m)) : Handles[Fs(d)] # "none"
Apart(m) == \A i, j \in DOMAIN ofs[m].lower_fs :
              i # j => Uuid[ofs[m].lower_fs[i]] # Uuid[ofs[m].lower_fs[j]]
Supported(m) ==
  LET c == config[m]
      o == ofs[m]
  IN  /\ c.metacopy => c.redirect_dir
      /\ pc[m] \in Made /\ o.upper_mnt => o.workdir \/ o.rdonly
      /\ pc[m] \in Indexing => o.upper_mnt \/ o.rdonly
      /\ o.workdir \/ o.indexdir => o.upper_mnt
      /\ pc[m] \in Up \ Made => ~o.workdir
      /\ pc[m] \in Up \ Checking => ~o.indexdir
      /\ pc[m] \in Up /\ o.workdir =>
           /\ c.index => Fs(Upper(m)) \notin NoXattrs /\ Handles[Fs(Upper(m))] # "none"
           /\ c.metacopy => Fs(Upper(m)) \notin NoXattrs
      /\ pc[m] \in {"origin", "index"} => c.index /\ o.workdir
      /\ pc[m] \in Checking /\ o.indexdir => o.workdir
      /\ pc[m] = "overlap" /\ o.indexdir => c.index
      /\ pc[m] \in Layered => /\ c.nfs_export \/ (c.index /\ Upper(m) # NoDir) => Fhs(m)
                              /\ c.nfs_export /\ Upper(m) = NoDir => ~c.redirect_follow
                              /\ Len(Lowers(m)) <= OVL_MAX_STACK
      /\ c.nfs_export \/ (c.index /\ o.upper_mnt) => Apart(m)
      /\ pc[m] = "live" => /\ c.index => o.indexdir
                           /\ c.nfs_export => ~c.metacopy
                           /\ c.nfs_export /\ o.upper_mnt => c.index
SupportInv == \A m \in Mounts : Supported(m)

\* fsids are distinct and there is room for them.
Numbered(m) ==
  LET o == ofs[m]
  IN  /\ IsInjective(o.lower_fs)
      /\ pc[m] \in Up => Len(o.lower_fs) <= o.numlower
      /\ pc[m] \in Up \ Indexing => o.xino_bits \in {0, HighBits}
      /\ pc[m] \in Indexing => XinoFits(m)
FsidInv == \A m \in Mounts : Numbered(m)

\* The marks on disk name the layers of every mount that has verified them.
Verifies(m) ==
  /\ pc[m] = "index" \/ (pc[m] \in Checking /\ ofs[m].indexdir)
       => rootOrigin[Upper(m)] = Lowers(m)[1]
  /\ pc[m] \in Checking /\ ofs[m].indexdir => indexUpper[Base(m)] = Upper(m)
OriginInv == \A m \in Mounts : Verifies(m)

\* As many threads run as mounts are in progress or live; the next thread is a new one.
ThreadInv == ExistsInjection(Served, running) /\ running \subseteq 1 .. calls

MountInv == /\ TypeInv /\ AskedInv /\ HoldInv /\ MarkInv /\ TrapInv /\ LayerInv
            /\ OlderInv /\ NestInv /\ SupportInv /\ FsidInv /\ OriginInv /\ ThreadInv
=============================================================================
