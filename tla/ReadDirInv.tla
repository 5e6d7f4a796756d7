----------------------------- MODULE ReadDirInv -----------------------------
(***************************************************************************)
(* The inductive invariants of ReadDir.  ReadDirInvariant is behind        *)
(* CachesAccounted: which files of a directory may have which kind of      *)
(* cache, and who counts in refcount.  ListingInv is behind                *)
(* ListingComplete and InoConsistent: what the caches, the positions of    *)
(* the files and the listings so far have to do with the directory.  Their *)
(* parts speak of the record that the calls of ReadDir pass on.            *)
(***************************************************************************)
EXTENDS ReadDir

\* The records have their fields.
Shape(s) ==
  /\ DOMAIN s = {"oi", "heap", "fd", "impure"} /\ s.impure \in BOOLEAN
  /\ s.oi \in CacheIds \cup {None}
  /\ s.heap = [c \in CacheIds |-> s.heap[c]] /\ s.fd = [f \in Fds |-> s.fd[f]]
  /\ \A c \in CacheIds :
       /\ DOMAIN s.heap[c] = {"live", "refcount", "version", "entries", "impure"}
       /\ s.heap[c].live \in BOOLEAN /\ s.heap[c].impure \in BOOLEAN
       /\ s.heap[c].refcount \in Nat
  /\ \A f \in Fds :
       /\ DOMAIN s.fd[f] = {"open", "isReal", "isUpper", "cache", "cursor", "pos"}
       /\ s.fd[f].open \in BOOLEAN /\ s.fd[f].isReal \in BOOLEAN /\ s.fd[f].isUpper \in BOOLEAN
       /\ s.fd[f].cache \in CacheIds \cup {None}

\* A file that is not real belongs to a directory with OVL_WHITEOUTS, a real one that was
\* opened on the upper directory to one without, or to one that was being copied up; only
\* the former has a cache.
FilesOk(s) ==
  \A f \in Fds :
    /\ s.fd[f].cache # None => s.fd[f].open /\ ~s.fd[f].isReal
    /\ s.fd[f].open /\ ~s.fd[f].isReal => dir.whiteouts
    /\ s.fd[f].open /\ s.fd[f].isReal /\ s.fd[f].isUpper => ~dir.whiteouts \/ Merge
    /\ s.fd[f].isUpper => dir.hasUpper

\* The files that refer to c.
Readers(s, c) == {f \in Fds : s.fd[f].cache = c}

\* The caches of a directory with OVL_WHITEOUTS are merged and counted, the only one of
\* any other is the inode's and impure; there is none while the directory is copied up.
HeapOk(s) ==
  /\ s.oi # None => s.heap[s.oi].live
  /\ \A f \in Fds : s.fd[f].cache # None => s.heap[s.fd[f].cache].live
  /\ \A c \in CacheIds :
       IF ~s.heap[c].live THEN s.heap[c].refcount = 0
       ELSE IF s.heap[c].impure
       THEN s.heap[c].refcount = 0 /\ s.oi = c /\ ~dir.whiteouts /\ dir.hasUpper /\ ~Merge
       ELSE /\ s.heap[c].refcount = Cardinality(Readers(s, c)) /\ s.heap[c].refcount > 0
            /\ dir.whiteouts

CacheInv(s) == Shape(s) /\ FilesOk(s) /\ HeapOk(s)

DirInv ==
  /\ DOMAIN dir = {"kind", "hasUpper", "upper", "whiteouts", "impure", "version", "linking",
                   "linked"}
  /\ dir.kind \in AllKinds /\ dir.hasUpper \in BOOLEAN /\ dir.whiteouts \in BOOLEAN
  /\ dir.impure \in BOOLEAN /\ dir.linked \subseteq Names /\ dir.linking \subseteq Names
  /\ changes \in 0 .. MaxChanges /\ dir.version \in 0 .. changes

ReadDirInvariant == DirInv /\ CacheInv(Now)

MixedInv == mixed \in BOOLEAN

-----------------------------------------------------------------------------
(* What the listings rest on: the content of the caches and of the directory. *)

\* A node of a layer; the numbers in use are below the next one to be given.
Node(e) ==
  \/ e \in {Gone, Wh}
  \/ /\ e = Obj(e.real, e.st)
     /\ e.real \in 1 .. FreshIno - 1 /\ e.st \in 1 .. FreshIno - 1

\* The directory: what its flags say of its content.
ContentInv ==
  /\ dir.kind \in Kinds
  /\ dir.upper = [n \in Names |-> dir.upper[n]] /\ \A n \in Names : Node(dir.upper[n])
  /\ ~dir.hasUpper => dir.kind = "lower" /\ \A n \in Names : dir.upper[n] = Gone
  /\ dir.whiteouts => Merge
  /\ Merge => dir.whiteouts \/ (dir.kind = "lower" /\ Len(Lower) = 1)
  /\ ~Merge => dir.linking = {}
  /\ dir.kind = "lower" /\ Len(Lower) = 1 /\ ~dir.whiteouts =>
       \A n \in Names : /\ TopNode(Layers, n).kind = Lower[1][n].kind
                        /\ StIno(Layers, n) = Lower[1][n].st
  /\ dir.kind = "upper" => \A n \in Names : dir.upper[n] # Wh
  /\ ~dir.impure => \A n \in Names : ~HasOrigin(dir.upper[n])
  /\ Merge \/ ~dir.hasUpper => dir.linked = {}

EntryType == [name : Names, whiteout : BOOLEAN, real : Nat, ino : Nat, early : BOOLEAN]
Distinct(es) == \A i, j \in DOMAIN es : es[i].name = es[j].name => i = j
ShownBelow(es, k) == {es[i].name : i \in {j \in DOMAIN es : j < k /\ ~es[j].whiteout}}
Shown(es) == ShownBelow(es, Len(es) + 1)

\* The number of an entry is that of the object, or ovl_cache_update_ino will find it,
\* or did so too early.
InoFits(e) ==
  \/ e.early
  \/ IF e.ino = 0 THEN HasOrigin(TopNode(Layers, e.name)) \/ e.real = StIno(Layers, e.name)
     ELSE e.ino = StIno(Layers, e.name)
InosFit(es, names) == \A k \in DOMAIN es : ~es[k].whiteout /\ es[k].name \in names => InoFits(es[k])

\* A cache of the directory's version lists the directory.
MergedValid(es) == Shown(es) = Visible(Layers) /\ InosFit(es, Names)
ImpureValid(es) ==
  /\ \A k \in DOMAIN es : HasOrigin(dir.upper[es[k].name]) /\ es[k].ino = dir.upper[es[k].name].st
  /\ \A n \in Names \ dir.linked :
       HasOrigin(dir.upper[n]) => \E k \in DOMAIN es : es[k].name = n
Valid(cache) == IF cache.impure THEN ImpureValid(cache.entries) ELSE MergedValid(cache.entries)

CacheOk(cache) ==
  /\ cache.entries \in Seq(EntryType) /\ Distinct(cache.entries)
  /\ cache.version \in 0 .. dir.version
  /\ cache.version = dir.version => Valid(cache)
CachesOk(s) == \A c \in CacheIds : s.heap[c].live => CacheOk(s.heap[c])

FileOk(s, f) ==
  /\ s.fd[f].pos \in Nat
  /\ s.fd[f].cache # None =>
       s.fd[f].cursor = SeekCursor(s.heap[s.fd[f].cache].entries, s.fd[f].pos)
  /\ s.fd[f].open /\ s.fd[f].isReal /\ ~s.fd[f].isUpper =>
       dir.kind = "lower" /\ Len(Lower) = 1

\* A listing from a merged cache.
MergedListing(l, es, cursor) ==
  /\ l.got = ShownBelow(es, cursor) /\ l.keep \subseteq Shown(es) /\ Shown(es) \subseteq l.may
  /\ l.eof => cursor > Len(es)
  /\ InosFit(es, l.same)

\* A listing from a real directory.
Before(pos) == {NameSeq[i] : i \in {j \in DOMAIN NameSeq : j < pos}}
Objects(layer) == {n \in Names : layer[n].kind = "object"}
RealListing(l, layer, pos) ==
  /\ l.keep \subseteq Objects(layer) /\ Objects(layer) \subseteq l.may /\ l.got \subseteq l.may
  /\ l.got \subseteq Before(pos) /\ l.keep \cap Before(pos) \subseteq l.got
  /\ l.eof => l.keep \subseteq Before(pos)

RealLayer(file) == IF file.isUpper THEN dir.upper ELSE Lower[1]
LowerFits(l, file) == ~file.isUpper => \A n \in l.same : Lower[1][n].st = StIno(Layers, n)

ListingFields == {"on", "got", "twice", "badIno", "eof", "keep", "may", "same"}
ListingOk(s, f, l) ==
  /\ ~l.on => l = NoListing
  /\ l.on => DOMAIN l = ListingFields /\ s.fd[f].open /\ s.fd[f].pos > 0
  /\ l.on /\ ~Astray(s.fd[f]) =>
       /\ ~l.twice /\ ~l.badIno
       /\ l.keep \subseteq Visible(Layers) /\ Visible(Layers) \subseteq l.may
       /\ l.same \subseteq Visible(Layers)
       /\ IF s.fd[f].isReal
          THEN /\ RealListing(l, RealLayer(s.fd[f]), s.fd[f].pos)
               /\ LowerFits(l, s.fd[f])
          ELSE /\ s.fd[f].cache # None
               /\ MergedListing(l, s.heap[s.fd[f].cache].entries, s.fd[f].cursor)

ListingInv ==
  /\ ContentInv /\ CachesOk(Now) /\ listing = [f \in Fds |-> listing[f]]
  /\ \A f \in Fds : FileOk(Now, f) /\ ListingOk(Now, f, listing[f])
=============================================================================
