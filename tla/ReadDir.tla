------------------------------ MODULE ReadDir ------------------------------
(***************************************************************************)
(* Reading a directory of the overlay (readdir.c): several open files of   *)
(* one directory, each with its own position, that share a cache of the    *)
(* merged names, while other calls create, remove, rename and copy up      *)
(* names in it.                                                            *)
(*                                                                         *)
(* A directory whose inode has no OVL_WHITEOUTS is real: its files read    *)
(* the real directory, and only the inode numbers of entries with a copy-up*)
(* origin come from a cache (the impure cache, not reference counted).     *)
(* Any other directory is listed from a merged cache, reference counted    *)
(* and valid for one value of oi->version.                                 *)
(*                                                                         *)
(* getdents, llseek and the changes of the directory hold its i_rwsem, so  *)
(* each is one step.  Copy-up holds locks of the upper file system only    *)
(* and is two steps, between which the other calls may come: the upper     *)
(* directory is visible before its inode has OVL_WHITEOUTS, and the upper  *)
(* name of an object before its overlay inode has the upper one.           *)
(* All layers are on one file system (ovl_same_sb), xino is off; "." and   *)
(* ".." are one entry before the others.                                   *)
(***************************************************************************)
EXTENDS Naturals, Sequences, FiniteSets, SequencesExt

CONSTANTS
  NameSeq,       \* the names, in the order in which the layers list them
  Fds,           \* open files of the directory
  Kinds,         \* what the directory may be at the start, a subset of AllKinds
  LowerDir,      \* LowerDir[kind]: its lower directories, name -> entry
  UpperDir,      \* UpperDir[kind]: what its upper directory holds
  FirstIno,      \* the inode numbers below it are those in use at the start
  SeekTo,        \* the positions that llseek is called with
  MaxChanges,    \* bound: changes to the directory
  CacheIds,      \* bound: caches that exist at one time
  None           \* a NULL pointer

AllKinds == {"lower",    \* one lower directory, no upper one yet
             "merge",    \* upper and lower directories
             "upper",    \* an upper directory only
             "former"}   \* an upper directory that was merged once

Names == ToSet(NameSeq)

\* A name in a layer: st is the st_ino that stat reports, the number of the copy-up
\* origin if there is one; real is the number of the real inode.
Gone == [kind |-> "no", real |-> 0, st |-> 0]
Wh   == [kind |-> "whiteout", real |-> 0, st |-> 0]
Obj(real, st) == [kind |-> "object", real |-> real, st |-> st]
HasOrigin(e) == e.kind = "object" /\ e.real # e.st

ASSUME InoAssumption == FirstIno \in Nat \ {0}

\* What a layer may have under a name at the start.
StartNodes == {Gone, Wh} \cup {Obj(real, st) : real, st \in 1 .. FirstIno - 1}

ASSUME ReadDirAssumption ==
  /\ NameSeq \in Seq(Names)
  /\ \A i, j \in DOMAIN NameSeq : NameSeq[i] = NameSeq[j] => i = j
  /\ Kinds \subseteq AllKinds
  /\ MaxChanges \in Nat /\ SeekTo \subseteq Nat
  /\ IsFiniteSet(Fds) /\ IsFiniteSet(CacheIds) /\ Cardinality(CacheIds) > Cardinality(Fds)
  /\ None \notin CacheIds
  /\ \A k \in Kinds : LowerDir[k] = <<>> <=> k \in {"upper", "former"}
  /\ \A k \in Kinds :
       /\ UpperDir[k] \in [Names -> StartNodes]
       /\ LowerDir[k] \in Seq([Names -> StartNodes])
       \* An object of a lower layer has no origin.
       /\ \A i \in DOMAIN LowerDir[k], n \in Names : ~HasOrigin(LowerDir[k][i][n])
       /\ k = "lower" => \A n \in Names : UpperDir[k][n] = Gone
       \* A directory that was never merged has no whiteouts.
       /\ k = "upper" => \A n \in Names : UpperDir[k][n] # Wh
       /\ k = "lower" /\ Len(LowerDir[k]) = 1 => \A n \in Names : LowerDir[k][1][n] # Wh

VARIABLES
  dir,           \* the directory: kind at the start, upper directory, flags, version;
                 \* linking: names in the upper directory whose copy-up is not done yet;
                 \* linked is history: names linked in since the version changed
  oiCache,       \* oi->cache
  heap,          \* the caches
  fd,            \* struct ovl_dir_file and the position of each open file
  listing,       \* history: what each file should and did list since position 0
  mixed,         \* history: the impure cache was used in a directory that is a merge
  changes        \* number of changes so far

vars == <<dir, oiCache, heap, fd, listing, mixed, changes>>

FreeCache == [live |-> FALSE, refcount |-> 0, version |-> 0, entries |-> <<>>, impure |-> FALSE]
Closed == [open |-> FALSE, isReal |-> FALSE, isUpper |-> FALSE, cache |-> None,
           cursor |-> 0, pos |-> 0]
NoListing == [on |-> FALSE, got |-> {}, twice |-> FALSE, badIno |-> FALSE, eof |-> FALSE,
              keep |-> {}, may |-> {}, same |-> {}]

Lower == LowerDir[dir.kind]

\* ovl_type_merge of the directory.
Merge == (dir.hasUpper /\ Lower # <<>>) \/ Len(Lower) > 1

\* The directory is between the two steps of its own copy-up.
CopyingUp == Merge /\ ~dir.whiteouts

\* The node of a name in the topmost layer that has it.
Layers == (IF dir.hasUpper THEN <<dir.upper>> ELSE <<>>) \o Lower
TopNode(layers, n) ==
  LET has == {i \in DOMAIN layers : layers[i][n].kind # "no"}
  IN IF has = {} THEN Gone ELSE layers[CHOOSE i \in has : \A j \in has : i <= j][n]
Visible(layers) == {n \in Names : TopNode(layers, n).kind = "object"}

Init ==
  /\ \E k \in Kinds :
       dir = [kind |-> k, hasUpper |-> k # "lower", upper |-> UpperDir[k],
              \* ovl_get_inode
              whiteouts |-> \/ k \in {"merge", "former"}
                            \/ Len(LowerDir[k]) > 1,
              impure |-> \E n \in Names : HasOrigin(UpperDir[k][n]),
              version |-> 0, linking |-> {}, linked |-> {}]
  /\ oiCache = None
  /\ heap = [c \in CacheIds |-> FreeCache]
  /\ fd = [f \in Fds |-> Closed]
  /\ listing = [f \in Fds |-> NoListing]
  /\ mixed = FALSE
  /\ changes = 0

-----------------------------------------------------------------------------
(* The merged list. *)

\* ovl_cache_entry_new: the inode number of an upper entry of an impure directory
\* is left for ovl_iterate to find out (0).  ovl_check_whiteouts.  (early is history: the
\* number was found out before the copy-up of the object was done.)
CacheEntry(n, e, isUpper) ==
  [name |-> n, whiteout |-> e.kind = "whiteout", real |-> e.real,
   ino |-> IF isUpper /\ dir.impure THEN 0 ELSE e.real, early |-> FALSE]

\* The members of s that are in T, in their order.
Filter(s, T) ==
  LET sel[i \in 0 .. Len(s)] == IF i = 0 THEN <<>>
                                ELSE IF s[i] \in T THEN Append(sel[i - 1], s[i]) ELSE sel[i - 1]
  IN sel[Len(s)]

NamesOf(layer) == Filter(NameSeq, {n \in Names : layer[n].kind # "no"})

\* ovl_fill_merge of one layer, ovl_cache_entry_add_rb or, for the lowest layer,
\* ovl_fill_lowest: a name that a layer above has keeps its entry; the names of the
\* lowest layer come first.
FillMerge(list, i) ==
  LET new == NamesOf(Layers[i])
      known(n) == \E k \in DOMAIN list : list[k].name = n
      old(n) == list[CHOOSE k \in DOMAIN list : list[k].name = n]
      entry(n) == CacheEntry(n, Layers[i][n], dir.hasUpper /\ i = 1)
      rest == Filter(list, {e \in ToSet(list) : e.name \notin ToSet(new)})
      fresh == Filter(new, {n \in Names : ~known(n)})
  IN IF i = Len(Layers)
     THEN [k \in DOMAIN new |-> IF known(new[k]) THEN old(new[k]) ELSE entry(new[k])] \o rest
     ELSE list \o [k \in DOMAIN fresh |-> entry(fresh[k])]

\* ovl_dir_read_merged.
ReadMerged == LET fill[i \in 0..Len(Layers)] ==
                    IF i = 0 THEN <<>> ELSE FillMerge(fill[i - 1], i)
              IN fill[Len(Layers)]

\* ovl_cache_update_ino: st_ino of the overlay object, or the real number when the
\* name is gone or the object has no origin; it has none until its copy-up is done.
UpdatedIno(p) == LET e == TopNode(Layers, p.name)
                 IN IF HasOrigin(e) /\ p.name \notin dir.linking THEN e.st ELSE p.real

\* ovl_dir_read_impure: only the entries whose number differs from the real one.
ReadImpure ==
  LET all == NamesOf(dir.upper)
      entry(n) == [name |-> n, whiteout |-> FALSE, real |-> dir.upper[n].real,
                   ino |-> IF HasOrigin(dir.upper[n]) /\ n \notin dir.linking
                           THEN dir.upper[n].st ELSE dir.upper[n].real,
                   early |-> FALSE]
      list == [k \in DOMAIN all |-> entry(all[k])]
  IN Filter(list, {p \in ToSet(list) : p.ino # p.real})

-----------------------------------------------------------------------------
(* The cache objects.  A call changes oi->cache, the heap and its own file; the     *)
(* operators pass them on as one record.                                            *)

Now == [oi |-> oiCache, heap |-> heap, fd |-> fd, impure |-> dir.impure]

\* kzalloc.
NewId(s) == CHOOSE c \in CacheIds : ~s.heap[c].live

\* ovl_cache_put by file f: whoever drops the last reference frees the cache.
PutRef(cache) == IF cache.refcount = 1 THEN FreeCache ELSE [cache EXCEPT !.refcount = @ - 1]

\* Mutant: whoever frees the cache forgets that it may be the inode's.
PutKeepsPointer(s, f) ==
  [s EXCEPT !.heap[s.fd[f].cache] = PutRef(@), !.fd[f].cache = None, !.fd[f].cursor = 0]

CachePut(s, f) ==
  LET c == s.fd[f].cache
      last == s.heap[c].refcount = 1
  IN [s EXCEPT !.heap[c] = PutRef(@),
               !.oi = IF last /\ @ = c THEN None ELSE @,
               !.fd[f].cache = None, !.fd[f].cursor = 0]

\* Mutant: the file keeps its cache whatever the version of the directory.
StaleKept(s, f) ==
  [s EXCEPT !.fd[f].isReal = @ /\ ~dir.whiteouts]

\* ovl_dir_reset: drop a cache of an older version; a file of a directory that was
\* copied up since is no longer read from the real directory (ovl_dir_is_real).
DirReset(s, f) ==
  LET c == s.fd[f].cache
      t == IF c # None /\ s.heap[c].version # dir.version THEN CachePut(s, f) ELSE s
  IN [t EXCEPT !.fd[f].isReal = @ /\ ~dir.whiteouts]

\* ovl_iterate and ovl_dir_llseek reset the file at position 0.
AtStart(f) == IF fd[f].pos = 0 THEN DirReset(Now, f) ELSE Now

\* ovl_seek_cursor: 0 is the entry for "." and "..", Len + 1 the end of the list.
SeekCursor(entries, pos) == IF pos > Len(entries) THEN Len(entries) + 1 ELSE pos

\* The inode's merged cache has the version of the directory.
Current(s) == s.oi # None /\ s.heap[s.oi].version = dir.version

\* ovl_cache_get and the cursor for the position of the file.
CacheGet(s, f) ==
  LET c == IF Current(s) THEN s.oi ELSE NewId(s)
      t == IF Current(s) THEN [s EXCEPT !.heap[c].refcount = @ + 1]
           ELSE [s EXCEPT !.oi = c,
                          !.heap[c] = [live |-> TRUE, refcount |-> 1, version |-> dir.version,
                                       entries |-> ReadMerged, impure |-> FALSE]]
  IN [t EXCEPT !.fd[f].cache = c,
               !.fd[f].cursor = SeekCursor(t.heap[c].entries, s.fd[f].pos)]

\* The inode's cache is freed, whoever uses it.
ImpureFreed(s) == [s EXCEPT !.oi = None,
                            !.heap = IF s.oi = None THEN s.heap
                                     ELSE [s.heap EXCEPT ![s.oi] = FreeCache]]

\* ovl_cache_get_impure: the cache is not reference counted; when no entry has an
\* origin any more the directory loses its IMPURE flag and has no cache.
CacheGetImpure(s) ==
  LET t == ImpureFreed(s)
      c == NewId(t)
  IN IF Current(s) THEN s
     ELSE IF ReadImpure = <<>> THEN [t EXCEPT !.impure = FALSE]
     ELSE [t EXCEPT !.oi = c,
                    !.heap[c] = [live |-> TRUE, refcount |-> 0, version |-> dir.version,
                                 entries |-> ReadImpure, impure |-> TRUE]]

\* ovl_is_impure_dir: only a file that was opened on the upper directory uses it.
IsImpureDir(f) == fd[f].isUpper /\ dir.impure

\* (The singleton makes TLC evaluate s once.)
Becomes(s) ==
  \E t \in {s} :
    /\ oiCache' = t.oi /\ heap' = t.heap /\ fd' = t.fd
    /\ dir' = [dir EXCEPT !.impure = t.impure]

-----------------------------------------------------------------------------
(* What a listing owes its reader. *)

StIno(layers, n) == TopNode(layers, n).st

\* A listing begins with the call at position 0.
FreshListing == [NoListing EXCEPT
                   !.on = TRUE, !.keep = Visible(Layers), !.may = Visible(Layers),
                   !.same = Visible(Layers)]

\* dir_emit of one name.
Emitted(l, n, ino, early) ==
  IF ~l.on THEN l
  ELSE [l EXCEPT !.got = @ \cup {n}, !.twice = @ \/ n \in l.got,
                 !.badIno = @ \/ (~early /\ n \in l.same \ dir.linked /\ ino # StIno(Layers, n))]

\* The call returned nothing.
Ended(l) == IF l.on THEN [l EXCEPT !.eof = TRUE] ELSE l

\* After a change, a name must still be listed if it was there all the time, may be
\* if it was there at some time, and is the same if its st_ino did not change.
AfterChange(l, layers) ==
  IF ~l.on THEN l
  ELSE [l EXCEPT !.keep = @ \cap Visible(layers), !.may = @ \cup Visible(layers),
                 !.same = {n \in @ : StIno(layers, n) = StIno(Layers, n)}]

-----------------------------------------------------------------------------
(* The calls on an open directory. *)

\* ovl_dir_open.
Open(f) ==
  /\ ~fd[f].open
  /\ fd' = [fd EXCEPT ![f] = [Closed EXCEPT !.open = TRUE, !.isReal = ~dir.whiteouts,
                                            !.isUpper = dir.hasUpper]]
  /\ UNCHANGED <<dir, oiCache, heap, listing, mixed, changes>>

\* History: file f, opened on the upper directory before OVL_WHITEOUTS was set, uses the
\* impure cache of a directory that is a merge.  It takes a merged cache for an impure one,
\* or makes an impure one that others take for merged.
ImpureUsed(f) == mixed' = (mixed \/ (IsImpureDir(f) /\ Merge))

\* ovl_iterate of a real directory (iterate_dir, or ovl_iterate_real with
\* ovl_fill_real), with room for one entry.
IterateReal(f) ==
  /\ fd[f].open /\ AtStart(f).fd[f].isReal
  /\ \E s \in {IF IsImpureDir(f) THEN CacheGetImpure(AtStart(f)) ELSE AtStart(f)} :
     LET real == IF fd[f].isUpper THEN dir.upper ELSE Lower[1]
         ahead == {i \in DOMAIN NameSeq : i >= fd[f].pos /\ real[NameSeq[i]].kind # "no"}
         next == CHOOSE i \in ahead : \A j \in ahead : i <= j
         name == NameSeq[next]
         cached == IF IsImpureDir(f) /\ s.oi # None
                   THEN {p \in ToSet(s.heap[s.oi].entries) : p.name = name} ELSE {}
         ino == IF cached = {} THEN real[name].real ELSE (CHOOSE p \in cached : TRUE).ino
     IN CASE fd[f].pos = 0 ->
               /\ Becomes([s EXCEPT !.fd[f].pos = 1])
               /\ listing' = [listing EXCEPT ![f] = FreshListing]
          [] fd[f].pos > 0 /\ ahead # {} ->
               /\ Becomes([s EXCEPT !.fd[f].pos = next + 1])
               /\ listing' = [listing EXCEPT ![f] = Emitted(@, name, ino, FALSE)]
          [] OTHER ->
               /\ Becomes(s)
               /\ listing' = [listing EXCEPT ![f] = Ended(@)]
  /\ ImpureUsed(f)
  /\ UNCHANGED changes

\* The loop of ovl_iterate from the cursor at, with room for one entry: it skips
\* whiteouts, emits one entry and stops at the next, which does not fit; the numbers of
\* both are filled in (0 is the entry for "." and "..", past the end is the end).
FirstShown(es, from) ==
  LET shown == {k \in DOMAIN es : k >= from /\ ~es[k].whiteout}
  IN IF shown = {} THEN Len(es) + 1 ELSE CHOOSE k \in shown : \A j \in shown : k <= j
EmitAt(es, at) == IF at = 0 THEN 0 ELSE FirstShown(es, at)
StopAt(es, at) == LET emit == EmitAt(es, at)
                  IN IF emit > Len(es) THEN emit ELSE FirstShown(es, emit + 1)
Filled(es, at) ==
  [k \in DOMAIN es |-> IF k \in {EmitAt(es, at), StopAt(es, at)} /\ es[k].ino = 0
                       THEN [es[k] EXCEPT !.ino = UpdatedIno(es[k]),
                                          !.early = @ \/ es[k].name \in dir.linking]
                       ELSE es[k]]

\* ovl_iterate of a merged directory.
IterateMerged(f) ==
  /\ fd[f].open /\ ~AtStart(f).fd[f].isReal
  /\ \E s \in {IF AtStart(f).fd[f].cache = None THEN CacheGet(AtStart(f), f) ELSE AtStart(f)} :
     LET c == s.fd[f].cache
         es == s.heap[c].entries
         at == s.fd[f].cursor
         emit == EmitAt(es, at)
         stop == StopAt(es, at)
         filled == Filled(es, at)
     IN /\ Becomes([s EXCEPT !.heap[c].entries = filled, !.fd[f].cursor = stop,
                             !.fd[f].pos = @ + (stop - at)])
        /\ listing' = [listing EXCEPT ![f] =
             CASE emit = 0 /\ fd[f].pos = 0 -> FreshListing
               [] emit \in DOMAIN es -> Emitted(@, filled[emit].name, filled[emit].ino,
                                                filled[emit].early)
               [] emit > Len(es) -> Ended(@)
               [] OTHER -> @]
  /\ UNCHANGED <<mixed, changes>>

\* Reading a layer fails in ovl_cache_get or ovl_cache_get_impure: the inode has no
\* cache then; the impure one was freed, the merged one lives on with its readers.
ReadFails(f) ==
  /\ fd[f].open
  /\ LET s == AtStart(f)
     IN /\ ~Current(s)
        /\ IF s.fd[f].isReal THEN IsImpureDir(f) ELSE s.fd[f].cache = None
        /\ Becomes(IF s.fd[f].isReal THEN ImpureFreed(s) ELSE [s EXCEPT !.oi = None])
        /\ IF s.fd[f].isReal THEN ImpureUsed(f) ELSE UNCHANGED mixed
  /\ UNCHANGED <<listing, changes>>

\* ovl_dir_llseek: the listing is no longer one from the start.
Llseek(f, off) ==
  /\ fd[f].open /\ fd[f].pos # off
  /\ LET s == AtStart(f)
         c == s.fd[f].cache
     IN Becomes([s EXCEPT !.fd[f].pos = off,
                          !.fd[f].cursor = IF s.fd[f].isReal \/ c = None THEN @
                                           ELSE SeekCursor(s.heap[c].entries, off)])
  /\ listing' = [listing EXCEPT ![f] = NoListing]
  /\ UNCHANGED <<mixed, changes>>

\* ovl_dir_release.
Release(f) ==
  /\ fd[f].open
  /\ LET s == IF fd[f].cache = None THEN Now ELSE CachePut(Now, f)
     IN Becomes([s EXCEPT !.fd[f] = Closed])
  /\ listing' = [listing EXCEPT ![f] = NoListing]
  /\ UNCHANGED <<mixed, changes>>

\* ovl_free_inode and a new inode for the directory: the flags are read again, the
\* version begins at 0.  A copy-up under way holds the inode.
Evict ==
  /\ \A f \in Fds : ~fd[f].open
  /\ ~CopyingUp /\ dir.linking = {}
  /\ dir.version > 0 \/ oiCache # None
  /\ heap' = ImpureFreed(Now).heap /\ oiCache' = None
  /\ dir' = [dir EXCEPT !.version = 0, !.linked = {}]
  /\ UNCHANGED <<fd, listing, mixed, changes>>

-----------------------------------------------------------------------------
(* The changes.  The parent of a change has an upper directory (ovl_copy_up). *)

\* Mutant: only a change of an impure entry is noted.
ImpurityOnly(impurity) == IF impurity THEN 1 ELSE 0

\* ovl_dentry_version_inc.
VersionInc(impurity) == IF Merge \/ impurity THEN 1 ELSE 0

\* The upper directory gets e under the name n; bump is what the version grows by.
Changed(n, e, impure, bump, linked, linking) ==
  LET d == [dir EXCEPT !.upper[n] = e, !.impure = @ \/ impure, !.version = @ + bump,
                       !.linking = @ \cup linking,
                       !.linked = IF bump = 1 THEN {} ELSE @ \cup linked]
  IN /\ dir' = d
     /\ listing' = [f \in Fds |-> AfterChange(listing[f], <<d.upper>> \o Lower)]
     /\ changes' = changes + 1
     /\ UNCHANGED <<oiCache, heap, fd, mixed>>

FreshIno  == FirstIno + 2 * changes

\* ovl_copy_up_workdir of the directory itself: ovl_inode_update makes the upper directory
\* visible ...
CopyUpDir ==
  /\ changes < MaxChanges /\ ~dir.hasUpper
  /\ dir' = [dir EXCEPT !.hasUpper = TRUE]
  /\ changes' = changes + 1
  /\ UNCHANGED <<oiCache, heap, fd, listing, mixed>>

\* ... and OVL_WHITEOUTS is set after it (a directory of several layers has it already).
CopyUpDirDone ==
  /\ CopyingUp
  /\ dir' = [dir EXCEPT !.whiteouts = TRUE]
  /\ UNCHANGED <<oiCache, heap, fd, listing, mixed, changes>>

\* ovl_copy_up of an object in it, whose parent need only have an upper directory: the
\* parent is marked impure and the name linked, its version stays.  With a temporary file
\* (ovl_copy_up_tmpfile) the upper directory is unlocked then ...
CopyUpChild(n) ==
  /\ changes < MaxChanges /\ dir.hasUpper
  /\ n \in Visible(Layers) /\ dir.upper[n].kind = "no"
  /\ Changed(n, Obj(FreshIno, StIno(Layers, n)), TRUE, 0, {}, {n})

\* ... before ovl_inode_update gives the overlay inode its upper one, and so its origin.
CopyUpChildDone(n) ==
  /\ n \in dir.linking
  /\ dir' = [dir EXCEPT !.linking = @ \ {n}]
  /\ UNCHANGED <<oiCache, heap, fd, listing, mixed, changes>>

\* The other changes begin with ovl_copy_up of the directory, which waits for oi->lock
\* until a copy-up under way is done.
MayChange == changes < MaxChanges /\ dir.hasUpper /\ ~CopyingUp

\* ovl_create_or_link and ovl_instantiate of a new object.
Create(n) ==
  /\ MayChange /\ n \notin Visible(Layers)
  /\ Changed(n, Obj(FreshIno, FreshIno), FALSE, VersionInc(FALSE), {}, {})

\* ovl_link of an object with a copy-up origin.
Link(n) ==
  /\ MayChange /\ n \notin Visible(Layers)
  /\ Changed(n, Obj(FreshIno, FreshIno + 1), TRUE, VersionInc(FALSE), {n}, {})

\* ovl_do_remove: ovl_remove_and_whiteout where a lower layer has the name, else
\* ovl_remove_upper.  ovl_nlink_start waits for oi->lock of the object.
Unlink(n) ==
  /\ MayChange /\ n \in Visible(Layers) \ dir.linking
  /\ IF TopNode(Lower, n).kind = "object"
     THEN Changed(n, Wh, FALSE, VersionInc(TRUE), {}, {})
     ELSE Changed(n, Gone, FALSE, VersionInc(HasOrigin(dir.upper[n])), {}, {})

\* ovl_rename of an object from elsewhere to this name, with or without an origin;
\* ovl_nlink_start waits for oi->lock of the object it replaces.
MoveIn(n, origin) ==
  /\ MayChange /\ n \notin dir.linking
  /\ LET old == TopNode(Layers, n)
     IN Changed(n, Obj(FreshIno, IF origin THEN FreshIno + 1 ELSE FreshIno), origin,
                VersionInc(origin \/ HasOrigin(old)), {}, {})

\* Some file has a cache that was freed, or one that is not merged.
UseAfterFree == \E f \in Fds :
  fd[f].cache # None /\ (~heap[fd[f].cache].live \/ heap[fd[f].cache].impure)

\* What the program does then is undefined; the model stops.
Undefined == UseAfterFree /\ UNCHANGED vars

Step ==
  \/ \E f \in Fds :
       \/ Open(f) \/ IterateReal(f) \/ IterateMerged(f) \/ ReadFails(f) \/ Release(f)
       \/ \E off \in SeekTo : Llseek(f, off)
  \/ Evict \/ CopyUpDir \/ CopyUpDirDone
  \/ \E n \in Names :
       \/ CopyUpChild(n) \/ CopyUpChildDone(n) \/ Create(n) \/ Link(n) \/ Unlink(n)
       \/ \E origin \in BOOLEAN : MoveIn(n, origin)

Next == (~UseAfterFree /\ Step) \/ Undefined

Spec == Init /\ [][Next]_vars

-----------------------------------------------------------------------------
(* Properties *)

\* Every variable has its type.
TypeOK ==
  /\ dir.kind \in AllKinds /\ dir.hasUpper \in BOOLEAN /\ dir.whiteouts \in BOOLEAN
  /\ dir.impure \in BOOLEAN /\ dir.version \in 0..MaxChanges
  /\ dir.linked \subseteq Names /\ dir.linking \subseteq Names
  /\ oiCache \in CacheIds \cup {None}
  /\ \A f \in Fds : fd[f].cache \in CacheIds \cup {None}
  /\ \A c \in CacheIds : heap[c].live \in BOOLEAN /\ heap[c].refcount \in 0..Cardinality(Fds)

\* The caches are accounted for (readdir.c: ovl_cache_put, ovl_cache_get,
\* ovl_cache_get_impure, ovl_is_impure_dir): no file and no inode points to a freed
\* cache, a merged cache lives exactly as long as some file refers to it and counts
\* those files, and an impure one is never taken for a merged one.  (And every variable has
\* its type.)  This holds until a file that was opened and read on the upper directory
\* before copy-up had set OVL_WHITEOUTS (copy_up.c:603-605) uses the impure cache
\* (mixed): such a call frees a merged cache that others read, or leaves an impure one
\* for them.
CachesAccounted ==
  ~mixed =>
    /\ TypeOK
    /\ oiCache # None => heap[oiCache].live
    /\ \A f \in Fds : fd[f].cache # None =>
         heap[fd[f].cache].live /\ ~heap[fd[f].cache].impure
    /\ \A c \in CacheIds : heap[c].live =>
         IF heap[c].impure THEN oiCache = c
         ELSE /\ heap[c].refcount > 0
              /\ heap[c].refcount = Cardinality({f \in Fds : fd[f].cache = c})

\* A file that reads the upper directory alone although the directory is a merge: it was
\* opened, and first read, before copy-up had set OVL_WHITEOUTS.
Astray(file) == file.open /\ file.isReal /\ file.isUpper /\ Merge

\* A reader that starts at position 0 and reads to the end without seeking gets every
\* name that was there all the time, no name that was there at no time, and no name
\* twice, whatever was created, removed, renamed or copied up meanwhile and whichever
\* cache it shares; and its cursor stays in the list of that cache (readdir.c:
\* ovl_dir_reset, ovl_cache_get; util.c: ovl_dentry_version_inc, "used by readdir code to
\* keep cache consistent").  The exceptions are a reader that began on the upper directory
\* before copy-up had set OVL_WHITEOUTS, which misses every lower name, and what such a
\* reader does to the caches of the others (mixed).
ListingComplete ==
  ~mixed => \A f \in Fds : LET l == listing[f] IN ~Astray(fd[f]) =>
    /\ l.got \subseteq l.may /\ ~l.twice
    /\ l.eof => l.keep \subseteq l.got
    /\ fd[f].cache # None => fd[f].cursor \in 0 .. Len(heap[fd[f].cache].entries) + 1

\* The d_ino of an entry that was the same object since the listing began is its st_ino
\* (readdir.c:452 "make sure that d_ino will be consistent with st_ino from stat(2)"),
\* whichever cache the number comes from, and also after copy-up or when a reader has
\* dropped the impure flag (ovl_cache_get_impure).  Besides the readers that
\* ListingComplete leaves out, these names are: one whose number was filled in between the
\* two steps of its copy-up (copy_up.c:643-653), which stays the real number in that cache
\* (the entry is early); one linked into a directory that is not merged, since ovl_link
\* does not change the version and the impure cache does not know it; and one replaced
\* during the listing, whose late number may be that of the real inode, which stat never showed.
InoConsistent == ~mixed => \A f \in Fds : ~Astray(fd[f]) => ~listing[f].badIno

=============================================================================
