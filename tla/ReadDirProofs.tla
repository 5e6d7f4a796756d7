--------------------------- MODULE ReadDirProofs ---------------------------
(***************************************************************************)
(* Proof that the caches of a directory are accounted for, and that what   *)
(* is listed from them is complete and has the right inode numbers.        *)
(*                                                                         *)
(* The operators of ReadDir pass the inode's cache, the heap and the files *)
(* on as one record.  The first part shows that each of them keeps         *)
(* CacheInv of that record.  The second part begins with the recursive     *)
(* functions that make the lists of names (Filter, ReadMerged), then shows *)
(* that each call keeps what ListingInv says of the caches, the files and  *)
(* the listings, and that each change of the directory does.               *)
(***************************************************************************)
EXTENDS ReadDirInv, FiniteSetTheorems, SequenceTheorems, WellFoundedInduction, TLAPS

LEMMA FreeFields ==
  /\ DOMAIN FreeCache = {"live", "refcount", "version", "entries", "impure"}
  /\ FreeCache.live = FALSE /\ FreeCache.impure = FALSE /\ FreeCache.refcount = 0
  BY DEF FreeCache

LEMMA ClosedFields ==
  /\ DOMAIN Closed = {"open", "isReal", "isUpper", "cache", "cursor", "pos"}
  /\ Closed.open = FALSE /\ Closed.isReal = FALSE /\ Closed.isUpper = FALSE
  /\ Closed.cache = None
  BY DEF Closed

LEMMA ReadersFinite ==
  ASSUME NEW s, NEW c
  PROVE  /\ IsFiniteSet(Readers(s, c)) /\ Cardinality(Readers(s, c)) \in Nat
         /\ Cardinality(Readers(s, c)) <= Cardinality(Fds)
         /\ Cardinality(Readers(s, c)) = 0 <=> Readers(s, c) = {}
  <1>1. Readers(s, c) \subseteq Fds
    BY DEF Readers
  <1>2. IsFiniteSet(Readers(s, c)) /\ Cardinality(Readers(s, c)) <= Cardinality(Fds)
    BY <1>1, FS_Subset, ReadDirAssumption
  <1> QED
    BY <1>2, FS_CardinalityType, FS_EmptySet

\* A cache that is live and merged has a reader, and each file reads one cache: there is
\* always a free one (the bound CacheIds is never met).
LEMMA FreeExists ==
  ASSUME NEW s, CacheInv(s), dir.whiteouts \/ \A c \in CacheIds : ~s.heap[c].live
  PROVE  NewId(s) \in CacheIds /\ ~s.heap[NewId(s)].live
  <1>1. \E c \in CacheIds : ~s.heap[c].live
    <2> SUFFICES ASSUME \A c \in CacheIds : s.heap[c].live PROVE FALSE
      OBVIOUS
    <2>1. CacheIds # {}
      BY ReadDirAssumption, FS_EmptySet, FS_CardinalityType, SMT
    <2>2. dir.whiteouts
      BY <2>1
    <2>3. \A c \in CacheIds : Readers(s, c) # {}
      <3> TAKE c \in CacheIds
      <3>1. ~s.heap[c].impure
        BY <2>2 DEF CacheInv, HeapOk
      <3>2. s.heap[c].refcount = Cardinality(Readers(s, c)) /\ s.heap[c].refcount > 0
        BY <3>1 DEF CacheInv, HeapOk
      <3> QED
        BY <3>2, ReadersFinite, SMT
    <2> DEFINE reader == [c \in CacheIds |-> CHOOSE f \in Fds : f \in Readers(s, c)]
    <2>4. \A c \in CacheIds : reader[c] \in Fds /\ s.fd[reader[c]].cache = c
      <3> TAKE c \in CacheIds
      <3>1. \E f \in Fds : f \in Readers(s, c)
        BY <2>3 DEF Readers
      <3>2. reader[c] \in Fds /\ reader[c] \in Readers(s, c)
        BY <3>1
      <3> QED
        BY <3>2 DEF Readers
    <2>5. reader \in [CacheIds -> Fds]
      BY <2>4
    <2> HIDE DEF reader
    <2>6. \E c, d \in CacheIds : c # d /\ reader[c] = reader[d]
      <3>1. Cardinality(Fds) < Cardinality(CacheIds)
        BY ReadDirAssumption, FS_CardinalityType, SMT
      <3> QED
        BY <3>1, <2>5, FS_PigeonHole, ReadDirAssumption
    <2> QED
      BY <2>4, <2>6
  <1> QED
    BY <1>1 DEF NewId

-----------------------------------------------------------------------------
(* ovl_cache_put. *)

LEMMA PutRefFields ==
  ASSUME NEW cache, cache.refcount \in Nat, cache.refcount > 0,
         DOMAIN cache = {"live", "refcount", "version", "entries", "impure"}
  PROVE  /\ DOMAIN PutRef(cache) = DOMAIN cache
         /\ cache.refcount = 1 => PutRef(cache) = FreeCache
         /\ cache.refcount # 1 => /\ PutRef(cache).refcount = cache.refcount - 1
                                 /\ PutRef(cache).live = cache.live
                                 /\ PutRef(cache).impure = cache.impure
         /\ PutRef(cache).refcount \in Nat
  <1>1. CASE cache.refcount = 1
    BY <1>1, FreeFields DEF PutRef
  <1>2. CASE cache.refcount # 1
    BY <1>2 DEF PutRef
  <1> QED
    BY <1>1, <1>2

\* A file gives up its cache: the cache goes with its last reader.
LEMMA PutStep ==
  ASSUME NEW s, CacheInv(s), NEW f \in Fds, s.fd[f].cache # None,
         NEW t, t = CachePut(s, f)
  PROVE  /\ CacheInv(t) /\ t.fd[f].cache = None
         /\ t.fd[f].open = s.fd[f].open /\ t.fd[f].isReal = s.fd[f].isReal
         /\ t.fd[f].isUpper = s.fd[f].isUpper /\ t.impure = s.impure
  <1> DEFINE c == s.fd[f].cache
             x == [s.fd[f] EXCEPT !.cache = None, !.cursor = 0]
  <1>0. Shape(s) /\ FilesOk(s) /\ HeapOk(s)
    BY DEF CacheInv
  <1>1. c \in CacheIds /\ None \notin CacheIds
    BY <1>0, ReadDirAssumption DEF Shape
  <1>2. /\ DOMAIN t = {"oi", "heap", "fd", "impure"} /\ t.impure = s.impure
        /\ t.oi = IF s.heap[c].refcount = 1 /\ s.oi = c THEN None ELSE s.oi
        /\ t.heap = [s.heap EXCEPT ![c] = PutRef(s.heap[c])]
        /\ t.fd = [s.fd EXCEPT ![f] = x]
    <2>0. DOMAIN s = {"oi", "heap", "fd", "impure"}
      BY <1>0 DEF Shape
    <2>1. DOMAIN t = {"oi", "heap", "fd", "impure"} /\ t.impure = s.impure
      BY <2>0 DEF CachePut
    <2>2. t.oi = IF s.heap[c].refcount = 1 /\ s.oi = c THEN None ELSE s.oi
      BY <2>0 DEF CachePut
    <2>3. t.heap = [s.heap EXCEPT ![c] = PutRef(s.heap[c])]
      BY <2>0 DEF CachePut
    <2>4. t.fd = [s.fd EXCEPT ![f] = x]
      BY <1>0, <2>0 DEF CachePut, Shape
    <2> QED
      BY <2>1, <2>2, <2>3, <2>4
  <1>3. /\ DOMAIN x = {"open", "isReal", "isUpper", "cache", "cursor", "pos"}
        /\ x.cache = None /\ x.open = s.fd[f].open /\ x.isReal = s.fd[f].isReal
        /\ x.isUpper = s.fd[f].isUpper
    BY <1>0 DEF Shape
  <1> HIDE DEF x, c
  <1>4. /\ t.fd = [g \in Fds |-> t.fd[g]] /\ t.fd[f] = x
        /\ \A g \in Fds : g # f => t.fd[g] = s.fd[g]
        /\ \A d \in CacheIds : Readers(t, d) = Readers(s, d) \ {f}
    <2>1. /\ t.fd = [g \in Fds |-> t.fd[g]] /\ t.fd[f] = x
          /\ \A g \in Fds : g # f => t.fd[g] = s.fd[g]
      BY <1>0, <1>2 DEF Shape
    <2>2. \A g \in Fds : g # f => t.fd[g].cache = s.fd[g].cache
      BY <2>1
    <2>3. \A d \in CacheIds : Readers(t, d) = Readers(s, d) \ {f}
      <3> TAKE d \in CacheIds
      <3>1. t.fd[f].cache # d
        BY <2>1, <1>1, <1>3
      <3> QED
        BY <3>1, <2>2 DEF Readers
    <2> QED
      BY <2>1, <2>3
  <1>5. /\ s.heap[c].live /\ ~s.heap[c].impure /\ dir.whiteouts
        /\ s.heap[c].refcount = Cardinality(Readers(s, c)) /\ s.heap[c].refcount > 0
    <2>1. s.heap[c].live
      BY <1>0 DEF HeapOk, c
    <2>2. dir.whiteouts
      BY <1>0 DEF FilesOk
    <2> QED
      BY <2>1, <2>2, <1>0, <1>1 DEF HeapOk
  <1>6. /\ t.heap = [d \in CacheIds |-> t.heap[d]] /\ t.heap[c] = PutRef(s.heap[c])
        /\ \A d \in CacheIds : d # c => t.heap[d] = s.heap[d]
    BY <1>0, <1>1, <1>2 DEF Shape
  <1>7. /\ DOMAIN PutRef(s.heap[c]) = {"live", "refcount", "version", "entries", "impure"}
        /\ s.heap[c].refcount = 1 => PutRef(s.heap[c]) = FreeCache
        /\ s.heap[c].refcount # 1 => /\ PutRef(s.heap[c]).refcount = s.heap[c].refcount - 1
                                     /\ PutRef(s.heap[c]).live = s.heap[c].live
                                     /\ PutRef(s.heap[c]).impure = s.heap[c].impure
        /\ PutRef(s.heap[c]).refcount \in Nat
    BY <1>0, <1>1, <1>5, PutRefFields DEF Shape
  <1>8. /\ IsFiniteSet(Readers(s, c)) /\ f \in Readers(s, c)
        /\ Cardinality(Readers(s, c) \ {f}) = Cardinality(Readers(s, c)) - 1
    <2>1. IsFiniteSet(Readers(s, c))
      BY ReadersFinite
    <2>2. f \in Readers(s, c)
      BY DEF Readers, c
    <2> QED
      BY <2>1, <2>2, FS_RemoveElement
  <1>9. Shape(t)
    <2>1. t.impure \in BOOLEAN /\ t.oi \in CacheIds \cup {None}
      BY <1>0, <1>2 DEF Shape
    <2>2. \A d \in CacheIds :
            /\ DOMAIN t.heap[d] = {"live", "refcount", "version", "entries", "impure"}
            /\ t.heap[d].live \in BOOLEAN /\ t.heap[d].impure \in BOOLEAN
            /\ t.heap[d].refcount \in Nat
      <3> TAKE d \in CacheIds
      <3>1. CASE d # c
        BY <3>1, <1>0, <1>6, Zenon DEF Shape
      <3>2. CASE d = c /\ s.heap[c].refcount = 1
        BY <3>2, <1>6, <1>7, FreeFields, Zenon
      <3>3. CASE d = c /\ s.heap[c].refcount # 1
        BY <3>3, <1>0, <1>6, <1>7, Zenon DEF Shape
      <3> QED
        BY <3>1, <3>2, <3>3
    <2>3. \A g \in Fds :
            /\ DOMAIN t.fd[g] = {"open", "isReal", "isUpper", "cache", "cursor", "pos"}
            /\ t.fd[g].open \in BOOLEAN /\ t.fd[g].isReal \in BOOLEAN
            /\ t.fd[g].isUpper \in BOOLEAN
            /\ t.fd[g].cache \in CacheIds \cup {None}
      <3> TAKE g \in Fds
      <3>1. CASE g # f
        BY <3>1, <1>0, <1>4, Zenon DEF Shape
      <3>2. CASE g = f
        BY <3>2, <1>0, <1>3, <1>4, Zenon DEF Shape
      <3> QED
        BY <3>1, <3>2
    <2> QED
      BY <2>1, <2>2, <2>3, <1>2, <1>4, <1>6, Zenon DEF Shape
  <1>10. FilesOk(t)
    <2> SUFFICES ASSUME NEW g \in Fds
                 PROVE  /\ t.fd[g].cache # None => t.fd[g].open /\ ~t.fd[g].isReal
                        /\ t.fd[g].open /\ ~t.fd[g].isReal => dir.whiteouts
                        /\ t.fd[g].open /\ t.fd[g].isReal /\ t.fd[g].isUpper => ~dir.whiteouts \/ Merge
                        /\ t.fd[g].isUpper => dir.hasUpper
      BY Zenon DEF FilesOk
    <2>1. CASE g # f
      BY <2>1, <1>0, <1>4, Zenon DEF FilesOk
    <2>2. CASE g = f
      BY <2>2, <1>0, <1>3, <1>4, Zenon DEF FilesOk
    <2> QED
      BY <2>1, <2>2
  <1>11. HeapOk(t)
    <2>1. \A d \in CacheIds : d # c => Readers(t, d) = Readers(s, d)
      <3> TAKE d \in CacheIds
      <3> HAVE d # c
      <3>1. f \notin Readers(s, d)
        BY DEF Readers, c
      <3> QED
        BY <3>1, <1>4
    <2>2. Readers(t, c) = Readers(s, c) \ {f}
      BY <1>1, <1>4
    <2>3. ASSUME NEW d \in CacheIds, d # c
          PROVE  /\ t.heap[d] = s.heap[d] /\ Readers(t, d) = Readers(s, d)
                 /\ s.oi = d => t.oi = d
      BY <2>3, <2>1, <1>2, <1>6
    <2>4. t.oi # None => t.heap[t.oi].live
      <3>1. CASE s.heap[c].refcount = 1
        <4> HAVE t.oi # None
        <4>1. t.oi = s.oi /\ t.oi # c
          BY <3>1, <1>2
        <4>2. s.oi \in CacheIds /\ s.heap[s.oi].live
          BY <4>1, <1>0 DEF HeapOk, Shape
        <4> QED
          BY <4>1, <4>2, <1>6
      <3>2. CASE s.heap[c].refcount # 1
        <4> HAVE t.oi # None
        <4>1. t.oi = s.oi
          BY <3>2, <1>2
        <4>2. s.oi \in CacheIds /\ s.heap[s.oi].live
          BY <4>1, <1>0 DEF HeapOk, Shape
        <4> QED
          BY <3>2, <4>1, <4>2, <1>6, <1>7
      <3> QED
        BY <3>1, <3>2
    <2>5. ASSUME NEW g \in Fds, t.fd[g].cache # None
          PROVE  t.heap[t.fd[g].cache].live
      <3>1. g # f /\ t.fd[g] = s.fd[g]
        BY <2>5, <1>3, <1>4
      <3>2. s.fd[g].cache \in CacheIds /\ s.heap[s.fd[g].cache].live
        BY <3>1, <2>5, <1>0 DEF HeapOk, Shape
      <3>3. CASE s.fd[g].cache # c
        BY <3>1, <3>2, <3>3, <1>6
      <3>4. CASE s.fd[g].cache = c
        <4>1. g \in Readers(s, c) \ {f}
          BY <3>1, <3>4 DEF Readers
        <4>2. Cardinality(Readers(s, c) \ {f}) # 0
          <5>1. IsFiniteSet(Readers(s, c) \ {f})
            BY <1>8, FS_RemoveElement
          <5> QED
            BY <4>1, <5>1, FS_EmptySet
        <4>3. s.heap[c].refcount # 1
          BY <4>2, <1>5, <1>8
        <4> QED
          BY <3>1, <3>4, <4>3, <1>5, <1>6, <1>7
      <3> QED
        BY <3>3, <3>4
    <2>6. ASSUME NEW d \in CacheIds
          PROVE  IF ~t.heap[d].live THEN t.heap[d].refcount = 0
                 ELSE IF t.heap[d].impure
                 THEN t.heap[d].refcount = 0 /\ t.oi = d /\ ~dir.whiteouts /\ dir.hasUpper /\ ~Merge
                 ELSE /\ t.heap[d].refcount = Cardinality(Readers(t, d))
                      /\ t.heap[d].refcount > 0 /\ dir.whiteouts
      <3>1. CASE d # c
        BY <3>1, <2>3, <1>0, <1>5, Zenon DEF HeapOk
      <3>2. CASE d = c /\ s.heap[c].refcount = 1
        BY <3>2, <1>6, <1>7, FreeFields, Zenon
      <3>3. CASE d = c /\ s.heap[c].refcount # 1
        <4>1. t.heap[d].live /\ ~t.heap[d].impure
          BY <3>3, <1>5, <1>6, <1>7, Zenon
        <4>2. t.heap[d].refcount = Cardinality(Readers(t, d)) /\ t.heap[d].refcount > 0
          <5>1. t.heap[d].refcount = s.heap[c].refcount - 1
            BY <3>3, <1>6, <1>7
          <5>2. s.heap[c].refcount \in Nat
            BY <1>0, <1>1 DEF Shape
          <5> QED
            BY <5>1, <5>2, <3>3, <2>2, <1>5, <1>8
        <4> QED
          BY <4>1, <4>2, <1>5, Zenon
      <3> QED
        BY <3>1, <3>2, <3>3
    <2> QED
      BY <2>4, <2>5, <2>6, Zenon DEF HeapOk
  <1> QED
    BY <1>2, <1>3, <1>4, <1>9, <1>10, <1>11 DEF CacheInv

-----------------------------------------------------------------------------
(* Steps that leave the pointers and the counts alone. *)

LEMMA SameRefs ==
  ASSUME NEW s, CacheInv(s), NEW t, Shape(t), FilesOk(t), t.oi = s.oi,
         \A g \in Fds : t.fd[g].cache = s.fd[g].cache,
         \A c \in CacheIds : /\ t.heap[c].live = s.heap[c].live
                             /\ t.heap[c].refcount = s.heap[c].refcount
                             /\ t.heap[c].impure = s.heap[c].impure
  PROVE  CacheInv(t)
  <1>0. Shape(s) /\ HeapOk(s)
    BY DEF CacheInv
  <1>1. \A c \in CacheIds : Readers(t, c) = Readers(s, c)
    BY DEF Readers
  <1>2. t.oi # None => t.heap[t.oi].live
    <2> HAVE t.oi # None
    <2>1. s.oi \in CacheIds /\ s.heap[s.oi].live
      BY <1>0 DEF Shape, HeapOk
    <2> QED
      BY <2>1
  <1>3. ASSUME NEW g \in Fds, t.fd[g].cache # None
        PROVE  t.heap[t.fd[g].cache].live
    <2>1. s.fd[g].cache \in CacheIds /\ s.heap[s.fd[g].cache].live
      BY <1>0, <1>3 DEF Shape, HeapOk
    <2> QED
      BY <2>1
  <1>4. ASSUME NEW d \in CacheIds
        PROVE  IF ~t.heap[d].live THEN t.heap[d].refcount = 0
               ELSE IF t.heap[d].impure
               THEN t.heap[d].refcount = 0 /\ t.oi = d /\ ~dir.whiteouts /\ dir.hasUpper /\ ~Merge
               ELSE /\ t.heap[d].refcount = Cardinality(Readers(t, d))
                    /\ t.heap[d].refcount > 0 /\ dir.whiteouts
    <2>1. IF ~s.heap[d].live THEN s.heap[d].refcount = 0
          ELSE IF s.heap[d].impure
          THEN s.heap[d].refcount = 0 /\ s.oi = d /\ ~dir.whiteouts /\ dir.hasUpper /\ ~Merge
          ELSE /\ s.heap[d].refcount = Cardinality(Readers(s, d))
               /\ s.heap[d].refcount > 0 /\ dir.whiteouts
      BY <1>0, Zenon DEF HeapOk
    <2>2. /\ t.heap[d].live = s.heap[d].live
          /\ t.heap[d].refcount = s.heap[d].refcount
          /\ t.heap[d].impure = s.heap[d].impure
          /\ Readers(t, d) = Readers(s, d)
      BY <1>1
    <2> QED
      BY <2>1, <2>2, Zenon
  <1> QED
    BY <1>2, <1>3, <1>4, Zenon DEF CacheInv, HeapOk

\* A change of one file's record that keeps its cache.
LEMMA FileChanged ==
  ASSUME NEW s, CacheInv(s), NEW f \in Fds, NEW x, NEW t,
         DOMAIN t = {"oi", "heap", "fd", "impure"}, t.impure \in BOOLEAN,
         t.oi = s.oi, t.heap = s.heap, t.fd = [s.fd EXCEPT ![f] = x],
         DOMAIN x = {"open", "isReal", "isUpper", "cache", "cursor", "pos"},
         x.open \in BOOLEAN, x.isReal \in BOOLEAN, x.isUpper \in BOOLEAN,
         x.cache = s.fd[f].cache,
         x.cache # None => x.open /\ ~x.isReal,
         x.open /\ ~x.isReal => dir.whiteouts,
         x.open /\ x.isReal /\ x.isUpper => ~dir.whiteouts \/ Merge,
         x.isUpper => dir.hasUpper
  PROVE  CacheInv(t)
  <1>0. Shape(s) /\ FilesOk(s)
    BY DEF CacheInv
  <1>1. /\ t.fd = [g \in Fds |-> t.fd[g]] /\ t.fd[f] = x
        /\ \A g \in Fds : g # f => t.fd[g] = s.fd[g]
    BY <1>0 DEF Shape
  <1>2. ASSUME NEW g \in Fds
        PROVE  /\ DOMAIN t.fd[g] = {"open", "isReal", "isUpper", "cache", "cursor", "pos"}
               /\ t.fd[g].open \in BOOLEAN /\ t.fd[g].isReal \in BOOLEAN
               /\ t.fd[g].isUpper \in BOOLEAN /\ t.fd[g].cache \in CacheIds \cup {None}
               /\ t.fd[g].cache = s.fd[g].cache
               /\ t.fd[g].cache # None => t.fd[g].open /\ ~t.fd[g].isReal
               /\ t.fd[g].open /\ ~t.fd[g].isReal => dir.whiteouts
               /\ t.fd[g].open /\ t.fd[g].isReal /\ t.fd[g].isUpper => ~dir.whiteouts \/ Merge
               /\ t.fd[g].isUpper => dir.hasUpper
    <2>1. CASE g = f
      BY <2>1, <1>0, <1>1, Zenon DEF Shape
    <2>2. CASE g # f
      <3>1. t.fd[g] = s.fd[g]
        BY <2>2, <1>1
      <3> QED
        BY <3>1, <1>0, Zenon DEF Shape, FilesOk
    <2> QED
      BY <2>1, <2>2
  <1>3. Shape(t)
    BY <1>0, <1>1, <1>2, Zenon DEF Shape
  <1>4. FilesOk(t)
    BY <1>2, Zenon DEF FilesOk
  <1> QED
    BY <1>2, <1>3, <1>4, SameRefs

\* ovl_dir_reset.
LEMMA RealStep ==
  ASSUME NEW s, CacheInv(s), NEW f \in Fds, dir.whiteouts \in BOOLEAN,
         NEW t, t = [s EXCEPT !.fd[f].isReal = @ /\ ~dir.whiteouts]
  PROVE  /\ CacheInv(t)
         /\ t.impure = s.impure /\ t.fd[f].cache = s.fd[f].cache
         /\ t.fd[f].open = s.fd[f].open /\ t.fd[f].isUpper = s.fd[f].isUpper
         /\ t.fd[f].isReal <=> s.fd[f].isReal /\ ~dir.whiteouts
  <1> DEFINE b == s.fd[f].isReal /\ ~dir.whiteouts
             x == [s.fd[f] EXCEPT !.isReal = b]
  <1>0. Shape(s) /\ FilesOk(s) /\ b \in BOOLEAN
    BY DEF CacheInv
  <1>1. t = [s EXCEPT !.fd[f].isReal = b]
    OBVIOUS
  <1>b. b <=> s.fd[f].isReal /\ ~dir.whiteouts
    OBVIOUS
  <1> HIDE DEF b
  <1>2. /\ DOMAIN x = {"open", "isReal", "isUpper", "cache", "cursor", "pos"}
        /\ x.isReal = b /\ x.open = s.fd[f].open /\ x.isUpper = s.fd[f].isUpper
        /\ x.cache = s.fd[f].cache
    BY <1>0 DEF Shape
  <1>3. /\ DOMAIN t = {"oi", "heap", "fd", "impure"} /\ t.impure = s.impure
        /\ t.oi = s.oi /\ t.heap = s.heap /\ t.fd = [s.fd EXCEPT ![f] = x]
    BY <1>0, <1>1 DEF Shape
  <1> HIDE DEF x
  <1>4. t.fd[f] = x
    BY <1>0, <1>3 DEF Shape
  <1>5. /\ x.open \in BOOLEAN /\ x.isReal \in BOOLEAN /\ x.isUpper \in BOOLEAN
        /\ x.cache # None => x.open /\ ~x.isReal
        /\ x.open /\ ~x.isReal => dir.whiteouts
        /\ x.open /\ x.isReal /\ x.isUpper => ~dir.whiteouts \/ Merge
        /\ x.isUpper => dir.hasUpper
    BY <1>0, <1>b, <1>2, Zenon DEF Shape, FilesOk
  <1>6. t.impure \in BOOLEAN
    BY <1>0, <1>3 DEF Shape
  <1>7. CacheInv(t)
    BY <1>2, <1>3, <1>5, <1>6, FileChanged
  <1> QED
    BY <1>b, <1>2, <1>3, <1>4, <1>7, Zenon

LEMMA ResetStep ==
  ASSUME NEW s, CacheInv(s), NEW f \in Fds, dir.whiteouts \in BOOLEAN,
         NEW t, t = DirReset(s, f)
  PROVE  /\ CacheInv(t) /\ t.impure = s.impure
         /\ t.fd[f].open = s.fd[f].open /\ t.fd[f].isUpper = s.fd[f].isUpper
         /\ t.fd[f].isReal <=> s.fd[f].isReal /\ ~dir.whiteouts
  <1> DEFINE put == s.fd[f].cache # None /\ s.heap[s.fd[f].cache].version # dir.version
  <1>1. CASE put
    <2>1. PICK u : u = CachePut(s, f)
      OBVIOUS
    <2>2. t = [u EXCEPT !.fd[f].isReal = @ /\ ~dir.whiteouts]
      BY <1>1, <2>1 DEF DirReset
    <2>3. /\ CacheInv(u) /\ u.fd[f].cache = None
          /\ u.fd[f].open = s.fd[f].open /\ u.fd[f].isReal = s.fd[f].isReal
          /\ u.fd[f].isUpper = s.fd[f].isUpper /\ u.impure = s.impure
      BY <1>1, <2>1, PutStep
    <2>4. /\ CacheInv(t)
          /\ t.impure = u.impure /\ t.fd[f].cache = u.fd[f].cache
          /\ t.fd[f].open = u.fd[f].open /\ t.fd[f].isUpper = u.fd[f].isUpper
          /\ t.fd[f].isReal <=> u.fd[f].isReal /\ ~dir.whiteouts
      BY <2>2, <2>3, RealStep
    <2> QED
      BY <2>3, <2>4, Zenon
  <1>2. CASE ~put
    <2>1. t = [s EXCEPT !.fd[f].isReal = @ /\ ~dir.whiteouts]
      BY <1>2 DEF DirReset
    <2>2. /\ CacheInv(t)
          /\ t.impure = s.impure /\ t.fd[f].cache = s.fd[f].cache
          /\ t.fd[f].open = s.fd[f].open /\ t.fd[f].isUpper = s.fd[f].isUpper
          /\ t.fd[f].isReal <=> s.fd[f].isReal /\ ~dir.whiteouts
      BY <2>1, RealStep
    <2> QED
      BY <2>2, Zenon
  <1> QED
    BY <1>1, <1>2

-----------------------------------------------------------------------------
(* ovl_cache_get. *)

\* A file gets a reference to a cache c that becomes, or is, the inode's.
LEMMA RefTaken ==
  ASSUME NEW s, CacheInv(s), dir.whiteouts, NEW f \in Fds, NEW c \in CacheIds, NEW x, NEW y,
         s.fd[f].cache = None, NEW t,
         DOMAIN t = {"oi", "heap", "fd", "impure"}, t.impure = s.impure,
         t.oi = c, t.heap = [s.heap EXCEPT ![c] = y], t.fd = [s.fd EXCEPT ![f] = x],
         DOMAIN y = {"live", "refcount", "version", "entries", "impure"},
         y.live \in BOOLEAN, y.live, y.impure \in BOOLEAN, ~y.impure,
         y.refcount = Cardinality(Readers(s, c)) + 1,
         DOMAIN x = {"open", "isReal", "isUpper", "cache", "cursor", "pos"},
         x.open \in BOOLEAN, x.open, x.isReal \in BOOLEAN, ~x.isReal,
         x.isUpper = s.fd[f].isUpper, x.cache = c
  PROVE  CacheInv(t)
  <1>0. Shape(s) /\ FilesOk(s) /\ HeapOk(s) /\ None \notin CacheIds
    BY ReadDirAssumption DEF CacheInv
  <1>1. /\ t.fd = [g \in Fds |-> t.fd[g]] /\ t.fd[f] = x
        /\ \A g \in Fds : g # f => t.fd[g] = s.fd[g]
    BY <1>0 DEF Shape
  <1>2. /\ t.heap = [d \in CacheIds |-> t.heap[d]] /\ t.heap[c] = y
        /\ \A d \in CacheIds : d # c => t.heap[d] = s.heap[d]
    BY <1>0 DEF Shape
  <1>3. /\ Readers(t, c) = Readers(s, c) \cup {f} /\ f \notin Readers(s, c)
        /\ \A d \in CacheIds : d # c => Readers(t, d) = Readers(s, d)
    BY <1>0, <1>1 DEF Readers
  <1>4. /\ Cardinality(Readers(t, c)) = Cardinality(Readers(s, c)) + 1
        /\ Cardinality(Readers(s, c)) \in Nat
    <2>1. IsFiniteSet(Readers(s, c)) /\ Cardinality(Readers(s, c)) \in Nat
      BY ReadersFinite
    <2>2. Cardinality(Readers(s, c) \cup {f}) =
            IF f \in Readers(s, c) THEN Cardinality(Readers(s, c))
            ELSE Cardinality(Readers(s, c)) + 1
      BY <2>1, FS_AddElement
    <2> QED
      BY <2>1, <2>2, <1>3
  <1>5. Shape(t)
    <2>1. t.impure \in BOOLEAN /\ t.oi \in CacheIds \cup {None}
      BY <1>0 DEF Shape
    <2>2. \A d \in CacheIds :
            /\ DOMAIN t.heap[d] = {"live", "refcount", "version", "entries", "impure"}
            /\ t.heap[d].live \in BOOLEAN /\ t.heap[d].impure \in BOOLEAN
            /\ t.heap[d].refcount \in Nat
      <3> TAKE d \in CacheIds
      <3>0. y.refcount \in Nat
        BY <1>4
      <3>1. CASE d # c
        <4>1. t.heap[d] = s.heap[d]
          BY <3>1, <1>2
        <4> QED
          BY <4>1, <1>0, Zenon DEF Shape
      <3>2. CASE d = c
        BY <3>0, <3>2, <1>2, Zenon
      <3> QED
        BY <3>1, <3>2
    <2>3. \A g \in Fds :
            /\ DOMAIN t.fd[g] = {"open", "isReal", "isUpper", "cache", "cursor", "pos"}
            /\ t.fd[g].open \in BOOLEAN /\ t.fd[g].isReal \in BOOLEAN
            /\ t.fd[g].isUpper \in BOOLEAN
            /\ t.fd[g].cache \in CacheIds \cup {None}
      <3> TAKE g \in Fds
      <3>1. CASE g # f
        <4>1. t.fd[g] = s.fd[g]
          BY <3>1, <1>1
        <4> QED
          BY <4>1, <1>0, Zenon DEF Shape
      <3>2. CASE g = f
        BY <3>2, <1>0, <1>1, Zenon DEF Shape
      <3> QED
        BY <3>1, <3>2
    <2> QED
      BY <2>1, <2>2, <2>3, <1>1, <1>2, Zenon DEF Shape
  <1>6. FilesOk(t)
    <2> SUFFICES ASSUME NEW g \in Fds
                 PROVE  /\ t.fd[g].cache # None => t.fd[g].open /\ ~t.fd[g].isReal
                        /\ t.fd[g].open /\ ~t.fd[g].isReal => dir.whiteouts
                        /\ t.fd[g].open /\ t.fd[g].isReal /\ t.fd[g].isUpper => ~dir.whiteouts \/ Merge
                        /\ t.fd[g].isUpper => dir.hasUpper
      BY Zenon DEF FilesOk
    <2>1. CASE g # f
      BY <2>1, <1>0, <1>1, Zenon DEF FilesOk
    <2>2. CASE g = f
      BY <2>2, <1>0, <1>1, Zenon DEF FilesOk
    <2> QED
      BY <2>1, <2>2
  <1>7. HeapOk(t)
    <2>1. t.heap[t.oi].live
      BY <1>2
    <2>2. ASSUME NEW g \in Fds, t.fd[g].cache # None
          PROVE  t.heap[t.fd[g].cache].live
      <3>1. CASE t.fd[g].cache = c
        BY <3>1, <1>2
      <3>2. CASE t.fd[g].cache # c
        <4>1. t.fd[g] = s.fd[g]
          BY <3>2, <1>1
        <4>2. s.fd[g].cache \in CacheIds /\ s.heap[s.fd[g].cache].live
          BY <4>1, <2>2, <1>0 DEF Shape, HeapOk
        <4> QED
          BY <4>1, <4>2, <3>2, <1>2
      <3> QED
        BY <3>1, <3>2
    <2>3. ASSUME NEW d \in CacheIds
          PROVE  IF ~t.heap[d].live THEN t.heap[d].refcount = 0
                 ELSE IF t.heap[d].impure
                 THEN t.heap[d].refcount = 0 /\ t.oi = d /\ ~dir.whiteouts /\ dir.hasUpper /\ ~Merge
                 ELSE /\ t.heap[d].refcount = Cardinality(Readers(t, d))
                      /\ t.heap[d].refcount > 0 /\ dir.whiteouts
      <3>1. CASE d # c
        <4>1. t.heap[d] = s.heap[d] /\ Readers(t, d) = Readers(s, d)
          BY <3>1, <1>2, <1>3
        <4> QED
          BY <4>1, <1>0, Zenon DEF HeapOk
      <3>2. CASE d = c
        <4>1. t.heap[d].refcount = Cardinality(Readers(t, d)) /\ t.heap[d].refcount > 0
          BY <3>2, <1>2, <1>4
        <4> QED
          BY <4>1, <3>2, <1>2, Zenon
      <3> QED
        BY <3>1, <3>2
    <2> QED
      BY <2>1, <2>2, <2>3, Zenon DEF HeapOk
  <1> QED
    BY <1>5, <1>6, <1>7 DEF CacheInv

LEMMA CacheSet ==
  ASSUME NEW u, DOMAIN u = {"oi", "heap", "fd", "impure"}, NEW f \in Fds,
         u.fd = [g \in Fds |-> u.fd[g]],
         DOMAIN u.fd[f] = {"open", "isReal", "isUpper", "cache", "cursor", "pos"},
         NEW c, NEW k
  PROVE  [u EXCEPT !.fd[f].cache = c, !.fd[f].cursor = k].fd =
           [u.fd EXCEPT ![f] = [u.fd[f] EXCEPT !.cache = c, !.cursor = k]]
  OBVIOUS

LEMMA GetStep ==
  ASSUME NEW s, CacheInv(s), dir.whiteouts, NEW f \in Fds,
         s.fd[f].cache = None, s.fd[f].open, ~s.fd[f].isReal,
         NEW t, t = CacheGet(s, f)
  PROVE  CacheInv(t) /\ t.fd[f].cache \in CacheIds
  <1>0. Shape(s) /\ HeapOk(s) /\ None \notin CacheIds
    BY ReadDirAssumption DEF CacheInv
  <1>d. DOMAIN s = {"oi", "heap", "fd", "impure"}
    BY <1>0 DEF Shape
  <1> DEFINE c == IF Current(s) THEN s.oi ELSE NewId(s)
             y == IF Current(s) THEN [s.heap[c] EXCEPT !.refcount = @ + 1]
                  ELSE [live |-> TRUE, refcount |-> 1, version |-> dir.version,
                        entries |-> ReadMerged, impure |-> FALSE]
             u == IF Current(s) THEN [s EXCEPT !.heap[c].refcount = @ + 1]
                  ELSE [s EXCEPT !.oi = c,
                                 !.heap[c] = [live |-> TRUE, refcount |-> 1,
                                              version |-> dir.version,
                                              entries |-> ReadMerged, impure |-> FALSE]]
             k == SeekCursor(u.heap[c].entries, s.fd[f].pos)
             x == [s.fd[f] EXCEPT !.cache = c, !.cursor = k]
  <1>1. t = [u EXCEPT !.fd[f].cache = c, !.fd[f].cursor = k]
    BY DEF CacheGet
  <1>2. c \in CacheIds /\ (Current(s) => c = s.oi) /\ (~Current(s) => ~s.heap[c].live)
    <2>1. CASE Current(s)
      BY <2>1, <1>0 DEF Current, Shape
    <2>2. CASE ~Current(s)
      BY <2>2, FreeExists
    <2> QED
      BY <2>1, <2>2
  <1> HIDE DEF k
  <1>3. /\ DOMAIN u = {"oi", "heap", "fd", "impure"} /\ u.oi = c /\ u.fd = s.fd
        /\ u.impure = s.impure /\ u.heap = [s.heap EXCEPT ![c] = y]
    <2>1. CASE Current(s)
      BY <2>1, <1>0, <1>d, <1>2 DEF Shape
    <2>2. CASE ~Current(s)
      BY <2>2, <1>0, <1>d, <1>2 DEF Shape
    <2> QED
      BY <2>1, <2>2
  <1> HIDE DEF u
  <1>4. /\ DOMAIN t = {"oi", "heap", "fd", "impure"} /\ t.oi = c /\ t.impure = s.impure
        /\ t.heap = [s.heap EXCEPT ![c] = y]
    BY <1>1, <1>3
  <1>5. t.fd = [s.fd EXCEPT ![f] = x]
    <2>1. t.fd = [u.fd EXCEPT ![f] = [u.fd[f] EXCEPT !.cache = c, !.cursor = k]]
      <3>1. /\ u.fd = [g \in Fds |-> u.fd[g]]
            /\ DOMAIN u.fd[f] = {"open", "isReal", "isUpper", "cache", "cursor", "pos"}
        BY <1>0, <1>3 DEF Shape
      <3>2. DOMAIN u = {"oi", "heap", "fd", "impure"}
        BY <1>3
      <3> HIDE DEF c
      <3>3. [u EXCEPT !.fd[f].cache = c, !.fd[f].cursor = k].fd =
              [u.fd EXCEPT ![f] = [u.fd[f] EXCEPT !.cache = c, !.cursor = k]]
        BY <3>1, <3>2, CacheSet
      <3> QED
        BY <1>1, <3>3, Zenon
    <2> QED
      BY <2>1, <1>3
  <1>6. /\ DOMAIN y = {"live", "refcount", "version", "entries", "impure"}
        /\ y.live = TRUE /\ y.impure = FALSE /\ y.refcount = Cardinality(Readers(s, c)) + 1
    <2>1. CASE Current(s)
      <3>1. s.oi # None /\ s.heap[c].live
        BY <2>1, <1>0, <1>2 DEF Current, HeapOk
      <3>2. s.heap[c].impure = FALSE /\ s.heap[c].live = TRUE
        BY <3>1, <1>0, <1>2, Zenon DEF HeapOk, Shape
      <3>3. s.heap[c].refcount = Cardinality(Readers(s, c))
        BY <3>1, <3>2, <1>0, <1>2 DEF HeapOk
      <3>4. DOMAIN s.heap[c] = {"live", "refcount", "version", "entries", "impure"}
        BY <1>0, <1>2 DEF Shape
      <3> HIDE DEF c
      <3>5. y = [s.heap[c] EXCEPT !.refcount = @ + 1]
        BY <2>1
      <3> HIDE DEF y
      <3>6. /\ DOMAIN y = {"live", "refcount", "version", "entries", "impure"}
            /\ y.live = s.heap[c].live /\ y.impure = s.heap[c].impure
            /\ y.refcount = s.heap[c].refcount + 1
        BY <3>4, <3>5
      <3> QED
        BY <3>2, <3>3, <3>6
    <2>2. CASE ~Current(s)
      <3>1. Readers(s, c) = {}
        <4> SUFFICES ASSUME NEW g \in Fds, s.fd[g].cache = c PROVE FALSE
          BY DEF Readers
        <4>1. s.fd[g].cache # None
          BY <1>0, <1>2
        <4>2. s.heap[s.fd[g].cache].live
          BY <4>1, <1>0 DEF HeapOk
        <4> QED
          BY <4>2, <2>2, <1>2
      <3>2. Cardinality(Readers(s, c)) = 0
        BY <3>1, FS_EmptySet
      <3>3. y = [live |-> TRUE, refcount |-> 1, version |-> dir.version,
                 entries |-> ReadMerged, impure |-> FALSE]
        BY <2>2
      <3> HIDE DEF y
      <3> QED
        BY <3>2, <3>3
    <2> QED
      BY <2>1, <2>2
  <1> HIDE DEF c, y
  <1>7. /\ DOMAIN x = {"open", "isReal", "isUpper", "cache", "cursor", "pos"}
        /\ x.open = TRUE /\ x.isReal = FALSE /\ x.isUpper = s.fd[f].isUpper /\ x.cache = c
    <2>1. /\ DOMAIN x = {"open", "isReal", "isUpper", "cache", "cursor", "pos"}
          /\ x.open = s.fd[f].open /\ x.isReal = s.fd[f].isReal
          /\ x.isUpper = s.fd[f].isUpper /\ x.cache = c
      BY <1>0 DEF Shape
    <2>2. s.fd[f].open = TRUE /\ s.fd[f].isReal = FALSE
      BY <1>0, Zenon DEF Shape
    <2> QED
      BY <2>1, <2>2
  <1> HIDE DEF x
  <1>8. CacheInv(t)
    <2>1. y.live \in BOOLEAN /\ y.live /\ y.impure \in BOOLEAN /\ ~y.impure
      BY <1>6, Zenon
    <2>2. x.open \in BOOLEAN /\ x.open /\ x.isReal \in BOOLEAN /\ ~x.isReal
      BY <1>7, Zenon
    <2> QED
      BY <2>1, <2>2, <1>2, <1>4, <1>5, <1>6, <1>7, RefTaken
  <1>9. t.fd[f] = x
    BY <1>0, <1>5 DEF Shape
  <1> QED
    BY <1>2, <1>7, <1>8, <1>9

-----------------------------------------------------------------------------
(* The impure cache. *)

\* Without OVL_WHITEOUTS no file refers to a cache.
LEMMA NoReaders ==
  ASSUME NEW s, CacheInv(s), ~dir.whiteouts
  PROVE  \A f \in Fds : s.fd[f].cache = None
  BY DEF CacheInv, FilesOk

\* When no file refers to a cache, the inode's is the only one, and it is freed.
LEMMA FreedStep ==
  ASSUME NEW s, CacheInv(s), \A f \in Fds : s.fd[f].cache = None,
         NEW t, t = ImpureFreed(s)
  PROVE  /\ CacheInv(t) /\ t.oi = None /\ t.fd = s.fd /\ t.impure = s.impure
         /\ \A c \in CacheIds : ~t.heap[c].live
  <1>0. Shape(s) /\ FilesOk(s) /\ HeapOk(s)
    BY DEF CacheInv
  <1>1. \A c \in CacheIds : s.heap[c].live => s.oi = c
    <2> TAKE c \in CacheIds
    <2> HAVE s.heap[c].live
    <2>1. CASE s.heap[c].impure
      BY <2>1, <1>0, Zenon DEF HeapOk
    <2>2. CASE ~s.heap[c].impure
      <3>1. s.heap[c].refcount = Cardinality(Readers(s, c)) /\ s.heap[c].refcount > 0
        BY <2>2, <1>0 DEF HeapOk
      <3>2. Readers(s, c) = {} \/ c = None
        BY DEF Readers
      <3>3. c # None
        BY ReadDirAssumption
      <3>4. Cardinality(Readers(s, c)) = 0
        BY <3>2, <3>3, FS_EmptySet
      <3> QED
        BY <3>1, <3>4
    <2> QED
      BY <2>1, <2>2
  <1>2. /\ DOMAIN t = {"oi", "heap", "fd", "impure"} /\ t.impure = s.impure
        /\ t.oi = None /\ t.fd = s.fd
        /\ t.heap = IF s.oi = None THEN s.heap ELSE [s.heap EXCEPT ![s.oi] = FreeCache]
    <2>1. DOMAIN s = {"oi", "heap", "fd", "impure"}
      BY <1>0 DEF Shape
    <2>2. DOMAIN t = {"oi", "heap", "fd", "impure"} /\ t.impure = s.impure
      BY <2>1 DEF ImpureFreed
    <2>3. t.oi = None /\ t.fd = s.fd
      BY <2>1 DEF ImpureFreed
    <2>4. t.heap = IF s.oi = None THEN s.heap ELSE [s.heap EXCEPT ![s.oi] = FreeCache]
      BY <2>1 DEF ImpureFreed
    <2> QED
      BY <2>2, <2>3, <2>4
  <1>3. /\ t.heap = [c \in CacheIds |-> t.heap[c]]
        /\ \A c \in CacheIds : t.heap[c] = IF c = s.oi THEN FreeCache ELSE s.heap[c]
    <2>1. CASE s.oi = None
      BY <2>1, <1>0, <1>2, ReadDirAssumption DEF Shape
    <2>2. CASE s.oi # None
      BY <2>2, <1>0, <1>2 DEF Shape
    <2> QED
      BY <2>1, <2>2
  <1>4. ASSUME NEW c \in CacheIds
        PROVE  /\ DOMAIN t.heap[c] = {"live", "refcount", "version", "entries", "impure"}
               /\ t.heap[c].live \in BOOLEAN /\ t.heap[c].impure \in BOOLEAN
               /\ t.heap[c].refcount = 0 /\ ~t.heap[c].live
    <2>1. CASE c = s.oi
      <3>1. t.heap[c] = FreeCache
        BY <2>1, <1>3
      <3> QED
        BY <3>1, FreeFields, Zenon
    <2>2. CASE c # s.oi
      <3>1. t.heap[c] = s.heap[c] /\ ~s.heap[c].live
        BY <2>2, <1>1, <1>3
      <3> QED
        BY <3>1, <1>0, Zenon DEF Shape, HeapOk
    <2> QED
      BY <2>1, <2>2
  <1>5. Shape(t)
    <2>1. \A c \in CacheIds :
            /\ DOMAIN t.heap[c] = {"live", "refcount", "version", "entries", "impure"}
            /\ t.heap[c].live \in BOOLEAN /\ t.heap[c].impure \in BOOLEAN
            /\ t.heap[c].refcount \in Nat
      BY <1>4, 0 \in Nat, Zenon
    <2> QED
      BY <2>1, <1>0, <1>2, <1>3, Zenon DEF Shape
  <1>6. FilesOk(t)
    BY <1>0, <1>2, Zenon DEF FilesOk
  <1>7. HeapOk(t)
    BY <1>2, <1>4, Zenon DEF HeapOk
  <1> QED
    BY <1>2, <1>4, <1>5, <1>6, <1>7 DEF CacheInv

\* A new record in the heap, not referred to by a file.
LEMMA ImpureMade ==
  ASSUME NEW s, CacheInv(s), ~dir.whiteouts, dir.hasUpper, ~Merge,
         \A d \in CacheIds : ~s.heap[d].live, NEW c \in CacheIds, NEW y, NEW t,
         DOMAIN t = {"oi", "heap", "fd", "impure"}, t.impure = s.impure, t.fd = s.fd,
         t.oi = c, t.heap = [s.heap EXCEPT ![c] = y],
         DOMAIN y = {"live", "refcount", "version", "entries", "impure"},
         y.live \in BOOLEAN, y.live, y.impure \in BOOLEAN, y.impure, y.refcount = 0
  PROVE  CacheInv(t)
  <1>0. Shape(s) /\ FilesOk(s) /\ HeapOk(s)
    BY DEF CacheInv
  <1>1. /\ t.heap = [d \in CacheIds |-> t.heap[d]] /\ t.heap[c] = y
        /\ \A d \in CacheIds : d # c => t.heap[d] = s.heap[d]
    BY <1>0 DEF Shape
  <1>2. \A f \in Fds : s.fd[f].cache = None
    BY NoReaders
  <1>3. ASSUME NEW d \in CacheIds
        PROVE  /\ DOMAIN t.heap[d] = {"live", "refcount", "version", "entries", "impure"}
               /\ t.heap[d].live \in BOOLEAN /\ t.heap[d].impure \in BOOLEAN
               /\ t.heap[d].refcount = 0
               /\ t.heap[d].live => d = c /\ t.heap[d].impure
    <2>1. CASE d = c
      BY <2>1, <1>1, Zenon
    <2>2. CASE d # c
      <3>1. t.heap[d] = s.heap[d] /\ ~s.heap[d].live
        BY <2>2, <1>1
      <3>2. /\ DOMAIN s.heap[d] = {"live", "refcount", "version", "entries", "impure"}
            /\ s.heap[d].live \in BOOLEAN /\ s.heap[d].impure \in BOOLEAN
        BY <1>0 DEF Shape
      <3>3. s.heap[d].refcount = 0
        BY <3>1, <1>0 DEF HeapOk
      <3> QED
        BY <3>1, <3>2, <3>3
    <2> QED
      BY <2>1, <2>2
  <1>4. Shape(t)
    <2>1. \A d \in CacheIds :
            /\ DOMAIN t.heap[d] = {"live", "refcount", "version", "entries", "impure"}
            /\ t.heap[d].live \in BOOLEAN /\ t.heap[d].impure \in BOOLEAN
            /\ t.heap[d].refcount \in Nat
      BY <1>3, 0 \in Nat, Zenon
    <2>2. t.oi \in CacheIds \cup {None} /\ t.impure \in BOOLEAN
      BY <1>0 DEF Shape
    <2>3. /\ t.fd = [f \in Fds |-> t.fd[f]]
          /\ \A f \in Fds :
               /\ DOMAIN t.fd[f] = {"open", "isReal", "isUpper", "cache", "cursor", "pos"}
               /\ t.fd[f].open \in BOOLEAN /\ t.fd[f].isReal \in BOOLEAN
               /\ t.fd[f].isUpper \in BOOLEAN /\ t.fd[f].cache \in CacheIds \cup {None}
      BY <1>0 DEF Shape
    <2> QED
      BY <2>1, <2>2, <2>3, <1>1 DEF Shape
  <1>5. FilesOk(t)
    BY <1>0, Zenon DEF FilesOk
  <1>6. HeapOk(t)
    <2>1. t.heap[t.oi].live
      BY <1>1
    <2>2. \A f \in Fds : t.fd[f].cache = None
      BY <1>2
    <2> QED
      BY <2>1, <2>2, <1>3, Zenon DEF HeapOk
  <1> QED
    BY <1>4, <1>5, <1>6 DEF CacheInv

\* A change of dir.impure alone.
LEMMA FlagStep ==
  ASSUME NEW s, CacheInv(s), NEW b \in BOOLEAN, NEW t, t = [s EXCEPT !.impure = b]
  PROVE  CacheInv(t) /\ t.fd = s.fd
  <1>0. Shape(s) /\ FilesOk(s) /\ HeapOk(s)
    BY DEF CacheInv
  <1>1. /\ DOMAIN t = {"oi", "heap", "fd", "impure"} /\ t.impure = b
        /\ t.oi = s.oi /\ t.heap = s.heap /\ t.fd = s.fd
    BY <1>0 DEF Shape
  <1>2. Shape(t)
    BY <1>0, <1>1, Zenon DEF Shape
  <1>3. FilesOk(t)
    BY <1>0, <1>1, Zenon DEF FilesOk
  <1>4. CacheInv(t)
    BY <1>1, <1>2, <1>3, SameRefs
  <1> QED
    BY <1>1, <1>4

\* ovl_cache_get_impure.
LEMMA GetImpureStep ==
  ASSUME NEW s, CacheInv(s), ~dir.whiteouts, dir.hasUpper, ~Merge,
         NEW t, t = CacheGetImpure(s)
  PROVE  CacheInv(t) /\ t.fd = s.fd
  <1>1. CASE Current(s)
    BY <1>1 DEF CacheGetImpure
  <1>2. CASE ~Current(s)
    <2>1. PICK u : u = ImpureFreed(s)
      OBVIOUS
    <2>2. \A f \in Fds : s.fd[f].cache = None
      BY NoReaders
    <2>3. /\ CacheInv(u) /\ u.oi = None /\ u.fd = s.fd /\ u.impure = s.impure
          /\ \A c \in CacheIds : ~u.heap[c].live
      BY <2>1, <2>2, FreedStep
    <2>4. CASE ReadImpure = <<>>
      <3>1. t = [u EXCEPT !.impure = FALSE]
        BY <1>2, <2>1, <2>4 DEF CacheGetImpure
      <3>2. CacheInv(t) /\ t.fd = u.fd
        BY <3>1, <2>3, FlagStep
      <3> QED
        BY <3>2, <2>3
    <2>5. CASE ReadImpure # <<>>
      <3> DEFINE c == NewId(u)
                 y == [live |-> TRUE, refcount |-> 0, version |-> dir.version,
                       entries |-> ReadImpure, impure |-> TRUE]
      <3>1. t = [u EXCEPT !.oi = c, !.heap[c] = y]
        BY <1>2, <2>1, <2>5 DEF CacheGetImpure
      <3>2. c \in CacheIds
        BY <2>3, FreeExists
      <3>3. /\ DOMAIN y = {"live", "refcount", "version", "entries", "impure"}
            /\ y.live = TRUE /\ y.impure = TRUE /\ y.refcount = 0
        OBVIOUS
      <3>4. y.live \in BOOLEAN /\ y.live /\ y.impure \in BOOLEAN /\ y.impure
        BY <3>3, Zenon
      <3> HIDE DEF c, y
      <3>5. DOMAIN u = {"oi", "heap", "fd", "impure"}
        BY <2>3 DEF CacheInv, Shape
      <3>6. /\ DOMAIN t = {"oi", "heap", "fd", "impure"} /\ t.impure = u.impure
            /\ t.fd = u.fd /\ t.oi = c /\ t.heap = [u.heap EXCEPT ![c] = y]
        BY <3>1, <3>5
      <3>7. CacheInv(t)
        BY <2>3, <3>2, <3>3, <3>4, <3>6, ImpureMade
      <3> QED
        BY <2>3, <3>6, <3>7
    <2> QED
      BY <2>4, <2>5
  <1> QED
    BY <1>1, <1>2

-----------------------------------------------------------------------------
(* From records to states. *)

LEMMA NowFields ==
  /\ DOMAIN Now = {"oi", "heap", "fd", "impure"}
  /\ Now.oi = oiCache /\ Now.heap = heap /\ Now.fd = fd /\ Now.impure = dir.impure
  BY DEF Now

LEMMA NextFields ==
  /\ DOMAIN Now' = {"oi", "heap", "fd", "impure"}
  /\ Now'.oi = oiCache' /\ Now'.heap = heap' /\ Now'.fd = fd' /\ Now'.impure = dir'.impure
  BY DEF Now

\* A step to a record that has the invariant.
LEMMA StepTo ==
  ASSUME NEW t, CacheInv(t),
         oiCache' = t.oi, heap' = t.heap, fd' = t.fd, dir'.impure = t.impure,
         dir'.kind = dir.kind, dir'.whiteouts = dir.whiteouts, dir'.hasUpper = dir.hasUpper
  PROVE  CacheInv(Now)'
  <1>0. Shape(t) /\ FilesOk(t) /\ HeapOk(t)
    BY DEF CacheInv
  <1>1. /\ DOMAIN Now' = {"oi", "heap", "fd", "impure"}
        /\ Now'.oi = t.oi /\ Now'.heap = t.heap /\ Now'.fd = t.fd /\ Now'.impure = t.impure
    BY NextFields
  <1>2. Shape(Now)'
    BY <1>0, <1>1, Zenon DEF Shape
  <1>m. Merge' <=> Merge
    BY DEF Merge, Lower
  <1>3. FilesOk(Now)'
    BY <1>0, <1>1, <1>m, Zenon DEF FilesOk
  <1>4. \A c \in CacheIds : Readers(Now, c)' = Readers(t, c)
    BY <1>1 DEF Readers
  <1>5. HeapOk(Now)'
    BY <1>0, <1>1, <1>m, <1>4, Zenon DEF HeapOk
  <1> QED
    BY <1>2, <1>3, <1>5 DEF CacheInv

\* The part of DirInv that Becomes can touch.
LEMMA BecomesStep ==
  ASSUME DirInv, NEW t, CacheInv(t), Becomes(t), changes' = changes
  PROVE  CacheInv(Now)' /\ DirInv'
  <1>1. /\ oiCache' = t.oi /\ heap' = t.heap /\ fd' = t.fd
        /\ dir' = [dir EXCEPT !.impure = t.impure]
    BY DEF Becomes
  <1>2. t.impure \in BOOLEAN
    BY DEF CacheInv, Shape
  <1>3. /\ DOMAIN dir' = DOMAIN dir /\ dir'.impure = t.impure
        /\ dir'.kind = dir.kind /\ dir'.hasUpper = dir.hasUpper
        /\ dir'.whiteouts = dir.whiteouts
        /\ dir'.version = dir.version /\ dir'.linked = dir.linked
        /\ dir'.linking = dir.linking
    BY <1>1 DEF DirInv
  <1>4. CacheInv(Now)'
    BY <1>1, <1>3, StepTo
  <1>5. DirInv'
    BY <1>2, <1>3, Zenon DEF DirInv
  <1> QED
    BY <1>4, <1>5

LEMMA StartStep ==
  ASSUME ReadDirInvariant, NEW f \in Fds, NEW s, s = AtStart(f)
  PROVE  /\ CacheInv(s) /\ s.fd[f].open = fd[f].open /\ s.fd[f].isUpper = fd[f].isUpper
  <1>0. CacheInv(Now) /\ dir.whiteouts \in BOOLEAN
    BY DEF ReadDirInvariant, DirInv
  <1>1. PICK n : n = Now
    OBVIOUS
  <1>2. n.fd = fd /\ CacheInv(n)
    BY <1>0, <1>1, NowFields
  <1>3. CASE fd[f].pos = 0
    <2>1. s = DirReset(n, f)
      BY <1>1, <1>3 DEF AtStart
    <2>2. /\ CacheInv(s) /\ s.impure = n.impure
          /\ s.fd[f].open = n.fd[f].open /\ s.fd[f].isUpper = n.fd[f].isUpper
          /\ s.fd[f].isReal <=> n.fd[f].isReal /\ ~dir.whiteouts
      BY <1>0, <1>2, <2>1, ResetStep
    <2> QED
      BY <1>2, <2>2
  <1>4. CASE fd[f].pos # 0
    BY <1>1, <1>2, <1>4 DEF AtStart
  <1> QED
    BY <1>3, <1>4

\* The position of a file and its cursor do not matter.
LEMMA PosStep ==
  ASSUME NEW s, CacheInv(s), NEW f \in Fds, NEW p
  PROVE  CacheInv([s EXCEPT !.fd[f].pos = p])
  <1>t. PICK t : t = [s EXCEPT !.fd[f].pos = p]
    OBVIOUS
  <1>0. Shape(s) /\ FilesOk(s)
    BY DEF CacheInv
  <1>1. /\ DOMAIN s = {"oi", "heap", "fd", "impure"} /\ s.fd = [g \in Fds |-> s.fd[g]]
        /\ DOMAIN s.fd[f] = {"open", "isReal", "isUpper", "cache", "cursor", "pos"}
    BY <1>0 DEF Shape
  <1> DEFINE x == [s.fd[f] EXCEPT !.pos = p]
  <1>2. /\ DOMAIN t = {"oi", "heap", "fd", "impure"} /\ t.impure = s.impure
        /\ t.oi = s.oi /\ t.heap = s.heap
    BY <1>t, <1>1
  <1>3. t.fd = [s.fd EXCEPT ![f] = x]
    BY <1>t, <1>1
  <1>4. /\ DOMAIN x = {"open", "isReal", "isUpper", "cache", "cursor", "pos"}
        /\ x.open = s.fd[f].open /\ x.isReal = s.fd[f].isReal
        /\ x.isUpper = s.fd[f].isUpper /\ x.cache = s.fd[f].cache
    BY <1>1
  <1> HIDE DEF x
  <1>5. /\ x.open \in BOOLEAN /\ x.isReal \in BOOLEAN /\ x.isUpper \in BOOLEAN
        /\ x.cache # None => x.open /\ ~x.isReal
        /\ x.open /\ ~x.isReal => dir.whiteouts
        /\ x.open /\ x.isReal /\ x.isUpper => ~dir.whiteouts \/ Merge
        /\ x.isUpper => dir.hasUpper
    BY <1>0, <1>4, Zenon DEF Shape, FilesOk
  <1>6. t.impure \in BOOLEAN
    BY <1>0, <1>2 DEF Shape
  <1>7. CacheInv(t)
    BY <1>2, <1>3, <1>4, <1>5, <1>6, FileChanged
  <1> QED
    BY <1>t, <1>7

LEMMA CursorStep ==
  ASSUME NEW s, CacheInv(s), NEW f \in Fds, NEW p
  PROVE  CacheInv([s EXCEPT !.fd[f].cursor = p])
  <1>t. PICK t : t = [s EXCEPT !.fd[f].cursor = p]
    OBVIOUS
  <1>0. Shape(s) /\ FilesOk(s)
    BY DEF CacheInv
  <1>1. /\ DOMAIN s = {"oi", "heap", "fd", "impure"} /\ s.fd = [g \in Fds |-> s.fd[g]]
        /\ DOMAIN s.fd[f] = {"open", "isReal", "isUpper", "cache", "cursor", "pos"}
    BY <1>0 DEF Shape
  <1> DEFINE x == [s.fd[f] EXCEPT !.cursor = p]
  <1>2. /\ DOMAIN t = {"oi", "heap", "fd", "impure"} /\ t.impure = s.impure
        /\ t.oi = s.oi /\ t.heap = s.heap
    BY <1>t, <1>1
  <1>3. t.fd = [s.fd EXCEPT ![f] = x]
    BY <1>t, <1>1
  <1>4. /\ DOMAIN x = {"open", "isReal", "isUpper", "cache", "cursor", "pos"}
        /\ x.open = s.fd[f].open /\ x.isReal = s.fd[f].isReal
        /\ x.isUpper = s.fd[f].isUpper /\ x.cache = s.fd[f].cache
    BY <1>1
  <1> HIDE DEF x
  <1>5. /\ x.open \in BOOLEAN /\ x.isReal \in BOOLEAN /\ x.isUpper \in BOOLEAN
        /\ x.cache # None => x.open /\ ~x.isReal
        /\ x.open /\ ~x.isReal => dir.whiteouts
        /\ x.open /\ x.isReal /\ x.isUpper => ~dir.whiteouts \/ Merge
        /\ x.isUpper => dir.hasUpper
    BY <1>0, <1>4, Zenon DEF Shape, FilesOk
  <1>6. t.impure \in BOOLEAN
    BY <1>0, <1>2 DEF Shape
  <1>7. CacheInv(t)
    BY <1>2, <1>3, <1>4, <1>5, <1>6, FileChanged
  <1> QED
    BY <1>t, <1>7

\* Nor do the entries of a cache.
LEMMA EntriesStep ==
  ASSUME NEW s, CacheInv(s), NEW c, NEW e
  PROVE  CacheInv([s EXCEPT !.heap[c].entries = e])
  <1>t. PICK t : t = [s EXCEPT !.heap[c].entries = e]
    OBVIOUS
  <1>0. Shape(s) /\ FilesOk(s)
    BY DEF CacheInv
  <1>1. DOMAIN s = {"oi", "heap", "fd", "impure"}
    BY <1>0 DEF Shape
  <1>2. /\ DOMAIN t = {"oi", "heap", "fd", "impure"} /\ t.impure = s.impure
        /\ t.oi = s.oi /\ t.fd = s.fd
        /\ t.heap = [s.heap EXCEPT ![c] = [s.heap[c] EXCEPT !.entries = e]]
    BY <1>t, <1>1
  <1>3. t.heap = [d \in CacheIds |-> t.heap[d]]
    BY <1>0, <1>2 DEF Shape
  <1>4. ASSUME NEW d \in CacheIds
        PROVE  /\ DOMAIN t.heap[d] = {"live", "refcount", "version", "entries", "impure"}
               /\ t.heap[d].live = s.heap[d].live /\ t.heap[d].impure = s.heap[d].impure
               /\ t.heap[d].refcount = s.heap[d].refcount
    <2>1. /\ DOMAIN s.heap[d] = {"live", "refcount", "version", "entries", "impure"}
          /\ s.heap = [g \in CacheIds |-> s.heap[g]]
      BY <1>0 DEF Shape
    <2>2. CASE d = c
      <3>1. t.heap[d] = [s.heap[d] EXCEPT !.entries = e]
        BY <2>1, <2>2, <1>2
      <3> QED
        BY <2>1, <3>1
    <2>3. CASE d # c
      <3>1. t.heap[d] = s.heap[d]
        BY <2>1, <2>3, <1>2
      <3> QED
        BY <2>1, <3>1
    <2> QED
      BY <2>2, <2>3
  <1>5. Shape(t)
    <2>1. \A d \in CacheIds :
            /\ DOMAIN t.heap[d] = {"live", "refcount", "version", "entries", "impure"}
            /\ t.heap[d].live \in BOOLEAN /\ t.heap[d].impure \in BOOLEAN
            /\ t.heap[d].refcount \in Nat
      BY <1>0, <1>4, Zenon DEF Shape
    <2>2. /\ t.fd = [f \in Fds |-> t.fd[f]] /\ t.impure \in BOOLEAN
          /\ t.oi \in CacheIds \cup {None}
          /\ \A f \in Fds :
               /\ DOMAIN t.fd[f] = {"open", "isReal", "isUpper", "cache", "cursor", "pos"}
               /\ t.fd[f].open \in BOOLEAN /\ t.fd[f].isReal \in BOOLEAN
               /\ t.fd[f].isUpper \in BOOLEAN /\ t.fd[f].cache \in CacheIds \cup {None}
      BY <1>0, <1>2 DEF Shape
    <2> QED
      BY <2>1, <2>2, <1>2, <1>3 DEF Shape
  <1>6. FilesOk(t)
    BY <1>0, <1>2, Zenon DEF FilesOk
  <1>7. /\ \A g \in Fds : t.fd[g].cache = s.fd[g].cache
        /\ \A d \in CacheIds : /\ t.heap[d].live = s.heap[d].live
                               /\ t.heap[d].refcount = s.heap[d].refcount
                               /\ t.heap[d].impure = s.heap[d].impure
    BY <1>2, <1>4
  <1>8. CacheInv(t)
    BY <1>2, <1>5, <1>6, <1>7, SameRefs
  <1> QED
    BY <1>t, <1>8

-----------------------------------------------------------------------------
(* The calls on an open directory. *)

LEMMA NowInv ==
  ASSUME ReadDirInvariant
  PROVE  /\ DirInv /\ CacheInv(Now) /\ Now.fd = fd /\ Now.oi = oiCache /\ Now.heap = heap
         /\ Now.impure = dir.impure /\ dir.whiteouts \in BOOLEAN
  BY NowFields DEF ReadDirInvariant, DirInv

\* A file that uses the impure cache of a merged directory is recorded.
LEMMA NotMixed ==
  ASSUME ~mixed', NEW f \in Fds, ImpureUsed(f), IsImpureDir(f)
  PROVE  ~Merge
  BY DEF ImpureUsed

LEMMA IterateRealStep ==
  ASSUME ReadDirInvariant, NEW f \in Fds, IterateReal(f), ~mixed'
  PROVE  ReadDirInvariant'
  <1>1. PICK a : a = AtStart(f)
    OBVIOUS
  <1>2. CacheInv(a) /\ a.fd[f].open = fd[f].open /\ a.fd[f].isUpper = fd[f].isUpper
    BY <1>1, StartStep
  <1>3. fd[f].open /\ a.fd[f].isReal /\ changes' = changes
    BY <1>1 DEF IterateReal
  <1>4. PICK s : /\ s = IF IsImpureDir(f) THEN CacheGetImpure(a) ELSE a
                 /\ \/ \E p : Becomes([s EXCEPT !.fd[f].pos = p])
                    \/ Becomes(s)
    <2>1. PICK s \in {IF IsImpureDir(f) THEN CacheGetImpure(AtStart(f)) ELSE AtStart(f)} :
            \/ Becomes([s EXCEPT !.fd[f].pos = 1])
            \/ \E p : Becomes([s EXCEPT !.fd[f].pos = p + 1])
            \/ Becomes(s)
      BY Zenon DEF IterateReal
    <2> QED
      BY <1>1, <2>1, Zenon
  <1>5. CacheInv(s)
    <2>1. CASE IsImpureDir(f)
      <3>1. ~dir.whiteouts /\ dir.hasUpper /\ ~Merge
        <4>1. a.fd[f].isUpper /\ FilesOk(a)
          BY <2>1, <1>2 DEF IsImpureDir, CacheInv
        <4>2. ImpureUsed(f)
          BY Zenon DEF IterateReal
        <4>3. ~Merge
          BY <4>2, <2>1, NotMixed
        <4> QED
          BY <4>1, <4>3, <1>2, <1>3 DEF FilesOk
      <3>2. s = CacheGetImpure(a)
        BY <2>1, <1>4
      <3>3. CacheInv(s) /\ s.fd = a.fd
        BY <3>1, <3>2, <1>2, GetImpureStep
      <3> QED
        BY <3>3
    <2>2. CASE ~IsImpureDir(f)
      BY <2>2, <1>2, <1>4
    <2> QED
      BY <2>1, <2>2
  <1>6. \E t : CacheInv(t) /\ Becomes(t)
    <2>1. ASSUME NEW p, Becomes([s EXCEPT !.fd[f].pos = p])
          PROVE  \E t : CacheInv(t) /\ Becomes(t)
      <3>1. CacheInv([s EXCEPT !.fd[f].pos = p])
        BY <1>5, PosStep
      <3> QED
        BY <2>1, <3>1
    <2> QED
      BY <1>4, <1>5, <2>1
  <1>7. PICK t : CacheInv(t) /\ Becomes(t)
    BY <1>6
  <1>8. CacheInv(Now)' /\ DirInv'
    BY <1>3, <1>7, NowInv, BecomesStep
  <1> QED
    BY <1>8 DEF ReadDirInvariant

LEMMA IterateMergedStep ==
  ASSUME ReadDirInvariant, NEW f \in Fds, IterateMerged(f)
  PROVE  ReadDirInvariant'
  <1>1. PICK a : a = AtStart(f)
    OBVIOUS
  <1>2. CacheInv(a) /\ a.fd[f].open = fd[f].open /\ a.fd[f].isUpper = fd[f].isUpper
    BY <1>1, StartStep
  <1>3. fd[f].open /\ ~a.fd[f].isReal /\ changes' = changes
    BY <1>1 DEF IterateMerged
  <1>4. PICK s : /\ s = IF a.fd[f].cache = None THEN CacheGet(a, f) ELSE a
                 /\ \E c, e, k, m :
                      Becomes([s EXCEPT !.heap[c].entries = e, !.fd[f].cursor = k,
                                        !.fd[f].pos = @ + (k - m)])
    <2>1. PICK s \in {IF AtStart(f).fd[f].cache = None THEN CacheGet(AtStart(f), f)
                      ELSE AtStart(f)} :
            \E c, e, k, m :
              Becomes([s EXCEPT !.heap[c].entries = e, !.fd[f].cursor = k,
                                !.fd[f].pos = @ + (k - m)])
      BY Zenon DEF IterateMerged
    <2> QED
      BY <1>1, <2>1, Zenon
  <1>5. CacheInv(s)
    <2>1. CASE a.fd[f].cache = None
      <3>1. dir.whiteouts
        BY <1>2, <1>3 DEF CacheInv, FilesOk
      <3>2. s = CacheGet(a, f)
        BY <2>1, <1>4
      <3>3. a.fd[f].open
        BY <1>2, <1>3
      <3>4. CacheInv(s) /\ s.fd[f].cache \in CacheIds
        BY <2>1, <3>1, <3>2, <3>3, <1>2, <1>3, GetStep
      <3> QED
        BY <3>4
    <2>2. CASE a.fd[f].cache # None
      BY <2>2, <1>2, <1>4
    <2> QED
      BY <2>1, <2>2
  <1>6. \E t : CacheInv(t) /\ Becomes(t)
    <2>1. PICK c, e, k, m :
            Becomes([s EXCEPT !.heap[c].entries = e, !.fd[f].cursor = k,
                              !.fd[f].pos = @ + (k - m)])
      BY <1>4
    <2>2. PICK u : u = [s EXCEPT !.heap[c].entries = e]
      OBVIOUS
    <2>3. PICK v : v = [u EXCEPT !.fd[f].cursor = k]
      OBVIOUS
    <2>4. PICK p : p = v.fd[f].pos + (k - m)
      OBVIOUS
    <2>5. [s EXCEPT !.heap[c].entries = e, !.fd[f].cursor = k, !.fd[f].pos = @ + (k - m)]
            = [v EXCEPT !.fd[f].pos = p]
      BY <2>2, <2>3, <2>4
    <2>6. CacheInv(u)
      BY <1>5, <2>2, EntriesStep
    <2>7. CacheInv(v)
      BY <2>3, <2>6, CursorStep
    <2>8. CacheInv([v EXCEPT !.fd[f].pos = p])
      BY <2>7, PosStep
    <2> QED
      BY <2>1, <2>5, <2>8
  <1>7. PICK t : CacheInv(t) /\ Becomes(t)
    BY <1>6
  <1>8. CacheInv(Now)' /\ DirInv'
    BY <1>3, <1>7, NowInv, BecomesStep
  <1> QED
    BY <1>8 DEF ReadDirInvariant

LEMMA OiCleared ==
  ASSUME NEW s, CacheInv(s), dir.whiteouts
  PROVE  CacheInv([s EXCEPT !.oi = None])
  <1>t. PICK t : t = [s EXCEPT !.oi = None]
    OBVIOUS
  <1>0. Shape(s) /\ FilesOk(s) /\ HeapOk(s)
    BY DEF CacheInv
  <1>1. /\ DOMAIN t = {"oi", "heap", "fd", "impure"} /\ t.impure = s.impure
        /\ t.oi = None /\ t.heap = s.heap /\ t.fd = s.fd
    BY <1>t, <1>0 DEF Shape
  <1>2. Shape(t)
    <2>1. t.oi \in CacheIds \cup {None}
      BY <1>1
    <2> QED
      BY <2>1, <1>0, <1>1, Zenon DEF Shape
  <1>3. FilesOk(t)
    BY <1>0, <1>1, Zenon DEF FilesOk
  <1>4. \A c \in CacheIds : Readers(t, c) = Readers(s, c)
    BY <1>1 DEF Readers
  <1>5. HeapOk(t)
    BY <1>0, <1>1, <1>4, Zenon DEF HeapOk
  <1>6. CacheInv(t)
    BY <1>2, <1>3, <1>5 DEF CacheInv
  <1> QED
    BY <1>t, <1>6

LEMMA ReadFailsStep ==
  ASSUME ReadDirInvariant, NEW f \in Fds, ReadFails(f), ~mixed'
  PROVE  ReadDirInvariant'
  <1>1. PICK s : s = AtStart(f)
    OBVIOUS
  <1>2. CacheInv(s) /\ s.fd[f].open = fd[f].open /\ s.fd[f].isUpper = fd[f].isUpper
    BY <1>1, StartStep
  <1>3. /\ fd[f].open /\ changes' = changes
        /\ IF s.fd[f].isReal THEN IsImpureDir(f) ELSE s.fd[f].cache = None
        /\ Becomes(IF s.fd[f].isReal THEN ImpureFreed(s) ELSE [s EXCEPT !.oi = None])
    BY <1>1, Zenon DEF ReadFails
  <1>4. FilesOk(s)
    BY <1>2 DEF CacheInv
  <1>5. PICK t : CacheInv(t) /\ Becomes(t)
    <2>1. CASE s.fd[f].isReal
      <3>0. ImpureUsed(f)
        BY <2>1, <1>1, Zenon DEF ReadFails
      <3>m. ~Merge
        BY <3>0, <2>1, <1>3, NotMixed
      <3>1. ~dir.whiteouts
        BY <2>1, <3>m, <1>2, <1>3, <1>4 DEF FilesOk, IsImpureDir
      <3>2. \A g \in Fds : s.fd[g].cache = None
        BY <3>1, <1>2, NoReaders
      <3>3. PICK t : t = ImpureFreed(s)
        OBVIOUS
      <3>4. /\ CacheInv(t) /\ t.oi = None /\ t.fd = s.fd /\ t.impure = s.impure
            /\ \A c \in CacheIds : ~t.heap[c].live
        BY <3>2, <3>3, <1>2, FreedStep
      <3>5. Becomes(t)
        BY <2>1, <3>3, <1>3
      <3> QED
        BY <3>4, <3>5
    <2>2. CASE ~s.fd[f].isReal
      <3>1. dir.whiteouts
        BY <2>2, <1>2, <1>3, <1>4 DEF FilesOk
      <3>2. CacheInv([s EXCEPT !.oi = None])
        BY <3>1, <1>2, OiCleared
      <3>3. Becomes([s EXCEPT !.oi = None])
        BY <2>2, <1>3
      <3> QED
        BY <3>2, <3>3
    <2> QED
      BY <2>1, <2>2
  <1>6. CacheInv(Now)' /\ DirInv'
    BY <1>3, <1>5, NowInv, BecomesStep
  <1> QED
    BY <1>6 DEF ReadDirInvariant

LEMMA LlseekStep ==
  ASSUME ReadDirInvariant, NEW f \in Fds, NEW off \in SeekTo, Llseek(f, off)
  PROVE  ReadDirInvariant'
  <1>1. PICK s : s = AtStart(f)
    OBVIOUS
  <1>2. CacheInv(s) /\ s.fd[f].open = fd[f].open /\ s.fd[f].isUpper = fd[f].isUpper
    BY <1>1, StartStep
  <1> DEFINE c == s.fd[f].cache
  <1>3. /\ changes' = changes
        /\ Becomes([s EXCEPT !.fd[f].pos = off,
                             !.fd[f].cursor = IF s.fd[f].isReal \/ c = None THEN @
                                              ELSE SeekCursor(s.heap[c].entries, off)])
    BY <1>1, Zenon DEF Llseek
  <1>4. PICK u : u = [s EXCEPT !.fd[f].pos = off]
    OBVIOUS
  <1>5. PICK k : k = IF s.fd[f].isReal \/ c = None THEN u.fd[f].cursor
                     ELSE SeekCursor(s.heap[c].entries, off)
    OBVIOUS
  <1>6. Becomes([u EXCEPT !.fd[f].cursor = k])
    BY <1>3, <1>4, <1>5
  <1>7. CacheInv(u)
    BY <1>2, <1>4, PosStep
  <1>8. CacheInv([u EXCEPT !.fd[f].cursor = k])
    BY <1>7, CursorStep
  <1>9. PICK t : CacheInv(t) /\ Becomes(t)
    BY <1>6, <1>8
  <1>10. CacheInv(Now)' /\ DirInv'
    BY <1>3, <1>9, NowInv, BecomesStep
  <1> QED
    BY <1>10 DEF ReadDirInvariant

\* A file that has no cache is closed.
LEMMA CloseStep ==
  ASSUME NEW s, CacheInv(s), NEW f \in Fds, s.fd[f].cache = None
  PROVE  CacheInv([s EXCEPT !.fd[f] = Closed])
  <1>t. PICK t : t = [s EXCEPT !.fd[f] = Closed]
    OBVIOUS
  <1>0. Shape(s)
    BY DEF CacheInv
  <1>1. /\ DOMAIN t = {"oi", "heap", "fd", "impure"} /\ t.impure = s.impure
        /\ t.oi = s.oi /\ t.heap = s.heap /\ t.fd = [s.fd EXCEPT ![f] = Closed]
    BY <1>t, <1>0 DEF Shape
  <1>2. PICK x : x = Closed
    OBVIOUS
  <1>3. /\ DOMAIN x = {"open", "isReal", "isUpper", "cache", "cursor", "pos"}
        /\ x.open \in BOOLEAN /\ x.isReal \in BOOLEAN /\ x.isUpper \in BOOLEAN
        /\ ~x.open /\ ~x.isUpper /\ x.cache = None
    BY <1>2, ClosedFields, Zenon
  <1>4. t.fd = [s.fd EXCEPT ![f] = x] /\ t.impure \in BOOLEAN
    BY <1>0, <1>1, <1>2 DEF Shape
  <1>5. CacheInv(t)
    BY <1>1, <1>3, <1>4, FileChanged
  <1> QED
    BY <1>t, <1>5

LEMMA ReleaseStep ==
  ASSUME ReadDirInvariant, NEW f \in Fds, Release(f)
  PROVE  ReadDirInvariant'
  <1>1. PICK n : n = Now
    OBVIOUS
  <1>2. CacheInv(n) /\ n.fd = fd
    BY <1>1, NowInv
  <1>3. PICK s : /\ s = IF fd[f].cache = None THEN n ELSE CachePut(n, f)
                 /\ Becomes([s EXCEPT !.fd[f] = Closed])
    BY <1>1, Zenon DEF Release
  <1>4. CacheInv(s) /\ s.fd[f].cache = None
    <2>1. CASE fd[f].cache = None
      BY <2>1, <1>2, <1>3
    <2>2. CASE fd[f].cache # None
      <3>1. s = CachePut(n, f) /\ n.fd[f].cache # None
        BY <2>2, <1>2, <1>3
      <3>2. /\ CacheInv(s) /\ s.fd[f].cache = None
            /\ s.fd[f].open = n.fd[f].open /\ s.fd[f].isReal = n.fd[f].isReal
            /\ s.fd[f].isUpper = n.fd[f].isUpper /\ s.impure = n.impure
        BY <3>1, <1>2, PutStep
      <3> QED
        BY <3>2
    <2> QED
      BY <2>1, <2>2
  <1>5. CacheInv([s EXCEPT !.fd[f] = Closed])
    BY <1>4, CloseStep
  <1>6. PICK t : CacheInv(t) /\ Becomes(t)
    BY <1>3, <1>5
  <1>7. changes' = changes
    BY DEF Release
  <1>8. CacheInv(Now)' /\ DirInv'
    BY <1>6, <1>7, NowInv, BecomesStep
  <1> QED
    BY <1>8 DEF ReadDirInvariant

LEMMA OpenStep ==
  ASSUME ReadDirInvariant, NEW f \in Fds, Open(f)
  PROVE  ReadDirInvariant'
  <1>1. PICK s : s = Now
    OBVIOUS
  <1>2. /\ CacheInv(s) /\ s.fd = fd /\ s.oi = oiCache /\ s.heap = heap
        /\ s.impure = dir.impure /\ DirInv /\ dir.whiteouts \in BOOLEAN
        /\ dir.hasUpper \in BOOLEAN
    BY <1>1, NowInv DEF DirInv
  <1>3. Shape(s) /\ FilesOk(s)
    BY <1>2 DEF CacheInv
  <1> DEFINE b == ~dir.whiteouts
  <1>b. b \in BOOLEAN /\ (b <=> ~dir.whiteouts)
    OBVIOUS
  <1>4. PICK x : x = [Closed EXCEPT !.open = TRUE, !.isReal = b, !.isUpper = dir.hasUpper]
    OBVIOUS
  <1>5. /\ ~fd[f].open /\ fd' = [fd EXCEPT ![f] = x] /\ changes' = changes
        /\ dir' = dir /\ oiCache' = oiCache /\ heap' = heap
    BY <1>4 DEF Open
  <1> HIDE DEF b
  <1>6. /\ DOMAIN x = {"open", "isReal", "isUpper", "cache", "cursor", "pos"}
        /\ x.open = TRUE /\ x.isReal = b /\ x.isUpper = dir.hasUpper /\ x.cache = None
    BY <1>4, ClosedFields
  <1>7. s.fd[f].cache = None
    BY <1>2, <1>3, <1>5 DEF FilesOk
  <1>8. PICK t : t = [oi |-> oiCache, heap |-> heap, fd |-> fd', impure |-> dir.impure]
    OBVIOUS
  <1>9. /\ DOMAIN t = {"oi", "heap", "fd", "impure"} /\ t.impure = dir.impure
        /\ t.oi = s.oi /\ t.heap = s.heap /\ t.fd = [s.fd EXCEPT ![f] = x]
        /\ t.fd = fd'
    BY <1>2, <1>5, <1>8
  <1>10. /\ x.open \in BOOLEAN /\ x.isReal \in BOOLEAN /\ x.isUpper \in BOOLEAN
         /\ x.cache # None => x.open /\ ~x.isReal
         /\ x.open /\ ~x.isReal => dir.whiteouts
         /\ x.open /\ x.isReal /\ x.isUpper => ~dir.whiteouts \/ Merge
         /\ x.isUpper => dir.hasUpper
    BY <1>2, <1>b, <1>6, Zenon
  <1>11. t.impure \in BOOLEAN /\ x.cache = s.fd[f].cache
    BY <1>2, <1>6, <1>7, <1>9 DEF DirInv
  <1>12. CacheInv(t)
    BY <1>2, <1>6, <1>9, <1>10, <1>11, FileChanged
  <1>13. CacheInv(Now)'
    BY <1>2, <1>5, <1>9, <1>12, StepTo
  <1>14. DirInv'
    BY <1>2, <1>5 DEF DirInv
  <1> QED
    BY <1>13, <1>14 DEF ReadDirInvariant

LEMMA EvictStep ==
  ASSUME ReadDirInvariant, Evict
  PROVE  ReadDirInvariant'
  <1>1. PICK s : s = Now
    OBVIOUS
  <1>2. /\ CacheInv(s) /\ s.fd = fd /\ s.oi = oiCache /\ s.heap = heap
        /\ s.impure = dir.impure /\ DirInv
    BY <1>1, NowInv
  <1>3. PICK t : t = ImpureFreed(s)
    OBVIOUS
  <1>4. /\ \A f \in Fds : ~fd[f].open
        /\ heap' = t.heap /\ oiCache' = None /\ fd' = fd /\ changes' = changes
        /\ dir' = [dir EXCEPT !.version = 0, !.linked = {}]
    BY <1>1, <1>3 DEF Evict
  <1>5. \A f \in Fds : s.fd[f].cache = None
    BY <1>2, <1>4 DEF CacheInv, FilesOk
  <1>6. /\ CacheInv(t) /\ t.oi = None /\ t.fd = s.fd /\ t.impure = s.impure
        /\ \A c \in CacheIds : ~t.heap[c].live
    BY <1>2, <1>3, <1>5, FreedStep
  <1>7. /\ DOMAIN dir' = DOMAIN dir /\ dir'.impure = dir.impure
        /\ dir'.kind = dir.kind /\ dir'.hasUpper = dir.hasUpper
        /\ dir'.whiteouts = dir.whiteouts /\ dir'.version = 0 /\ dir'.linked = {}
        /\ dir'.linking = dir.linking
    BY <1>2, <1>4 DEF DirInv
  <1>8. CacheInv(Now)'
    BY <1>2, <1>4, <1>6, <1>7, StepTo
  <1>9. DirInv'
    <2>1. 0 \in 0 .. changes /\ {} \subseteq Names
      BY <1>2, ReadDirAssumption DEF DirInv
    <2> QED
      BY <2>1, <1>2, <1>4, <1>7, Zenon DEF DirInv
  <1> QED
    BY <1>8, <1>9 DEF ReadDirInvariant

-----------------------------------------------------------------------------
(* The changes. *)

\* A change leaves the caches alone.
LEMMA ChangeStep ==
  ASSUME ReadDirInvariant, changes < MaxChanges,
         NEW n, NEW e, NEW impure \in BOOLEAN, NEW bump \in {0, 1},
         NEW linked \in SUBSET Names, NEW linking \in SUBSET Names,
         Changed(n, e, impure, bump, linked, linking)
  PROVE  ReadDirInvariant'
  <1>1. PICK s : s = Now
    OBVIOUS
  <1>2. /\ CacheInv(s) /\ s.fd = fd /\ s.oi = oiCache /\ s.heap = heap
        /\ s.impure = dir.impure /\ DirInv
    BY <1>1, NowInv
  <1>3. PICK b : b = (dir.impure \/ impure)
    OBVIOUS
  <1>4. b \in BOOLEAN
    BY <1>3
  <1>5. PICK l : l = IF bump = 1 THEN {} ELSE dir.linked \cup linked
    OBVIOUS
  <1>k. PICK k : k = dir.linking \cup linking
    OBVIOUS
  <1>6. /\ dir' = [dir EXCEPT !.upper[n] = e, !.impure = b, !.version = @ + bump,
                              !.linking = k, !.linked = l]
        /\ changes' = changes + 1 /\ oiCache' = oiCache /\ heap' = heap /\ fd' = fd
    BY <1>3, <1>5, <1>k DEF Changed
  <1>7. /\ DOMAIN dir' = DOMAIN dir /\ dir'.impure = b
        /\ dir'.kind = dir.kind /\ dir'.hasUpper = dir.hasUpper
        /\ dir'.whiteouts = dir.whiteouts /\ dir'.version = dir.version + bump
        /\ dir'.linked = l /\ dir'.linking = k
    BY <1>2, <1>6 DEF DirInv
  <1>8. PICK t : t = [s EXCEPT !.impure = b]
    OBVIOUS
  <1>9. CacheInv(t) /\ t.fd = s.fd
    BY <1>2, <1>4, <1>8, FlagStep
  <1>10. t.oi = s.oi /\ t.heap = s.heap /\ t.impure = b
    BY <1>2, <1>8 DEF CacheInv, Shape
  <1>11. CacheInv(Now)'
    BY <1>2, <1>6, <1>7, <1>9, <1>10, StepTo
  <1>12. DirInv'
    <2>1. changes' \in 0 .. MaxChanges /\ dir'.version \in 0 .. changes'
      BY <1>2, <1>6, <1>7, ReadDirAssumption DEF DirInv
    <2>2. l \subseteq Names /\ k \subseteq Names
      BY <1>2, <1>5, <1>k DEF DirInv
    <2> QED
      BY <2>1, <2>2, <1>2, <1>4, <1>7, Zenon DEF DirInv
  <1> QED
    BY <1>11, <1>12 DEF ReadDirInvariant

LEMMA Bumps ==
  ASSUME NEW impurity
  PROVE  VersionInc(impurity) \in {0, 1}
  BY DEF VersionInc

LEMMA ChangesStep ==
  ASSUME ReadDirInvariant, NEW n \in Names,
         \/ CopyUpChild(n) \/ Create(n) \/ Link(n) \/ Unlink(n)
         \/ \E origin \in BOOLEAN : MoveIn(n, origin)
  PROVE  ReadDirInvariant'
  <1>0. {} \in SUBSET Names /\ {n} \in SUBSET Names
    OBVIOUS
  <1>1. CASE CopyUpChild(n)
    <2>1. PICK e : e = Obj(FreshIno, StIno(Layers, n))
      OBVIOUS
    <2>2. changes < MaxChanges /\ Changed(n, e, TRUE, 0, {}, {n})
      BY <1>1, <2>1 DEF CopyUpChild, MayChange
    <2> QED
      BY <2>2, <1>0, ChangeStep
  <1>2. CASE Create(n)
    <2>1. PICK e, bump : e = Obj(FreshIno, FreshIno) /\ bump = VersionInc(FALSE)
      OBVIOUS
    <2>2. changes < MaxChanges /\ Changed(n, e, FALSE, bump, {}, {})
      BY <1>2, <2>1 DEF Create, MayChange
    <2> QED
      BY <2>1, <2>2, <1>0, Bumps, ChangeStep
  <1>3. CASE Link(n)
    <2>1. PICK e, bump : e = Obj(FreshIno, FreshIno + 1) /\ bump = VersionInc(FALSE)
      OBVIOUS
    <2>2. changes < MaxChanges /\ Changed(n, e, TRUE, bump, {n}, {})
      BY <1>3, <2>1 DEF Link, MayChange
    <2> QED
      BY <2>1, <2>2, <1>0, Bumps, ChangeStep
  <1>4. CASE Unlink(n)
    <2>1. PICK a, b : a = VersionInc(TRUE) /\ b = VersionInc(HasOrigin(dir.upper[n]))
      OBVIOUS
    <2>2. /\ changes < MaxChanges
          /\ Changed(n, Wh, FALSE, a, {}, {}) \/ Changed(n, Gone, FALSE, b, {}, {})
      BY <1>4, <2>1 DEF Unlink, MayChange
    <2>3. a \in {0, 1} /\ b \in {0, 1}
      BY <2>1, Bumps
    <2> QED
      BY <2>2, <2>3, <1>0, ChangeStep
  <1>5. ASSUME NEW origin \in BOOLEAN, MoveIn(n, origin)
        PROVE  ReadDirInvariant'
    <2>1. PICK e, bump :
            /\ e = Obj(FreshIno, IF origin THEN FreshIno + 1 ELSE FreshIno)
            /\ bump = VersionInc(origin \/ HasOrigin(TopNode(Layers, n)))
      OBVIOUS
    <2>2. changes < MaxChanges /\ Changed(n, e, origin, bump, {}, {})
      BY <1>5, <2>1 DEF MoveIn, MayChange
    <2> QED
      BY <2>1, <2>2, <1>0, Bumps, ChangeStep
  <1> QED
    BY <1>1, <1>2, <1>3, <1>4, <1>5

\* A step that changes the flags of the directory, or the names being copied up, alone.
LEMMA FlagsStep ==
  ASSUME ReadDirInvariant, NEW u \in BOOLEAN, NEW w \in BOOLEAN, NEW k \in SUBSET Names,
         dir' = [dir EXCEPT !.hasUpper = u, !.whiteouts = w, !.linking = k],
         oiCache' = oiCache, heap' = heap, fd' = fd, changes' \in changes .. MaxChanges,
         FilesOk(Now)', HeapOk(Now)'
  PROVE  ReadDirInvariant'
  <1>1. PICK s : s = Now
    OBVIOUS
  <1>2. /\ CacheInv(s) /\ s.fd = fd /\ s.oi = oiCache /\ s.heap = heap
        /\ s.impure = dir.impure /\ DirInv
    BY <1>1, NowInv
  <1>3. /\ DOMAIN dir' = DOMAIN dir /\ dir'.impure = dir.impure
        /\ dir'.kind = dir.kind /\ dir'.hasUpper = u /\ dir'.linking = k
        /\ dir'.whiteouts = w /\ dir'.version = dir.version /\ dir'.linked = dir.linked
    BY <1>2 DEF DirInv
  <1>4. /\ DOMAIN Now' = {"oi", "heap", "fd", "impure"}
        /\ Now'.oi = s.oi /\ Now'.heap = s.heap /\ Now'.fd = s.fd /\ Now'.impure = s.impure
    BY <1>2, <1>3, NextFields
  <1>5. Shape(Now)'
    <2>1. Shape(s)
      BY <1>2 DEF CacheInv
    <2> QED
      BY <2>1, <1>4, Zenon DEF Shape
  <1>6. DirInv'
    <2>1. changes' \in 0 .. MaxChanges /\ dir'.version \in 0 .. changes'
      BY <1>2, <1>3, ReadDirAssumption DEF DirInv
    <2>2. dir'.linking \subseteq Names
      BY <1>3
    <2> QED
      BY <2>1, <2>2, <1>2, <1>3, Zenon DEF DirInv
  <1> QED
    BY <1>5, <1>6 DEF ReadDirInvariant, CacheInv

\* No file of a directory without an upper one was opened on it, and no cache is impure:
\* the directory may get an upper one.
LEMMA CopyUpDirStep ==
  ASSUME ReadDirInvariant, CopyUpDir
  PROVE  ReadDirInvariant'
  <1>1. PICK s : s = Now
    OBVIOUS
  <1>2. /\ CacheInv(s) /\ s.fd = fd /\ s.oi = oiCache /\ s.heap = heap
        /\ s.impure = dir.impure /\ DirInv
    BY <1>1, NowInv
  <1>3. Shape(s) /\ FilesOk(s) /\ HeapOk(s)
    BY <1>2 DEF CacheInv
  <1>4. /\ ~dir.hasUpper /\ changes < MaxChanges /\ changes' = changes + 1
        /\ dir' = [dir EXCEPT !.hasUpper = TRUE]
        /\ oiCache' = oiCache /\ heap' = heap /\ fd' = fd
    BY DEF CopyUpDir
  <1>5. /\ dir'.whiteouts = dir.whiteouts /\ dir'.hasUpper = TRUE
        /\ dir' = [dir EXCEPT !.hasUpper = TRUE, !.whiteouts = dir.whiteouts,
                              !.linking = dir.linking]
    BY <1>2, <1>4 DEF DirInv
  <1>6. Now'.oi = s.oi /\ Now'.heap = s.heap /\ Now'.fd = s.fd
    BY <1>2, <1>4, NextFields
  <1>8. FilesOk(Now)'
    <2>1. \A f \in Fds : /\ ~s.fd[f].isUpper
                         /\ s.fd[f].cache # None => s.fd[f].open /\ ~s.fd[f].isReal
                         /\ s.fd[f].open /\ ~s.fd[f].isReal => dir.whiteouts
      BY <1>3, <1>4, Zenon DEF FilesOk
    <2> QED
      BY <2>1, <1>5, <1>6, Zenon DEF FilesOk
  <1>9. \A c \in CacheIds : Readers(Now, c)' = Readers(s, c)
    BY <1>6 DEF Readers
  <1>10. HeapOk(Now)'
    <2>1. \A c \in CacheIds : s.heap[c].live => ~s.heap[c].impure
      BY <1>3, <1>4, Zenon DEF HeapOk
    <2> QED
      BY <2>1, <1>3, <1>5, <1>6, <1>9, Zenon DEF HeapOk
  <1>11. /\ dir.whiteouts \in BOOLEAN /\ dir.linking \in SUBSET Names
         /\ changes' \in changes .. MaxChanges
    BY <1>2, <1>4, ReadDirAssumption DEF DirInv
  <1> QED
    BY <1>4, <1>5, <1>8, <1>10, <1>11, FlagsStep

\* Before OVL_WHITEOUTS is set there is no merged cache, and no impure one of a merged
\* directory: none that the next reader could take for the other kind.
LEMMA CopyUpDirDoneStep ==
  ASSUME ReadDirInvariant, CopyUpDirDone
  PROVE  ReadDirInvariant'
  <1>1. PICK s : s = Now
    OBVIOUS
  <1>2. /\ CacheInv(s) /\ s.fd = fd /\ s.oi = oiCache /\ s.heap = heap
        /\ s.impure = dir.impure /\ DirInv
    BY <1>1, NowInv
  <1>3. Shape(s) /\ FilesOk(s) /\ HeapOk(s)
    BY <1>2 DEF CacheInv
  <1>4. /\ Merge /\ ~dir.whiteouts /\ changes' = changes
        /\ dir' = [dir EXCEPT !.whiteouts = TRUE]
        /\ oiCache' = oiCache /\ heap' = heap /\ fd' = fd
    BY DEF CopyUpDirDone, CopyingUp
  <1>5. /\ dir'.whiteouts = TRUE /\ dir'.hasUpper = dir.hasUpper /\ dir'.kind = dir.kind
        /\ dir' = [dir EXCEPT !.hasUpper = dir.hasUpper, !.whiteouts = TRUE,
                              !.linking = dir.linking]
    BY <1>2, <1>4 DEF DirInv
  <1>m. Merge'
    BY <1>4, <1>5 DEF Merge, Lower
  <1>6. Now'.oi = s.oi /\ Now'.heap = s.heap /\ Now'.fd = s.fd
    BY <1>2, <1>4, NextFields
  <1>8. FilesOk(Now)'
    BY <1>3, <1>5, <1>m, <1>6, Zenon DEF FilesOk
  <1>10. HeapOk(Now)'
    <2>1. \A c \in CacheIds : ~s.heap[c].live /\ s.heap[c].refcount = 0
      BY <1>3, <1>4, Zenon DEF HeapOk
    <2>2. s.oi = None
      BY <2>1, <1>3 DEF HeapOk, Shape
    <2>3. \A f \in Fds : s.fd[f].cache = None
      BY <1>2, <1>4, NoReaders
    <2> QED
      BY <2>1, <2>2, <2>3, <1>6, Zenon DEF HeapOk
  <1>11. /\ dir.hasUpper \in BOOLEAN /\ dir.linking \in SUBSET Names
         /\ changes' \in changes .. MaxChanges
    BY <1>2, <1>4, ReadDirAssumption DEF DirInv
  <1> QED
    BY <1>4, <1>5, <1>8, <1>10, <1>11, FlagsStep

LEMMA CopyUpChildDoneStep ==
  ASSUME ReadDirInvariant, NEW n \in Names, CopyUpChildDone(n)
  PROVE  ReadDirInvariant'
  <1>1. PICK s : s = Now
    OBVIOUS
  <1>2. /\ CacheInv(s) /\ s.fd = fd /\ s.oi = oiCache /\ s.heap = heap
        /\ s.impure = dir.impure /\ DirInv
    BY <1>1, NowInv
  <1>3. PICK k : k = dir.linking \ {n}
    OBVIOUS
  <1>4. /\ dir' = [dir EXCEPT !.linking = k] /\ changes' = changes
        /\ oiCache' = oiCache /\ heap' = heap /\ fd' = fd
    BY <1>3 DEF CopyUpChildDone
  <1>5. /\ dir'.impure = dir.impure /\ dir'.kind = dir.kind
        /\ dir'.hasUpper = dir.hasUpper /\ dir'.whiteouts = dir.whiteouts
        /\ dir' = [dir EXCEPT !.hasUpper = dir.hasUpper, !.whiteouts = dir.whiteouts,
                              !.linking = k]
    BY <1>2, <1>4 DEF DirInv
  <1>6. CacheInv(Now)'
    BY <1>2, <1>4, <1>5, StepTo
  <1>7. FilesOk(Now)' /\ HeapOk(Now)'
    BY <1>6 DEF CacheInv
  <1>8. /\ dir.hasUpper \in BOOLEAN /\ dir.whiteouts \in BOOLEAN /\ k \in SUBSET Names
        /\ changes' \in changes .. MaxChanges
    BY <1>2, <1>3, <1>4, ReadDirAssumption DEF DirInv
  <1> QED
    BY <1>4, <1>5, <1>7, <1>8, FlagsStep

-----------------------------------------------------------------------------
(* The specification. *)

LEMMA ReadDirInit == Init => ReadDirInvariant
  <1> SUFFICES ASSUME Init PROVE ReadDirInvariant
    OBVIOUS
  <1>1. PICK k \in Kinds :
          dir = [kind |-> k, hasUpper |-> k # "lower", upper |-> UpperDir[k],
                 whiteouts |-> \/ k \in {"merge", "former"}
                               \/ Len(LowerDir[k]) > 1,
                 impure |-> \E n \in Names : HasOrigin(UpperDir[k][n]),
                 version |-> 0, linking |-> {}, linked |-> {}]
    BY DEF Init
  <1>2. /\ oiCache = None /\ changes = 0
        /\ heap = [c \in CacheIds |-> FreeCache] /\ fd = [f \in Fds |-> Closed]
    BY DEF Init
  <1>3. DirInv
    <2>1. /\ DOMAIN dir = {"kind", "hasUpper", "upper", "whiteouts", "impure", "version",
                           "linking", "linked"}
          /\ dir.kind = k /\ dir.hasUpper \in BOOLEAN /\ dir.whiteouts \in BOOLEAN
          /\ dir.impure \in BOOLEAN /\ dir.version = 0 /\ dir.linked = {}
          /\ dir.linking = {}
      BY <1>1
    <2>2. k \in AllKinds
      BY ReadDirAssumption
    <2>3. changes \in 0 .. MaxChanges /\ dir.version \in 0 .. changes
      BY <1>2, <2>1, ReadDirAssumption
    <2> QED
      BY <2>1, <2>2, <2>3 DEF DirInv
  <1>4. PICK s : s = Now
    OBVIOUS
  <1>5. /\ DOMAIN s = {"oi", "heap", "fd", "impure"} /\ s.impure \in BOOLEAN
        /\ s.oi = None /\ s.heap = heap /\ s.fd = fd
    BY <1>2, <1>3, <1>4, NowFields DEF DirInv
  <1>6. /\ \A c \in CacheIds : s.heap[c] = FreeCache
        /\ \A f \in Fds : s.fd[f] = Closed
    BY <1>2, <1>5
  <1>7. Shape(s)
    <2>1. s.heap = [c \in CacheIds |-> s.heap[c]] /\ s.fd = [f \in Fds |-> s.fd[f]]
      BY <1>2, <1>5
    <2>2. 0 \in Nat /\ FALSE \in BOOLEAN
      OBVIOUS
    <2>3. \A c \in CacheIds :
            /\ DOMAIN s.heap[c] = {"live", "refcount", "version", "entries", "impure"}
            /\ s.heap[c].live \in BOOLEAN /\ s.heap[c].impure \in BOOLEAN
            /\ s.heap[c].refcount \in Nat
      BY <1>6, <2>2, FreeFields, Zenon
    <2>4. \A f \in Fds :
            /\ DOMAIN s.fd[f] = {"open", "isReal", "isUpper", "cache", "cursor", "pos"}
            /\ s.fd[f].open \in BOOLEAN /\ s.fd[f].isReal \in BOOLEAN
            /\ s.fd[f].isUpper \in BOOLEAN /\ s.fd[f].cache \in CacheIds \cup {None}
      BY <1>6, <2>2, ClosedFields, Zenon
    <2> QED
      BY <1>5, <2>1, <2>3, <2>4, Zenon DEF Shape
  <1>8. FilesOk(s)
    BY <1>6, ClosedFields, Zenon DEF FilesOk
  <1>9. HeapOk(s)
    BY <1>5, <1>6, FreeFields, ClosedFields, Zenon DEF HeapOk
  <1> QED
    BY <1>3, <1>4, <1>7, <1>8, <1>9 DEF ReadDirInvariant, CacheInv

LEMMA MixedStep ==
  ASSUME MixedInv, [Next]_vars
  PROVE  MixedInv' /\ (mixed => mixed')
  <1>1. CASE UNCHANGED mixed
    BY <1>1 DEF MixedInv
  <1>2. ASSUME NEW f \in Fds, ImpureUsed(f) PROVE MixedInv' /\ (mixed => mixed')
    BY <1>2 DEF ImpureUsed, MixedInv
  <1>3. ASSUME NEW f \in Fds,
               \/ Open(f) \/ IterateReal(f) \/ IterateMerged(f) \/ ReadFails(f) \/ Release(f)
               \/ \E off \in SeekTo : Llseek(f, off)
        PROVE  MixedInv' /\ (mixed => mixed')
    <2>1. CASE \/ Open(f) \/ IterateMerged(f) \/ Release(f)
               \/ \E off \in SeekTo : Llseek(f, off)
      BY <2>1, <1>1, Zenon DEF Open, IterateMerged, Release, Llseek
    <2>2. CASE IterateReal(f)
      BY <2>2, <1>2, Zenon DEF IterateReal
    <2>3. CASE ReadFails(f)
      BY <2>3, <1>1, <1>2, Zenon DEF ReadFails
    <2> QED
      BY <1>3, <2>1, <2>2, <2>3
  <1>4. CASE Evict \/ CopyUpDir \/ CopyUpDirDone
    BY <1>4, <1>1, Zenon DEF Evict, CopyUpDir, CopyUpDirDone
  <1>5. ASSUME NEW n \in Names,
               \/ CopyUpChild(n) \/ CopyUpChildDone(n) \/ Create(n) \/ Link(n) \/ Unlink(n)
               \/ \E origin \in BOOLEAN : MoveIn(n, origin)
        PROVE  MixedInv' /\ (mixed => mixed')
    <2>1. UNCHANGED mixed
      BY <1>5, Zenon DEF CopyUpChild, CopyUpChildDone, Create, Link, Unlink, MoveIn, Changed
    <2> QED
      BY <2>1, <1>1
  <1>6. CASE UNCHANGED vars \/ Undefined
    BY <1>6, <1>1, Zenon DEF vars, Undefined
  <1> QED
    BY <1>3, <1>4, <1>5, <1>6, Zenon DEF Next, Step

LEMMA ReadDirNext ==
  ASSUME ReadDirInvariant, [Next]_vars, ~mixed'
  PROVE  ReadDirInvariant'
  <1>1. CASE UNCHANGED vars \/ Undefined
    <2>1. PICK s : s = Now
      OBVIOUS
    <2>2. /\ CacheInv(s) /\ s.fd = fd /\ s.oi = oiCache /\ s.heap = heap
          /\ s.impure = dir.impure /\ DirInv
      BY <2>1, NowInv
    <2>3. dir' = dir /\ oiCache' = oiCache /\ heap' = heap /\ fd' = fd /\ changes' = changes
      BY <1>1 DEF vars, Undefined
    <2>4. CacheInv(Now)'
      BY <2>2, <2>3, StepTo
    <2>5. DirInv'
      BY <2>2, <2>3, Zenon DEF DirInv
    <2> QED
      BY <2>4, <2>5 DEF ReadDirInvariant
  <1>2. ASSUME NEW f \in Fds,
               \/ Open(f) \/ IterateReal(f) \/ IterateMerged(f) \/ ReadFails(f) \/ Release(f)
               \/ \E off \in SeekTo : Llseek(f, off)
        PROVE  ReadDirInvariant'
    BY <1>2, OpenStep, IterateRealStep, IterateMergedStep, ReadFailsStep, ReleaseStep,
       LlseekStep
  <1>3. CASE Evict \/ CopyUpDir \/ CopyUpDirDone
    BY <1>3, EvictStep, CopyUpDirStep, CopyUpDirDoneStep
  <1>4. ASSUME NEW n \in Names,
               \/ CopyUpChild(n) \/ CopyUpChildDone(n) \/ Create(n) \/ Link(n) \/ Unlink(n)
               \/ \E origin \in BOOLEAN : MoveIn(n, origin)
        PROVE  ReadDirInvariant'
    BY <1>4, ChangesStep, CopyUpChildDoneStep
  <1> QED
    BY <1>1, <1>2, <1>3, <1>4, Zenon DEF Next, Step

\* Until a file that went astray uses the impure cache.
ReadDirSafe == MixedInv /\ (~mixed => ReadDirInvariant)

LEMMA ReadDirAlways == Spec => []ReadDirSafe
  <1>1. Init => ReadDirSafe
    <2>1. Init => MixedInv
      BY DEF Init, MixedInv
    <2> QED
      BY <2>1, ReadDirInit DEF ReadDirSafe
  <1>2. ReadDirSafe /\ [Next]_vars => ReadDirSafe'
    <2> SUFFICES ASSUME ReadDirSafe, [Next]_vars PROVE ReadDirSafe'
      OBVIOUS
    <2>1. MixedInv' /\ (mixed => mixed')
      BY MixedStep DEF ReadDirSafe
    <2>2. ASSUME ~mixed' PROVE ReadDirInvariant'
      BY <2>1, <2>2, ReadDirNext DEF ReadDirSafe
    <2> QED
      BY <2>1, <2>2, Zenon DEF ReadDirSafe
  <1> QED
    BY <1>1, <1>2, PTL DEF Spec

LEMMA InvariantAccounts == ReadDirSafe => CachesAccounted
  <1> SUFFICES ASSUME ReadDirInvariant, ~mixed PROVE CachesAccounted
    BY DEF ReadDirSafe, CachesAccounted
  <1>1. PICK s : s = Now
    OBVIOUS
  <1>2. /\ CacheInv(s) /\ s.fd = fd /\ s.oi = oiCache /\ s.heap = heap /\ DirInv
    BY <1>1, NowInv
  <1>3. Shape(s) /\ FilesOk(s) /\ HeapOk(s)
    BY <1>2 DEF CacheInv
  <1>4. \A c \in CacheIds : heap[c].refcount \in 0 .. Cardinality(Fds)
    <2> SUFFICES ASSUME NEW c \in CacheIds PROVE heap[c].refcount \in 0 .. Cardinality(Fds)
      OBVIOUS
    <2>1. Cardinality(Fds) \in Nat
      BY FS_CardinalityType, ReadDirAssumption
    <2>2. heap[c].refcount = 0 \/ heap[c].refcount = Cardinality(Readers(s, c))
      BY <1>2, <1>3, Zenon DEF HeapOk
    <2> QED
      BY <2>1, <2>2, ReadersFinite
  <1>5. TypeOK
    <2>1. dir.version \in 0 .. MaxChanges
      BY <1>2, ReadDirAssumption DEF DirInv
    <2> QED
      BY <1>2, <1>3, <1>4, <2>1, Zenon DEF TypeOK, Shape, DirInv
  <1>6. \A f \in Fds : fd[f].cache # None => dir.whiteouts
    BY <1>2, <1>3, Zenon DEF FilesOk
  <1>7. \A f \in Fds : fd[f].cache # None => fd[f].cache \in CacheIds
    BY <1>5 DEF TypeOK
  <1>8. \A f \in Fds : fd[f].cache # None =>
          heap[fd[f].cache].live /\ ~heap[fd[f].cache].impure
    BY <1>2, <1>3, <1>6, <1>7, Zenon DEF HeapOk
  <1>9. \A c \in CacheIds : Readers(s, c) = {f \in Fds : fd[f].cache = c}
    BY <1>2, Zenon DEF Readers
  <1>10. \A c \in CacheIds : heap[c].live =>
           IF heap[c].impure THEN oiCache = c
           ELSE /\ heap[c].refcount > 0
                /\ heap[c].refcount = Cardinality({f \in Fds : fd[f].cache = c})
    BY <1>2, <1>3, <1>9, Zenon DEF HeapOk
  <1>11. oiCache # None => heap[oiCache].live
    BY <1>2, <1>3, Zenon DEF HeapOk
  <1> QED
    BY <1>5, <1>8, <1>10, <1>11, Zenon DEF CachesAccounted

\* The caches of a directory are accounted for however many files are open on it and
\* whatever changes meanwhile (readdir.c: ovl_cache_put, ovl_cache_get,
\* ovl_cache_get_impure, ovl_dir_reset): no open file and no inode ever points to a freed
\* cache, a merged cache counts exactly the files that read it and is freed with the last
\* of them, and the uncounted impure cache belongs to the inode alone, also when the
\* directory is copied up or its inode is evicted between two calls.  This is so until a
\* file that was opened and read while copy-up had not yet set OVL_WHITEOUTS
\* (copy_up.c:603-605) uses the impure cache of the merged directory.
THEOREM CachesAccountedCorrect == Spec => []CachesAccounted
  BY ReadDirAlways, InvariantAccounts, PTL

-----------------------------------------------------------------------------
(* Recursion.  F[i] maps one value of a recursive function to the next. *)

\* A set of naturals has a least element.
LEMMA LeastNat ==
  ASSUME NEW T, T \subseteq Nat, T # {}
  PROVE  \E x \in T : \A y \in T : x <= y
  <1>1. PICK R : R = OpToRel(<, Nat)
    OBVIOUS
  <1>2. IsWellFoundedOn(R, Nat)
    BY <1>1, NatLessThanWellFounded
  <1>3. PICK x \in T : \A y \in T : ~(<<y, x>> \in R)
    BY <1>2, WFMin
  <1>4. \A y \in T : <<y, x>> \in R <=> y < x
    BY <1>1 DEF OpToRel
  <1>5. ASSUME NEW y \in T PROVE x <= y
    <2>1. x \in Nat /\ y \in Nat
      OBVIOUS
    <2>2. ~(y < x)
      BY <1>3, <1>4
    <2> QED
      BY <2>1, <2>2
  <1> QED
    BY <1>5

Stays(S, a, n, F) == \A i \in a + 1 .. n : \A s \in S : F[i][s] \in S
IsRec(g, S, c, a, n, F) ==
  g \in [a .. n -> S] /\ g[a] = c /\ \A i \in a + 1 .. n : g[i] = F[i][g[i - 1]]

\* The values of a recursive function on a .. n exist: the least n without them has them.
LEMMA RecExists ==
  ASSUME NEW S, NEW c, c \in S, NEW a \in Nat, NEW n \in Nat, a <= n, NEW F, Stays(S, a, n, F)
  PROVE  \E g : IsRec(g, S, c, a, n, F)
  <1> DEFINE P(m, g) == g[a] = c /\ \A i \in a + 1 .. m : g[i] = F[i][g[i - 1]]
             T == {m \in a .. n : ~\E g \in [a .. m -> S] : P(m, g)}
  <1>1. SUFFICES ASSUME T # {} PROVE FALSE
    <2>1. n \in a .. n
      OBVIOUS
    <2> QED
      BY <2>1 DEF IsRec
  <1>2. T \subseteq Nat
    OBVIOUS
  <1>3. PICK m \in T : \A y \in T : m <= y
    BY <1>1, <1>2, LeastNat
  <1>4. m \in a .. n /\ m \in Nat
    OBVIOUS
  <1>5. CASE m = a
    <2>1. PICK g : g = [i \in a .. a |-> c]
      OBVIOUS
    <2>2. g \in [a .. m -> S] /\ P(m, g)
      BY <1>5, <2>1
    <2> QED
      BY <2>2
  <1>6. CASE m # a
    <2>1. m - 1 \in a .. n /\ m - 1 \notin T
      BY <1>3, <1>4, <1>6
    <2>2. PICK g \in [a .. m - 1 -> S] : P(m - 1, g)
      BY <2>1
    <2>3. PICK h : h = [i \in a .. m |-> IF i = m THEN F[m][g[m - 1]] ELSE g[i]]
      OBVIOUS
    <2>4. g[m - 1] \in S /\ m \in a + 1 .. n
      BY <1>4, <1>6, <2>1
    <2>5. F[m][g[m - 1]] \in S
      BY <2>4 DEF Stays
    <2>6. h \in [a .. m -> S]
      <3>1. \A i \in a .. m : i # m => i \in a .. m - 1
        BY <1>4
      <3> QED
        BY <2>3, <2>5, <3>1
    <2>7. h[a] = c
      BY <1>4, <1>6, <2>2, <2>3
    <2>8. ASSUME NEW i \in a + 1 .. m PROVE h[i] = F[i][h[i - 1]]
      <3>1. i - 1 \in a .. m /\ i - 1 # m /\ i \in a .. m
        BY <1>4
      <3>2. h[i - 1] = g[i - 1]
        BY <2>3, <3>1
      <3>3. CASE i = m
        BY <2>3, <3>1, <3>2, <3>3
      <3>4. CASE i # m
        <4>1. i \in a + 1 .. m - 1
          BY <1>4, <3>4
        <4> QED
          BY <2>2, <2>3, <3>1, <3>2, <3>4, <4>1
      <3> QED
        BY <3>3, <3>4
    <2>9. P(m, h)
      BY <2>7, <2>8
    <2> QED
      BY <2>6, <2>9
  <1> QED
    BY <1>5, <1>6

-----------------------------------------------------------------------------
(* Filter. *)

\* t has the members of s up to m that are in T, each from a place of its own.
Picks(t, s, m, T) ==
  /\ \E p \in [DOMAIN t -> 1 .. m] :
       /\ \A i, j \in DOMAIN t : p[i] = p[j] => i = j
       /\ \A i \in DOMAIN t : s[p[i]] = t[i]
  /\ \A i \in DOMAIN t : t[i] \in T
  /\ \A i \in 1 .. m : s[i] \in T => \E k \in DOMAIN t : t[k] = s[i]

LEMMA PicksStep ==
  ASSUME NEW X, NEW s \in Seq(X), NEW T, NEW m \in 1 .. Len(s), NEW t \in Seq(X),
         Picks(t, s, m - 1, T),
         NEW u, u = IF s[m] \in T THEN Append(t, s[m]) ELSE t
  PROVE  u \in Seq(X) /\ Picks(u, s, m, T)
  <1>0. m \in Nat /\ m > 0 /\ s[m] \in X /\ Len(t) \in Nat /\ DOMAIN t = 1 .. Len(t)
    OBVIOUS
  <1>1. PICK p \in [DOMAIN t -> 1 .. m - 1] :
          /\ \A i, j \in DOMAIN t : p[i] = p[j] => i = j
          /\ \A i \in DOMAIN t : s[p[i]] = t[i]
    BY DEF Picks
  <1>2. /\ \A i \in DOMAIN t : t[i] \in T
        /\ \A i \in 1 .. m - 1 : s[i] \in T => \E k \in DOMAIN t : t[k] = s[i]
    BY DEF Picks
  <1>3. CASE s[m] \notin T
    <2>1. u = t
      BY <1>3
    <2>2. p \in [DOMAIN t -> 1 .. m]
      BY <1>0
    <2>3. \A i \in 1 .. m : s[i] \in T => \E k \in DOMAIN t : t[k] = s[i]
      BY <1>0, <1>2, <1>3
    <2>4. \E q \in [DOMAIN t -> 1 .. m] :
            /\ \A i, j \in DOMAIN t : q[i] = q[j] => i = j
            /\ \A i \in DOMAIN t : s[q[i]] = t[i]
      BY <1>1, <2>2, Zenon
    <2>5. Picks(t, s, m, T)
      BY <2>3, <2>4, <1>2, Zenon DEF Picks
    <2> QED
      BY <2>1, <2>5
  <1>4. CASE s[m] \in T
    <2>0. PICK l : l = Len(t) + 1
      OBVIOUS
    <2>1. /\ u = Append(t, s[m]) /\ u \in Seq(X) /\ DOMAIN u = 1 .. l /\ u[l] = s[m]
          /\ \A i \in 1 .. Len(t) : u[i] = t[i]
      BY <1>0, <1>4, <2>0
    <2>2. PICK q : q = [i \in 1 .. l |-> IF i = l THEN m ELSE p[i]]
      OBVIOUS
    <2>3. \A i \in 1 .. l : i # l => i \in 1 .. Len(t)
      BY <1>0, <2>0
    <2>4. \A i \in 1 .. l : q[i] \in 1 .. m /\ (i # l => q[i] = p[i] /\ q[i] \in 1 .. m - 1)
                            /\ (i = l => q[i] = m)
      BY <1>0, <2>2, <2>3
    <2>5. q \in [DOMAIN u -> 1 .. m]
      BY <2>1, <2>2, <2>4
    <2>6. ASSUME NEW i \in DOMAIN u, NEW j \in DOMAIN u, q[i] = q[j] PROVE i = j
      <3>1. i \in 1 .. l /\ j \in 1 .. l
        BY <2>1
      <3>2. m \notin 1 .. m - 1
        BY <1>0
      <3>3. i = l <=> j = l
        BY <2>4, <2>6, <3>1, <3>2
      <3>4. CASE i # l
        BY <1>0, <1>1, <2>3, <2>4, <2>6, <3>1, <3>3, <3>4
      <3> QED
        BY <3>3, <3>4
    <2>7. \A i \in DOMAIN u : s[q[i]] = u[i] /\ u[i] \in T
      BY <1>0, <1>1, <1>2, <1>4, <2>1, <2>3, <2>4
    <2>8. ASSUME NEW i \in 1 .. m, s[i] \in T PROVE \E k \in DOMAIN u : u[k] = s[i]
      <3>1. CASE i = m
        BY <1>0, <2>0, <2>1, <3>1
      <3>2. CASE i # m
        <4>1. i \in 1 .. m - 1
          BY <1>0, <3>2
        <4>2. PICK k \in DOMAIN t : t[k] = s[i]
          BY <1>2, <2>8, <4>1
        <4> QED
          BY <1>0, <2>0, <2>1, <4>2
      <3> QED
        BY <3>1, <3>2
    <2>9. \E r \in [DOMAIN u -> 1 .. m] :
            /\ \A i, j \in DOMAIN u : r[i] = r[j] => i = j
            /\ \A i \in DOMAIN u : s[r[i]] = u[i]
      BY <2>5, <2>6, <2>7, Zenon
    <2> QED
      BY <2>1, <2>7, <2>8, <2>9, Zenon DEF Picks
  <1> QED
    BY <1>3, <1>4

LEMMA FilterPicks ==
  ASSUME NEW X, NEW s \in Seq(X), NEW T, NEW t, t = Filter(s, T)
  PROVE  t \in Seq(X) /\ Picks(t, s, Len(s), T)
  <1> DEFINE Pick1(x, i) == IF s[i] \in T THEN Append(x, s[i]) ELSE x
             Rec(g) == [i \in 0 .. Len(s) |-> IF i = 0 THEN <<>> ELSE Pick1(g[i - 1], i)]
  <1>0. PICK n : n = Len(s)
    OBVIOUS
  <1>1. n \in Nat /\ \A i \in 1 .. n : s[i] \in X
    BY <1>0
  <1>2. PICK F : F = [i \in 1 .. n |-> [x \in Seq(X) |-> Pick1(x, i)]]
    OBVIOUS
  <1>3. ASSUME NEW i \in 1 .. n, NEW x \in Seq(X)
        PROVE  F[i][x] = Pick1(x, i) /\ F[i][x] \in Seq(X)
    <2>1. F[i][x] = Pick1(x, i)
      BY <1>2
    <2>2. Pick1(x, i) \in Seq(X)
      BY <1>1
    <2> QED
      BY <2>1, <2>2
  <1>4. PICK a, c : a = 0 /\ c = <<>>
    OBVIOUS
  <1>5. \A i \in a + 1 .. n : i \in 1 .. n
    BY <1>1, <1>4
  <1>6. Stays(Seq(X), a, n, F)
    BY <1>3, <1>5 DEF Stays
  <1>7. PICK g : IsRec(g, Seq(X), c, a, n, F)
    <2>1. c \in Seq(X) /\ a \in Nat /\ a <= n
      BY <1>1, <1>4
    <2> QED
      BY <1>1, <1>6, <2>1, RecExists
  <1>8. g \in [0 .. n -> Seq(X)] /\ g[0] = <<>> /\ \A i \in 1 .. n : g[i] = F[i][g[i - 1]]
    BY <1>1, <1>4, <1>7 DEF IsRec
  <1>9. ASSUME NEW i \in 0 .. n, i # 0 PROVE g[i] = Pick1(g[i - 1], i)
    <2>1. i \in 1 .. n /\ i - 1 \in 0 .. n
      BY <1>1, <1>9
    <2>2. g[i - 1] \in Seq(X)
      BY <1>8, <2>1
    <2> QED
      BY <1>3, <1>8, <2>1, <2>2
  <1>10. g = Rec(g)
    <2>1. \A i \in 0 .. n : g[i] = IF i = 0 THEN <<>> ELSE Pick1(g[i - 1], i)
      BY <1>8, <1>9
    <2>2. g = [i \in 0 .. n |-> g[i]]
      BY <1>8
    <2> HIDE DEF Pick1
    <2> QED
      BY <1>0, <2>1, <2>2
  <1>11. PICK w : w = CHOOSE x : x = Rec(x)
    OBVIOUS
  <1>12. w = Rec(w)
    BY <1>10, <1>11, Zenon
  <1>13. t = w[n]
    BY <1>0, <1>11 DEF Filter
  <1>14. w[0] = <<>> /\ \A i \in 1 .. n : w[i] = Pick1(w[i - 1], i)
    <2> HIDE DEF Pick1
    <2>1. \A i \in 0 .. n : w[i] = IF i = 0 THEN <<>> ELSE Pick1(w[i - 1], i)
      BY <1>0, <1>12
    <2>2. 0 \in 0 .. n /\ \A i \in 1 .. n : i \in 0 .. n /\ i # 0
      BY <1>1
    <2> QED
      BY <2>1, <2>2
  <1> DEFINE Bad == {m \in 0 .. n : ~(w[m] \in Seq(X) /\ Picks(w[m], s, m, T))}
  <1>15. Bad = {}
    <2> SUFFICES ASSUME Bad # {} PROVE FALSE
      OBVIOUS
    <2>0. Bad \subseteq Nat
      OBVIOUS
    <2>1. PICK m \in Bad : \A y \in Bad : m <= y
      <3> HIDE DEF Bad
      <3> QED
        BY <2>0, LeastNat
    <2>2. m \in 0 .. n /\ ~(w[m] \in Seq(X) /\ Picks(w[m], s, m, T))
      OBVIOUS
    <2>3. m # 0
      <3>1. <<>> \in Seq(X) /\ DOMAIN <<>> = {}
        OBVIOUS
      <3>2. PICK p : p = [i \in {} |-> 0]
        OBVIOUS
      <3>a. p \in [{} -> 1 .. 0]
        BY <3>2
      <3>b. 1 .. 0 = {}
        OBVIOUS
      <3>3. Picks(<<>>, s, 0, T)
        <4>1. \E q \in [DOMAIN <<>> -> 1 .. 0] :
                /\ \A i, j \in DOMAIN <<>> : q[i] = q[j] => i = j
                /\ \A i \in DOMAIN <<>> : s[q[i]] = <<>>[i]
          BY <3>1, <3>a, Zenon
        <4>2. \A i \in DOMAIN <<>> : <<>>[i] \in T
          BY <3>1, Zenon
        <4>3. \A i \in 1 .. 0 : s[i] \in T => \E k \in DOMAIN <<>> : <<>>[k] = s[i]
          BY <3>b, Zenon
        <4> QED
          BY <4>1, <4>2, <4>3, Zenon DEF Picks
      <3> QED
        BY <1>14, <2>2, <3>1, <3>3
    <2>4. m \in 1 .. n /\ m - 1 \in 0 .. n /\ m - 1 \notin Bad
      BY <1>1, <2>1, <2>2, <2>3
    <2>5. w[m - 1] \in Seq(X) /\ Picks(w[m - 1], s, m - 1, T)
      BY <2>4
    <2>6. w[m] = IF s[m] \in T THEN Append(w[m - 1], s[m]) ELSE w[m - 1]
      BY <1>14, <2>4
    <2>7. w[m] \in Seq(X) /\ Picks(w[m], s, m, T)
      BY <1>0, <2>4, <2>5, <2>6, PicksStep
    <2> QED
      BY <2>2, <2>7
  <1>16. n \in 0 .. n /\ n \notin Bad
    BY <1>1, <1>15
  <1> QED
    BY <1>0, <1>13, <1>16

\* No two members are equal.
Injective(s) == \A i, j \in DOMAIN s : s[i] = s[j] => i = j

Filtered(t, s, X, T) ==
  /\ t \in Seq(X)
  /\ \A k \in DOMAIN t : t[k] \in T /\ \E i \in DOMAIN s : s[i] = t[k]
  /\ \A i \in DOMAIN s : s[i] \in T => \E k \in DOMAIN t : t[k] = s[i]
  /\ Injective(s) => Injective(t)
  /\ Distinct(s) => Distinct(t)

LEMMA FilterFacts ==
  ASSUME NEW X, NEW s \in Seq(X), NEW T, NEW t, t = Filter(s, T)
  PROVE  Filtered(t, s, X, T)
  <1>1. t \in Seq(X) /\ Picks(t, s, Len(s), T) /\ DOMAIN s = 1 .. Len(s)
    BY FilterPicks
  <1>2. PICK p \in [DOMAIN t -> DOMAIN s] :
          /\ \A i, j \in DOMAIN t : p[i] = p[j] => i = j
          /\ \A i \in DOMAIN t : s[p[i]] = t[i]
    BY <1>1, Zenon DEF Picks
  <1>3. \A k \in DOMAIN t : p[k] \in DOMAIN s
    BY <1>2
  <1>4. \A k \in DOMAIN t : t[k] \in T /\ \E i \in DOMAIN s : s[i] = t[k]
    BY <1>1, <1>2, <1>3, Zenon DEF Picks
  <1>5. \A i \in DOMAIN s : s[i] \in T => \E k \in DOMAIN t : t[k] = s[i]
    BY <1>1, Zenon DEF Picks
  <1>6. ASSUME Injective(s) PROVE Injective(t)
    <2> SUFFICES ASSUME NEW i \in DOMAIN t, NEW j \in DOMAIN t, t[i] = t[j] PROVE i = j
      BY DEF Injective
    <2>1. s[p[i]] = s[p[j]]
      BY <1>2, Zenon
    <2>2. p[i] = p[j]
      BY <1>3, <1>6, <2>1, Zenon DEF Injective
    <2> QED
      BY <1>2, <2>2, Zenon
  <1>7. ASSUME Distinct(s) PROVE Distinct(t)
    <2> SUFFICES ASSUME NEW i \in DOMAIN t, NEW j \in DOMAIN t, t[i].name = t[j].name
                 PROVE  i = j
      BY DEF Distinct
    <2>1. s[p[i]].name = s[p[j]].name
      BY <1>2, Zenon
    <2>2. p[i] = p[j]
      BY <1>3, <1>7, <2>1, Zenon DEF Distinct
    <2> QED
      BY <1>2, <2>2, Zenon
  <1> QED
    BY <1>1, <1>4, <1>5, <1>6, <1>7, Zenon DEF Filtered

LEMMA NamesOfFacts ==
  ASSUME NEW layer, NEW t, t = NamesOf(layer)
  PROVE  /\ t \in Seq(Names) /\ Injective(t)
         /\ \A k \in DOMAIN t : t[k] \in Names /\ layer[t[k]].kind # "no"
         /\ \A n \in Names : layer[n].kind # "no" => \E k \in DOMAIN t : t[k] = n
  <1>1. NameSeq \in Seq(Names) /\ Injective(NameSeq)
    BY ReadDirAssumption DEF Injective
  <1>2. PICK T : T = {n \in Names : layer[n].kind # "no"}
    OBVIOUS
  <1>3. t = Filter(NameSeq, T)
    BY <1>2 DEF NamesOf
  <1>4. /\ t \in Seq(Names) /\ Injective(t)
        /\ \A k \in DOMAIN t : t[k] \in T
        /\ \A i \in DOMAIN NameSeq : NameSeq[i] \in T => \E k \in DOMAIN t : t[k] = NameSeq[i]
    <2>1. Filtered(t, NameSeq, Names, T)
      BY <1>1, <1>3, FilterFacts
    <2> QED
      BY <1>1, <2>1, Zenon DEF Filtered
  <1>5. \A n \in Names : \E i \in DOMAIN NameSeq : NameSeq[i] = n
    BY DEF Names, ToSet
  <1>6. ASSUME NEW n \in Names, layer[n].kind # "no" PROVE \E k \in DOMAIN t : t[k] = n
    <2>1. n \in T
      BY <1>2, <1>6
    <2> QED
      BY <2>1, <1>4, <1>5, Zenon
  <1> QED
    BY <1>2, <1>4, <1>6

-----------------------------------------------------------------------------
(* The layers. *)

LEMMA NodeFields ==
  ASSUME NEW e, Node(e), changes \in Nat
  PROVE  /\ DOMAIN e = {"kind", "real", "st"} /\ e.kind \in {"no", "whiteout", "object"}
         /\ e.real \in Nat /\ e.st \in Nat
         /\ e.kind = "object" => e.st # 0 /\ e.st < FreshIno /\ e.real # 0
         /\ e.kind # "object" => e.st = 0 /\ e.real = 0
         /\ e.kind = "no" => e = Gone
         /\ e.kind = "whiteout" => e = Wh
  <1>1. CASE e = Gone
    BY <1>1 DEF Gone
  <1>2. CASE e = Wh
    BY <1>2 DEF Wh
  <1>3. CASE e # Gone /\ e # Wh
    <2>1. PICK r, st : /\ e = Obj(r, st) /\ r \in 1 .. FreshIno - 1 /\ st \in 1 .. FreshIno - 1
      BY <1>3 DEF Node
    <2>2. e.kind = "object" /\ e.real = r /\ e.st = st /\ DOMAIN e = {"kind", "real", "st"}
      BY <2>1 DEF Obj
    <2>3. FreshIno \in Nat
      BY InoAssumption DEF FreshIno
    <2> QED
      BY <2>1, <2>2, <2>3
  <1> QED
    BY <1>1, <1>2, <1>3

\* Layer j is the topmost that has the name n.
First(layers, n, j) ==
  /\ j \in DOMAIN layers /\ layers[j][n].kind # "no"
  /\ \A m \in DOMAIN layers : m < j => layers[m][n].kind = "no"

LEMMA TopFirst ==
  ASSUME NEW layers, DOMAIN layers \subseteq Nat, NEW n, NEW j, First(layers, n, j)
  PROVE  TopNode(layers, n) = layers[j][n]
  <1> DEFINE has == {i \in DOMAIN layers : layers[i][n].kind # "no"}
  <1>1. j \in has /\ has \subseteq Nat /\ \A i \in has : j <= i
    BY DEF First
  <1>2. has # {}
    BY <1>1
  <1>3. \A i \in has : (\A k \in has : i <= k) => i = j
    <2> TAKE i \in has
    <2> HAVE \A k \in has : i <= k
    <2>1. i <= j /\ j <= i /\ i \in Nat /\ j \in Nat
      BY <1>1
    <2> QED
      BY <2>1
  <1>4. (CHOOSE i \in has : \A k \in has : i <= k) = j
    <2> HIDE DEF has
    <2> QED
      BY <1>1, <1>3
  <1> QED
    BY <1>2, <1>4 DEF TopNode

LEMMA TopCases ==
  ASSUME NEW layers, DOMAIN layers \subseteq Nat, NEW n
  PROVE  \/ \E j : First(layers, n, j)
         \/ TopNode(layers, n) = Gone /\ \A i \in DOMAIN layers : layers[i][n].kind = "no"
  <1> DEFINE has == {i \in DOMAIN layers : layers[i][n].kind # "no"}
  <1>1. CASE has = {}
    BY <1>1 DEF TopNode
  <1>2. CASE has # {}
    <2>1. has \subseteq Nat
      OBVIOUS
    <2>2. PICK j \in has : \A k \in has : j <= k
      <3> HIDE DEF has
      <3> QED
        BY <1>2, <2>1, LeastNat
    <2>3. \A m \in DOMAIN layers : m < j => m \notin has
      <3>1. \A m \in has : j <= m /\ m \in Nat /\ j \in Nat
        BY <2>1, <2>2
      <3> QED
        BY <3>1
    <2>4. First(layers, n, j)
      BY <2>2, <2>3 DEF First
    <2> QED
      BY <2>4
  <1> QED
    BY <1>1, <1>2

LEMMA StartNode ==
  ASSUME changes \in Nat, NEW e \in StartNodes
  PROVE  Node(e)
  <1>1. CASE e \in {Gone, Wh}
    BY <1>1 DEF Node
  <1>2. CASE e \notin {Gone, Wh}
    <2>1. PICK real \in 1 .. FirstIno - 1, st \in 1 .. FirstIno - 1 : e = Obj(real, st)
      BY <1>2 DEF StartNodes
    <2>2. e.real = real /\ e.st = st
      BY <2>1 DEF Obj
    <2>3. real \in 1 .. FreshIno - 1 /\ st \in 1 .. FreshIno - 1
      BY InoAssumption DEF FreshIno
    <2> QED
      BY <2>1, <2>2, <2>3 DEF Node
  <1> QED
    BY <1>1, <1>2

\* What the proofs use of the directory.
LEMMA LowerFacts ==
  ASSUME dir.kind \in Kinds, changes \in Nat
  PROVE  /\ Len(Lower) \in Nat /\ DOMAIN Lower = 1 .. Len(Lower)
         /\ Lower \in Seq([Names -> StartNodes])
         /\ \A i \in DOMAIN Lower, n \in Names : Node(Lower[i][n]) /\ ~HasOrigin(Lower[i][n])
         /\ Lower = <<>> <=> dir.kind \in {"upper", "former"}
         /\ dir.kind = "lower" /\ Len(Lower) = 1 => \A n \in Names : Lower[1][n] # Wh
  <1>1. Lower \in Seq([Names -> StartNodes])
    BY ReadDirAssumption DEF Lower
  <1>2. Len(Lower) \in Nat /\ DOMAIN Lower = 1 .. Len(Lower)
    BY <1>1
  <1>3. \A i \in DOMAIN Lower, n \in Names : Lower[i][n] \in StartNodes
    BY <1>1, <1>2
  <1>4. ASSUME NEW e \in StartNodes PROVE Node(e)
    BY StartNode
  <1>5. \A i \in DOMAIN Lower, n \in Names : ~HasOrigin(Lower[i][n])
    BY ReadDirAssumption DEF Lower
  <1>6. Lower = <<>> <=> dir.kind \in {"upper", "former"}
    BY ReadDirAssumption DEF Lower
  <1>7. dir.kind = "lower" /\ Len(Lower) = 1 => \A n \in Names : Lower[1][n] # Wh
    BY ReadDirAssumption DEF Lower
  <1> QED
    BY <1>1, <1>2, <1>3, <1>4, <1>5, <1>6, <1>7

\* The layers of a directory with an upper part are the upper one and the lower ones.
LEMMA StackFacts ==
  ASSUME NEW upper, NEW low, NEW X, low \in Seq(X), NEW layers, layers = <<upper>> \o low
  PROVE  /\ DOMAIN layers = 1 .. Len(low) + 1 /\ Len(layers) = Len(low) + 1
         /\ layers[1] = upper
         /\ \A i \in 1 .. Len(low) : layers[i + 1] = low[i]
  <1>1. PICK Y : Y = X \cup {upper}
    OBVIOUS
  <1>2. <<upper>> \in Seq(Y) /\ low \in Seq(Y) /\ Len(<<upper>>) = 1 /\ Len(low) \in Nat
    BY <1>1
  <1>3. layers \in Seq(Y) /\ Len(layers) = 1 + Len(low)
    BY <1>2
  <1>4. \A i \in 1 .. 1 + Len(low) :
          layers[i] = IF i <= 1 THEN <<upper>>[i] ELSE low[i - 1]
    BY <1>2, ConcatProperties
  <1>5. layers[1] = upper
    BY <1>2, <1>4
  <1>6. ASSUME NEW i \in 1 .. Len(low) PROVE layers[i + 1] = low[i]
    <2>1. i + 1 \in 1 .. 1 + Len(low) /\ ~(i + 1 <= 1) /\ (i + 1) - 1 = i
      BY <1>2
    <2> QED
      BY <1>4, <2>1
  <1> QED
    BY <1>2, <1>3, <1>5, <1>6

LayersTyped ==
  /\ Len(Layers) \in Nat /\ Len(Layers) > 0 /\ DOMAIN Layers = 1 .. Len(Layers)
  /\ \A i \in DOMAIN Layers, n \in Names : Node(Layers[i][n])
LayersStacked ==
  /\ dir.hasUpper => /\ Layers = <<dir.upper>> \o Lower /\ Layers[1] = dir.upper
                     /\ Len(Layers) = Len(Lower) + 1
                     /\ \A i \in 1 .. Len(Lower) : Layers[i + 1] = Lower[i]
  /\ ~dir.hasUpper => Layers = Lower
OriginsUpper ==
  \A i \in DOMAIN Layers, n \in Names :
    HasOrigin(Layers[i][n]) => i = 1 /\ dir.hasUpper /\ dir.impure

\* The layers hold nodes, the upper one first, and only the upper one has origins.
LEMMA LayersFacts ==
  ASSUME ContentInv, dir.hasUpper \in BOOLEAN, changes \in Nat
  PROVE  LayersTyped /\ LayersStacked /\ OriginsUpper
  <1>0. /\ Len(Lower) \in Nat /\ DOMAIN Lower = 1 .. Len(Lower)
        /\ Lower \in Seq([Names -> StartNodes])
        /\ \A i \in DOMAIN Lower, n \in Names : Node(Lower[i][n]) /\ ~HasOrigin(Lower[i][n])
        /\ Lower = <<>> <=> dir.kind \in {"upper", "former"}
    BY LowerFacts DEF ContentInv
  <1>1. CASE ~dir.hasUpper
    <2>1. Layers = Lower
      <3>1. Layers = <<>> \o Lower
        BY <1>1 DEF Layers
      <3> QED
        BY <3>1, <1>0, ConcatEmptySeq
    <2>2. Lower # <<>>
      BY <1>0, <1>1 DEF ContentInv
    <2>3. Len(Lower) > 0
      BY <1>0, <2>2, EmptySeq
    <2> QED
      BY <1>0, <1>1, <2>1, <2>3 DEF LayersTyped, LayersStacked, OriginsUpper
  <1>2. CASE dir.hasUpper
    <2>1. Layers = <<dir.upper>> \o Lower
      BY <1>2 DEF Layers
    <2>2. /\ DOMAIN Layers = 1 .. Len(Lower) + 1 /\ Len(Layers) = Len(Lower) + 1
          /\ Layers[1] = dir.upper
          /\ \A i \in 1 .. Len(Lower) : Layers[i + 1] = Lower[i]
      BY <1>0, <2>1, StackFacts
    <2>3. \A i \in DOMAIN Layers : i # 1 => i - 1 \in 1 .. Len(Lower) /\ Layers[i] = Lower[i - 1]
      <3> TAKE i \in DOMAIN Layers
      <3> HAVE i # 1
      <3>1. i - 1 \in 1 .. Len(Lower) /\ (i - 1) + 1 = i
        BY <1>0, <2>2
      <3> QED
        BY <2>2, <3>1
    <2>4. ASSUME NEW i \in DOMAIN Layers, NEW n \in Names
          PROVE  /\ Node(Layers[i][n])
                 /\ HasOrigin(Layers[i][n]) => i = 1 /\ dir.hasUpper /\ dir.impure
      <3>1. CASE i = 1
        BY <1>2, <2>2, <3>1 DEF ContentInv
      <3>2. CASE i # 1
        BY <1>0, <2>3, <3>2
      <3> QED
        BY <3>1, <3>2
    <2> QED
      BY <1>0, <1>2, <2>1, <2>2, <2>4 DEF LayersTyped, LayersStacked, OriginsUpper
  <1> QED
    BY <1>1, <1>2

-----------------------------------------------------------------------------
(* The merged list. *)

LEMMA EntryFields ==
  ASSUME NEW n \in Names, NEW e, Node(e), changes \in Nat, NEW isUpper \in BOOLEAN,
         NEW p, p = CacheEntry(n, e, isUpper)
  PROVE  /\ p \in EntryType /\ p.name = n /\ p.whiteout = (e.kind = "whiteout")
         /\ p.real = e.real /\ p.ino = IF isUpper /\ dir.impure THEN 0 ELSE e.real
  <1>1. e.real \in Nat
    BY NodeFields
  <1> QED
    BY <1>1 DEF CacheEntry, EntryType

\* A list of entries for the names of s.
LEMMA NamedList ==
  ASSUME NEW s \in Seq(Names), Injective(s), NEW g, g = [k \in DOMAIN s |-> g[k]],
         \A k \in DOMAIN s : g[k] \in EntryType /\ g[k].name = s[k]
  PROVE  g \in Seq(EntryType) /\ Distinct(g) /\ DOMAIN g = DOMAIN s
  <1>1. PICK n : n = Len(s) /\ n \in Nat /\ DOMAIN s = 1 .. n
    OBVIOUS
  <1>2. g \in [1 .. n -> EntryType]
    BY <1>1
  <1>3. g \in Seq(EntryType)
    BY <1>1, <1>2, SeqDef
  <1>4. DOMAIN g = DOMAIN s
    OBVIOUS
  <1>5. Distinct(g)
    <2> SUFFICES ASSUME NEW i \in DOMAIN s, NEW j \in DOMAIN s, g[i].name = g[j].name
                 PROVE  i = j
      BY <1>4 DEF Distinct
    <2>1. s[i] = s[j]
      OBVIOUS
    <2> QED
      BY <2>1 DEF Injective
  <1> QED
    BY <1>3, <1>4, <1>5

Joined(c, a, b, X) ==
  /\ c \in Seq(X) /\ Distinct(c)
  /\ \A k \in DOMAIN c : (\E i \in DOMAIN a : c[k] = a[i]) \/ (\E j \in DOMAIN b : c[k] = b[j])
  /\ \A i \in DOMAIN a : \E k \in DOMAIN c : c[k] = a[i]
  /\ \A j \in DOMAIN b : \E k \in DOMAIN c : c[k] = b[j]

LEMMA JoinLists ==
  ASSUME NEW X, NEW a \in Seq(X), NEW b \in Seq(X), Distinct(a), Distinct(b),
         \A i \in DOMAIN a, j \in DOMAIN b : a[i].name # b[j].name,
         NEW c, c = a \o b
  PROVE  Joined(c, a, b, X)
  <1>1. PICK l, m : /\ l = Len(a) /\ m = Len(b) /\ l \in Nat /\ m \in Nat
                    /\ DOMAIN a = 1 .. l /\ DOMAIN b = 1 .. m
    BY LenProperties
  <1>2. c \in Seq(X) /\ DOMAIN c = 1 .. l + m
    BY <1>1
  <1>3. \A i \in 1 .. l + m : c[i] = IF i <= l THEN a[i] ELSE b[i - l]
    BY <1>1, ConcatProperties
  <1>4. ASSUME NEW k \in 1 .. l + m
        PROVE  \/ k \in 1 .. l /\ c[k] = a[k]
               \/ k \notin 1 .. l /\ k - l \in 1 .. m /\ c[k] = b[k - l]
    BY <1>1, <1>3
  <1>5. \A i \in 1 .. l : i \in 1 .. l + m /\ c[i] = a[i]
    BY <1>1, <1>3
  <1>6. ASSUME NEW j \in 1 .. m PROVE j + l \in 1 .. l + m /\ c[j + l] = b[j]
    <2>1. j + l \in 1 .. l + m /\ ~(j + l <= l) /\ (j + l) - l = j
      BY <1>1
    <2> QED
      BY <1>3, <2>1
  <1>7. ASSUME NEW i \in 1 .. l + m, NEW j \in 1 .. l + m, c[i].name = c[j].name
        PROVE  i = j
    <2>1. CASE i \in 1 .. l /\ c[i] = a[i] /\ j \in 1 .. l /\ c[j] = a[j]
      <3>1. a[i].name = a[j].name
        BY <1>7, <2>1
      <3> QED
        BY <1>1, <2>1, <3>1, Zenon DEF Distinct
    <2>2. CASE /\ i - l \in 1 .. m /\ c[i] = b[i - l]
               /\ j - l \in 1 .. m /\ c[j] = b[j - l]
      <3>1. b[i - l].name = b[j - l].name
        BY <1>7, <2>2
      <3>2. i - l = j - l
        BY <1>1, <2>2, <3>1, Zenon DEF Distinct
      <3> QED
        BY <1>1, <3>2
    <2>3. CASE i \in 1 .. l /\ c[i] = a[i] /\ j - l \in 1 .. m /\ c[j] = b[j - l]
      BY <1>1, <1>7, <2>3
    <2>4. CASE j \in 1 .. l /\ c[j] = a[j] /\ i - l \in 1 .. m /\ c[i] = b[i - l]
      BY <1>1, <1>7, <2>4
    <2> QED
      BY <1>4, <2>1, <2>2, <2>3, <2>4
  <1>8. Distinct(c)
    BY <1>2, <1>7 DEF Distinct
  <1>9. \A k \in DOMAIN c : (\E i \in DOMAIN a : c[k] = a[i]) \/ (\E j \in DOMAIN b : c[k] = b[j])
    BY <1>1, <1>2, <1>4, Zenon
  <1>10. \A i \in DOMAIN a : \E k \in DOMAIN c : c[k] = a[i]
    BY <1>1, <1>2, <1>5, Zenon
  <1>11. \A j \in DOMAIN b : \E k \in DOMAIN c : c[k] = b[j]
    BY <1>1, <1>2, <1>6, Zenon
  <1> QED
    BY <1>2, <1>8, <1>9, <1>10, <1>11, Zenon DEF Joined

\* An entry of the list made from layers 1 to i: that of the topmost one.
EntryOk(p, i) ==
  \E j \in 1 .. i : /\ First(Layers, p.name, j)
                    /\ p = CacheEntry(p.name, Layers[j][p.name], dir.hasUpper /\ j = 1)
Has(list, n) == \E k \in DOMAIN list : list[k].name = n
Lists(list, i) ==
  /\ list \in Seq(EntryType) /\ Distinct(list)
  /\ \A k \in DOMAIN list : EntryOk(list[k], i)
  /\ \A n \in Names : (\E j \in 1 .. i : Layers[j][n].kind # "no") => Has(list, n)

LEMMA FillTyped ==
  ASSUME ContentInv, dir.hasUpper \in BOOLEAN, changes \in Nat,
         NEW i \in DOMAIN Layers, NEW list \in Seq(EntryType)
  PROVE  FillMerge(list, i) \in Seq(EntryType)
  <1>1. PICK new : new = NamesOf(Layers[i])
    OBVIOUS
  <1>2. PICK rest : rest = Filter(list, {e \in ToSet(list) : e.name \notin ToSet(new)})
    OBVIOUS
  <1>3. PICK fresh : fresh = Filter(new, {n \in Names : ~\E k \in DOMAIN list : list[k].name = n})
    OBVIOUS
  <1> DEFINE entry(n) == CacheEntry(n, Layers[i][n], dir.hasUpper /\ i = 1)
             old(n) == list[CHOOSE k \in DOMAIN list : list[k].name = n]
  <1>4. PICK head : head = [k \in DOMAIN new |-> IF \E m \in DOMAIN list : list[m].name = new[k]
                                                 THEN old(new[k]) ELSE entry(new[k])]
    OBVIOUS
  <1>5. PICK add : add = [k \in DOMAIN fresh |-> entry(fresh[k])]
    OBVIOUS
  <1>6. FillMerge(list, i) = IF i = Len(Layers) THEN head \o rest ELSE list \o add
    BY <1>1, <1>2, <1>3, <1>4, <1>5 DEF FillMerge
  <1>7. \A n \in Names : entry(n) \in EntryType
    <2>1. \A n \in Names : Node(Layers[i][n])
      BY LayersFacts DEF LayersTyped
    <2> TAKE n \in Names
    <2>2. PICK isUpper \in BOOLEAN : isUpper = (dir.hasUpper /\ i = 1)
      OBVIOUS
    <2>3. PICK p, e : p = CacheEntry(n, e, isUpper) /\ e = Layers[i][n]
      OBVIOUS
    <2>4. p \in EntryType /\ p.name = n
      BY <2>1, <2>3, EntryFields
    <2> QED
      BY <2>2, <2>3, <2>4
  <1>8. \A n : (\E m \in DOMAIN list : list[m].name = n) => old(n) \in EntryType
    <2> TAKE n
    <2> HAVE \E m \in DOMAIN list : list[m].name = n
    <2>1. (CHOOSE k \in DOMAIN list : list[k].name = n) \in DOMAIN list
      OBVIOUS
    <2> QED
      BY <2>1
  <1>9. new \in Seq(Names)
    BY <1>1, NamesOfFacts
  <1>10. fresh \in Seq(Names)
    BY <1>3, <1>9, FilterFacts DEF Filtered
  <1>11. rest \in Seq(EntryType)
    BY <1>2, FilterFacts DEF Filtered
  <1> HIDE DEF entry, old
  <1>12. head \in Seq(EntryType)
    <2>1. PICK n \in Nat : DOMAIN new = 1 .. n /\ \A k \in 1 .. n : new[k] \in Names
      BY <1>9, LenProperties
    <2>2. head \in [1 .. n -> EntryType]
      BY <1>4, <1>7, <1>8, <2>1
    <2> QED
      BY <2>2, SeqDef
  <1>13. add \in Seq(EntryType)
    <2>1. PICK n \in Nat : DOMAIN fresh = 1 .. n /\ \A k \in 1 .. n : fresh[k] \in Names
      BY <1>10, LenProperties
    <2>2. add \in [1 .. n -> EntryType]
      BY <1>5, <1>7, <2>1
    <2> QED
      BY <2>2, SeqDef
  <1>14. head \o rest \in Seq(EntryType) /\ list \o add \in Seq(EntryType)
    BY <1>11, <1>12, <1>13, ConcatProperties
  <1> QED
    BY <1>6, <1>14

\* The list gains the names that only layer i has so far.
LEMMA FillStep ==
  ASSUME ContentInv, dir.hasUpper \in BOOLEAN, changes \in Nat,
         NEW i \in DOMAIN Layers, NEW list, Lists(list, i - 1),
         NEW r, r = FillMerge(list, i)
  PROVE  Lists(r, i)
  <1>0. /\ list \in Seq(EntryType) /\ Distinct(list)
        /\ \A k \in DOMAIN list : EntryOk(list[k], i - 1)
        /\ \A n \in Names : (\E j \in 1 .. i - 1 : Layers[j][n].kind # "no") => Has(list, n)
    BY DEF Lists
  <1>a. i \in Nat /\ i > 0 /\ DOMAIN Layers = 1 .. Len(Layers) /\ Len(Layers) \in Nat
    BY LayersFacts DEF LayersTyped
  <1>b. \A k \in DOMAIN list : list[k] \in EntryType /\ list[k].name \in Names
    <2>1. \A k \in DOMAIN list : list[k] \in EntryType
      BY <1>0
    <2> QED
      BY <2>1 DEF EntryType
  <1>1. PICK new : new = NamesOf(Layers[i])
    OBVIOUS
  <1>2. PICK rest : rest = Filter(list, {e \in ToSet(list) : e.name \notin ToSet(new)})
    OBVIOUS
  <1>3. PICK fresh : fresh = Filter(new, {n \in Names : ~\E k \in DOMAIN list : list[k].name = n})
    OBVIOUS
  <1> DEFINE entry(n) == CacheEntry(n, Layers[i][n], dir.hasUpper /\ i = 1)
             old(n) == list[CHOOSE k \in DOMAIN list : list[k].name = n]
  <1>4. PICK head : head = [k \in DOMAIN new |-> IF \E m \in DOMAIN list : list[m].name = new[k]
                                                 THEN old(new[k]) ELSE entry(new[k])]
    OBVIOUS
  <1>5. PICK add : add = [k \in DOMAIN fresh |-> entry(fresh[k])]
    OBVIOUS
  <1>6. r = IF i = Len(Layers) THEN head \o rest ELSE list \o add
    BY <1>1, <1>2, <1>3, <1>4, <1>5 DEF FillMerge
  <1>7. \A n \in Names : entry(n) \in EntryType /\ entry(n).name = n
    <2>1. \A n \in Names : Node(Layers[i][n])
      BY LayersFacts DEF LayersTyped
    <2> TAKE n \in Names
    <2>2. PICK isUpper \in BOOLEAN : isUpper = (dir.hasUpper /\ i = 1)
      OBVIOUS
    <2>3. PICK p, e : p = CacheEntry(n, e, isUpper) /\ e = Layers[i][n]
      OBVIOUS
    <2>4. p \in EntryType /\ p.name = n
      BY <2>1, <2>3, EntryFields
    <2> QED
      BY <2>2, <2>3, <2>4
  <1>8. ASSUME NEW p, EntryOk(p, i - 1) PROVE EntryOk(p, i)
    <2>1. \A j \in 1 .. i - 1 : j \in 1 .. i
      BY <1>a
    <2> QED
      BY <1>8, <2>1, Zenon DEF EntryOk
  <1>9. ASSUME NEW n \in Names, Layers[i][n].kind # "no", ~Has(list, n)
        PROVE  EntryOk(entry(n), i)
    <2>1. \A j \in DOMAIN Layers : j < i => Layers[j][n].kind = "no"
      <3>1. \A j \in DOMAIN Layers : j < i => j \in 1 .. i - 1
        BY <1>a
      <3> QED
        BY <1>0, <1>9, <3>1, Zenon
    <2>2. First(Layers, n, i)
      BY <1>9, <2>1 DEF First
    <2>3. i \in 1 .. i /\ entry(n).name = n
      BY <1>7, <1>a
    <2>4. entry(n) = CacheEntry(n, Layers[i][n], dir.hasUpper /\ i = 1)
      OBVIOUS
    <2> HIDE DEF entry
    <2> QED
      BY <2>2, <2>3, <2>4 DEF EntryOk
  <1>10. ASSUME NEW n, Has(list, n)
         PROVE  /\ old(n) \in EntryType /\ old(n).name = n /\ EntryOk(old(n), i)
    <2>1. PICK k : k = CHOOSE m \in DOMAIN list : list[m].name = n
      OBVIOUS
    <2>2. k \in DOMAIN list /\ list[k].name = n
      BY <1>10, <2>1 DEF Has
    <2>3. old(n) = list[k]
      BY <2>1
    <2> QED
      BY <1>0, <1>8, <1>b, <2>2, <2>3
  <1> HIDE DEF entry, old
  <1>11. /\ new \in Seq(Names) /\ Injective(new)
         /\ \A k \in DOMAIN new : new[k] \in Names /\ Layers[i][new[k]].kind # "no"
         /\ \A n \in Names : Layers[i][n].kind # "no" => \E k \in DOMAIN new : new[k] = n
    BY <1>1, NamesOfFacts
  <1>12. CASE i = Len(Layers)
    <2>1. r = head \o rest
      BY <1>6, <1>12
    <2>2. /\ head = [k \in DOMAIN new |-> head[k]] /\ DOMAIN head = DOMAIN new
          /\ \A k \in DOMAIN new : head[k] = IF Has(list, new[k]) THEN old(new[k]) ELSE entry(new[k])
      BY <1>4 DEF Has
    <2>3. ASSUME NEW k \in DOMAIN new
          PROVE  head[k] \in EntryType /\ head[k].name = new[k] /\ EntryOk(head[k], i)
      <3>1. CASE Has(list, new[k])
        BY <1>10, <2>2, <3>1
      <3>2. CASE ~Has(list, new[k])
        BY <1>7, <1>9, <1>11, <2>2, <3>2
      <3> QED
        BY <3>1, <3>2
    <2>4. head \in Seq(EntryType) /\ Distinct(head)
      BY <1>11, <2>2, <2>3, NamedList
    <2>5. PICK T : T = {e \in ToSet(list) : e.name \notin ToSet(new)}
      OBVIOUS
    <2>6. /\ rest \in Seq(EntryType) /\ Distinct(rest)
          /\ \A k \in DOMAIN rest : rest[k] \in T /\ \E m \in DOMAIN list : list[m] = rest[k]
          /\ \A k \in DOMAIN list : list[k] \in T => \E m \in DOMAIN rest : rest[m] = list[k]
      <3>1. Filtered(rest, list, EntryType, T)
        BY <1>0, <1>2, <2>5, FilterFacts
      <3> QED
        BY <1>0, <3>1, Zenon DEF Filtered
    <2>7. \A k \in DOMAIN head, m \in DOMAIN rest : head[k].name # rest[m].name
      <3> TAKE k \in DOMAIN head, m \in DOMAIN rest
      <3>1. head[k].name = new[k] /\ new[k] \in ToSet(new)
        BY <2>2, <2>3 DEF ToSet
      <3>2. rest[m].name \notin ToSet(new)
        BY <2>5, <2>6
      <3> QED
        BY <3>1, <3>2
    <2>8. /\ r \in Seq(EntryType) /\ Distinct(r)
          /\ \A k \in DOMAIN r : (\E m \in DOMAIN head : r[k] = head[m]) \/ (\E m \in DOMAIN rest : r[k] = rest[m])
          /\ \A m \in DOMAIN head : \E k \in DOMAIN r : r[k] = head[m]
          /\ \A m \in DOMAIN rest : \E k \in DOMAIN r : r[k] = rest[m]
      <3>1. Joined(r, head, rest, EntryType)
        BY <2>1, <2>4, <2>6, <2>7, JoinLists
      <3> QED
        BY <3>1, Zenon DEF Joined
    <2>9. ASSUME NEW k \in DOMAIN r PROVE EntryOk(r[k], i)
      <3>1. CASE \E m \in DOMAIN head : r[k] = head[m]
        BY <2>2, <2>3, <3>1
      <3>2. CASE \E m \in DOMAIN rest : r[k] = rest[m]
        <4>1. PICK m \in DOMAIN list : r[k] = list[m]
          BY <2>6, <3>2
        <4> QED
          BY <1>0, <1>8, <4>1
      <3> QED
        BY <2>8, <3>1, <3>2
    <2>10. ASSUME NEW n \in Names, NEW j \in 1 .. i, Layers[j][n].kind # "no" PROVE Has(r, n)
      <3>1. CASE \E k \in DOMAIN new : new[k] = n
        <4>1. PICK k \in DOMAIN new : new[k] = n
          BY <3>1
        <4>2. PICK m \in DOMAIN r : r[m] = head[k]
          BY <2>2, <2>8
        <4> QED
          BY <2>3, <4>1, <4>2 DEF Has
      <3>2. CASE ~\E k \in DOMAIN new : new[k] = n
        <4>1. j # i
          BY <1>11, <2>10, <3>2
        <4>2. j \in 1 .. i - 1
          BY <1>a, <4>1
        <4>3. PICK k \in DOMAIN list : list[k].name = n
          BY <1>0, <2>10, <4>2 DEF Has
        <4>4. list[k] \in T
          BY <2>5, <3>2, <4>3 DEF ToSet
        <4>5. PICK m \in DOMAIN rest : rest[m] = list[k]
          BY <2>6, <4>4
        <4>6. PICK q \in DOMAIN r : r[q] = rest[m]
          BY <2>8
        <4> QED
          BY <4>3, <4>5, <4>6 DEF Has
      <3> QED
        BY <3>1, <3>2
    <2> QED
      BY <2>8, <2>9, <2>10 DEF Lists
  <1>13. CASE i # Len(Layers)
    <2>1. r = list \o add
      BY <1>6, <1>13
    <2>2. PICK T : T = {n \in Names : ~\E k \in DOMAIN list : list[k].name = n}
      OBVIOUS
    <2>3. /\ fresh \in Seq(Names) /\ Injective(fresh)
          /\ \A k \in DOMAIN fresh : fresh[k] \in T /\ \E m \in DOMAIN new : new[m] = fresh[k]
          /\ \A k \in DOMAIN new : new[k] \in T => \E m \in DOMAIN fresh : fresh[m] = new[k]
      <3>1. Filtered(fresh, new, Names, T)
        BY <1>3, <1>11, <2>2, FilterFacts
      <3> QED
        BY <1>11, <3>1, Zenon DEF Filtered
    <2>4. /\ add = [k \in DOMAIN fresh |-> add[k]] /\ DOMAIN add = DOMAIN fresh
          /\ \A k \in DOMAIN fresh : add[k] = entry(fresh[k])
      BY <1>5
    <2>5. ASSUME NEW k \in DOMAIN fresh
          PROVE  /\ add[k] \in EntryType /\ add[k].name = fresh[k] /\ EntryOk(add[k], i)
                 /\ ~Has(list, fresh[k])
      <3>1. ~Has(list, fresh[k]) /\ fresh[k] \in Names
        BY <2>2, <2>3 DEF Has
      <3>2. Layers[i][fresh[k]].kind # "no"
        BY <1>11, <2>3
      <3> QED
        BY <1>7, <1>9, <2>4, <3>1, <3>2
    <2>6. add \in Seq(EntryType) /\ Distinct(add)
      BY <2>3, <2>4, <2>5, NamedList
    <2>7. \A k \in DOMAIN list, m \in DOMAIN add : list[k].name # add[m].name
      BY <2>4, <2>5 DEF Has
    <2>8. /\ r \in Seq(EntryType) /\ Distinct(r)
          /\ \A k \in DOMAIN r : (\E m \in DOMAIN list : r[k] = list[m]) \/ (\E m \in DOMAIN add : r[k] = add[m])
          /\ \A m \in DOMAIN list : \E k \in DOMAIN r : r[k] = list[m]
          /\ \A m \in DOMAIN add : \E k \in DOMAIN r : r[k] = add[m]
      <3>1. Joined(r, list, add, EntryType)
        BY <1>0, <2>1, <2>6, <2>7, JoinLists
      <3> QED
        BY <3>1, Zenon DEF Joined
    <2>9. ASSUME NEW k \in DOMAIN r PROVE EntryOk(r[k], i)
      <3>1. CASE \E m \in DOMAIN list : r[k] = list[m]
        BY <1>0, <1>8, <3>1
      <3>2. CASE \E m \in DOMAIN add : r[k] = add[m]
        BY <2>4, <2>5, <3>2
      <3> QED
        BY <2>8, <3>1, <3>2
    <2>10. ASSUME NEW n \in Names, NEW j \in 1 .. i, Layers[j][n].kind # "no" PROVE Has(r, n)
      <3>1. CASE Has(list, n)
        <4>1. PICK k \in DOMAIN list : list[k].name = n
          BY <3>1 DEF Has
        <4>2. PICK m \in DOMAIN r : r[m] = list[k]
          BY <2>8
        <4> QED
          BY <4>1, <4>2 DEF Has
      <3>2. CASE ~Has(list, n)
        <4>1. j \notin 1 .. i - 1
          BY <1>0, <2>10, <3>2
        <4>2. j = i
          BY <1>a, <4>1
        <4>3. PICK k \in DOMAIN new : new[k] = n
          BY <1>11, <2>10, <4>2
        <4>4. n \in T
          BY <2>2, <3>2 DEF Has
        <4>5. PICK m \in DOMAIN fresh : fresh[m] = n
          BY <2>3, <4>3, <4>4
        <4>6. PICK q \in DOMAIN r : r[q] = add[m]
          BY <2>4, <2>8
        <4> QED
          BY <2>5, <4>5, <4>6 DEF Has
      <3> QED
        BY <3>1, <3>2
    <2> QED
      BY <2>8, <2>9, <2>10 DEF Lists
  <1> QED
    BY <1>12, <1>13

\* ovl_dir_read_merged: an entry for each name of some layer, that of the topmost one.
LEMMA MergedRead ==
  ASSUME ContentInv, dir.hasUpper \in BOOLEAN, changes \in Nat
  PROVE  Lists(ReadMerged, Len(Layers))
  <1> DEFINE Rec(g) == [i \in 0 .. Len(Layers) |-> IF i = 0 THEN <<>> ELSE FillMerge(g[i - 1], i)]
  <1>0. PICK n : n = Len(Layers)
    OBVIOUS
  <1>1. n \in Nat /\ DOMAIN Layers = 1 .. n
    BY <1>0, LayersFacts DEF LayersTyped
  <1>2. PICK F : F = [i \in 1 .. n |-> [x \in Seq(EntryType) |-> FillMerge(x, i)]]
    OBVIOUS
  <1>3. ASSUME NEW i \in 1 .. n, NEW x \in Seq(EntryType)
        PROVE  F[i][x] = FillMerge(x, i) /\ F[i][x] \in Seq(EntryType)
    <2>1. F[i][x] = FillMerge(x, i)
      BY <1>2
    <2>2. FillMerge(x, i) \in Seq(EntryType)
      BY <1>1, FillTyped
    <2> QED
      BY <2>1, <2>2
  <1>4. PICK a, c : a = 0 /\ c = <<>>
    OBVIOUS
  <1>5. \A i \in a + 1 .. n : i \in 1 .. n
    BY <1>1, <1>4
  <1>6. Stays(Seq(EntryType), a, n, F)
    BY <1>3, <1>5 DEF Stays
  <1>7. PICK g : IsRec(g, Seq(EntryType), c, a, n, F)
    <2>1. c \in Seq(EntryType) /\ a \in Nat /\ a <= n
      BY <1>1, <1>4
    <2> QED
      BY <1>1, <1>6, <2>1, RecExists
  <1>8. g \in [0 .. n -> Seq(EntryType)] /\ g[0] = <<>> /\ \A i \in 1 .. n : g[i] = F[i][g[i - 1]]
    BY <1>1, <1>4, <1>7 DEF IsRec
  <1>9. ASSUME NEW i \in 0 .. n, i # 0 PROVE g[i] = FillMerge(g[i - 1], i)
    <2>1. i \in 1 .. n /\ i - 1 \in 0 .. n
      BY <1>1, <1>9
    <2>2. g[i - 1] \in Seq(EntryType)
      BY <1>8, <2>1
    <2> QED
      BY <1>3, <1>8, <2>1, <2>2
  <1>10. g = Rec(g)
    <2>1. \A i \in 0 .. n : g[i] = IF i = 0 THEN <<>> ELSE FillMerge(g[i - 1], i)
      BY <1>8, <1>9
    <2>2. g = [i \in 0 .. n |-> g[i]]
      BY <1>8
    <2> QED
      BY <1>0, <2>1, <2>2
  <1>11. PICK w : w = CHOOSE x : x = Rec(x)
    OBVIOUS
  <1>12. w = Rec(w)
    BY <1>10, <1>11, Zenon
  <1>13. ReadMerged = w[n]
    BY <1>0, <1>11 DEF ReadMerged
  <1>14. w[0] = <<>> /\ \A i \in 1 .. n : w[i] = FillMerge(w[i - 1], i)
    <2>1. \A i \in 0 .. n : w[i] = IF i = 0 THEN <<>> ELSE FillMerge(w[i - 1], i)
      BY <1>0, <1>12
    <2>2. 0 \in 0 .. n /\ \A i \in 1 .. n : i \in 0 .. n /\ i # 0
      BY <1>1
    <2> QED
      BY <2>1, <2>2
  <1> DEFINE Bad == {m \in 0 .. n : ~Lists(w[m], m)}
  <1>15. Bad = {}
    <2> SUFFICES ASSUME Bad # {} PROVE FALSE
      OBVIOUS
    <2>0. Bad \subseteq Nat
      OBVIOUS
    <2>1. PICK m \in Bad : \A y \in Bad : m <= y
      <3> HIDE DEF Bad
      <3> QED
        BY <2>0, LeastNat
    <2>2. m \in 0 .. n /\ ~Lists(w[m], m)
      OBVIOUS
    <2>3. m # 0
      <3>1. <<>> \in Seq(EntryType) /\ DOMAIN <<>> = {}
        OBVIOUS
      <3>2. 1 .. 0 = {}
        OBVIOUS
      <3>3. Lists(<<>>, 0)
        BY <3>1, <3>2, Zenon DEF Lists, Distinct
      <3> QED
        BY <1>14, <2>2, <3>3
    <2>4. m \in 1 .. n /\ m - 1 \in 0 .. n /\ m - 1 \notin Bad
      BY <1>1, <2>1, <2>2, <2>3
    <2>5. Lists(w[m - 1], m - 1)
      BY <2>4
    <2>6. Lists(w[m], m)
      BY <1>1, <1>14, <2>4, <2>5, FillStep
    <2> QED
      BY <2>2, <2>6
  <1>16. n \in 0 .. n /\ n \notin Bad
    BY <1>1, <1>15
  <1> QED
    BY <1>0, <1>13, <1>16

LEMMA ShownMember ==
  ASSUME NEW es \in Seq(EntryType), NEW n
  PROVE  /\ \A k : n \in ShownBelow(es, k) <=>
                     \E i \in DOMAIN es : i < k /\ ~es[i].whiteout /\ es[i].name = n
         /\ n \in Shown(es) <=> \E i \in DOMAIN es : ~es[i].whiteout /\ es[i].name = n
  <1>1. \A k : n \in ShownBelow(es, k) <=>
                 \E i \in DOMAIN es : i < k /\ ~es[i].whiteout /\ es[i].name = n
    BY DEF ShownBelow
  <1>2. \A i \in DOMAIN es : i < Len(es) + 1
    OBVIOUS
  <1> QED
    BY <1>1, <1>2 DEF Shown

\* The merged list shows what is there.
LEMMA MergedMade ==
  ASSUME ContentInv, dir.hasUpper \in BOOLEAN, changes \in Nat, NEW es, es = ReadMerged
  PROVE  es \in Seq(EntryType) /\ Distinct(es) /\ MergedValid(es)
  <1>1. Lists(es, Len(Layers))
    BY MergedRead
  <1>2. es \in Seq(EntryType) /\ Distinct(es)
    BY <1>1 DEF Lists
  <1>3. LayersTyped /\ OriginsUpper /\ DOMAIN Layers \subseteq Nat
    BY LayersFacts DEF LayersTyped
  <1>4. ASSUME NEW k \in DOMAIN es
        PROVE  \E j \in DOMAIN Layers :
                 /\ TopNode(Layers, es[k].name) = Layers[j][es[k].name]
                 /\ Layers[j][es[k].name].kind # "no"
                 /\ es[k] = CacheEntry(es[k].name, Layers[j][es[k].name], dir.hasUpper /\ j = 1)
                 /\ es[k].name \in Names
    <2>1. PICK j \in 1 .. Len(Layers) :
            /\ First(Layers, es[k].name, j)
            /\ es[k] = CacheEntry(es[k].name, Layers[j][es[k].name], dir.hasUpper /\ j = 1)
      BY <1>1 DEF Lists, EntryOk
    <2>2. j \in DOMAIN Layers /\ Layers[j][es[k].name].kind # "no"
      BY <2>1 DEF First
    <2>3. TopNode(Layers, es[k].name) = Layers[j][es[k].name]
      BY <1>3, <2>1, TopFirst
    <2>4. es[k] \in EntryType
      BY <1>2
    <2>5. es[k].name \in Names
      BY <2>4 DEF EntryType
    <2> QED
      BY <2>1, <2>2, <2>3, <2>5
  <1>5. ASSUME NEW k \in DOMAIN es
        PROVE  /\ ~es[k].whiteout <=> TopNode(Layers, es[k].name).kind = "object"
               /\ ~es[k].whiteout => InoFits(es[k])
               /\ es[k].name \in Names
    <2>1. PICK j \in DOMAIN Layers :
                 /\ TopNode(Layers, es[k].name) = Layers[j][es[k].name]
                 /\ Layers[j][es[k].name].kind # "no"
                 /\ es[k] = CacheEntry(es[k].name, Layers[j][es[k].name], dir.hasUpper /\ j = 1)
                 /\ es[k].name \in Names
      BY <1>4
    <2>2. PICK e, n, u, p : /\ e = Layers[j][n] /\ n = es[k].name /\ u = (dir.hasUpper /\ j = 1)
                            /\ p = es[k]
      OBVIOUS
    <2>3. Node(e) /\ n \in Names /\ u \in BOOLEAN /\ p = CacheEntry(n, e, u) /\ e.kind # "no"
          /\ TopNode(Layers, n) = e
      BY <1>3, <2>1, <2>2 DEF LayersTyped
    <2>4. /\ p.whiteout = (e.kind = "whiteout") /\ p.real = e.real
          /\ p.ino = IF u /\ dir.impure THEN 0 ELSE e.real
      BY <2>3, EntryFields
    <2>5. e.kind \in {"no", "whiteout", "object"} /\ (e.kind = "object" => e.real # 0)
      BY <2>3, NodeFields
    <2>6. HasOrigin(e) => u /\ dir.impure
      BY <1>3, <2>1, <2>2 DEF OriginsUpper
    <2>7. ~p.whiteout <=> e.kind = "object"
      <3>1. p.whiteout <=> e.kind = "whiteout"
        BY <2>4, Zenon
      <3>2. e.kind = "object" <=> ~(e.kind = "whiteout")
        BY <2>3, <2>5
      <3> QED
        BY <3>1, <3>2, Zenon
    <2>8. ASSUME e.kind = "object" PROVE InoFits(p)
      <3>1. HasOrigin(e) \/ e.real = e.st
        BY <2>8 DEF HasOrigin
      <3>2. p.name = n /\ StIno(Layers, n) = e.st
        BY <2>2, <2>3 DEF StIno
      <3>3. CASE u /\ dir.impure
        BY <2>3, <2>4, <3>1, <3>2, <3>3 DEF InoFits
      <3>4. CASE ~(u /\ dir.impure)
        BY <2>3, <2>4, <2>5, <2>6, <2>8, <3>1, <3>2, <3>4 DEF InoFits
      <3> QED
        BY <3>3, <3>4
    <2> QED
      BY <2>1, <2>2, <2>3, <2>7, <2>8
  <1>6. ASSUME NEW n \in Visible(Layers) PROVE n \in Shown(es)
    <2>1. n \in Names /\ TopNode(Layers, n).kind = "object"
      BY DEF Visible
    <2>2. PICK j : First(Layers, n, j)
      <3>1. Gone.kind # "object"
        BY DEF Gone
      <3> QED
        BY <1>3, <2>1, <3>1, TopCases
    <2>3. j \in 1 .. Len(Layers) /\ Layers[j][n].kind # "no"
      BY <1>3, <2>2 DEF First, LayersTyped
    <2>4. PICK k \in DOMAIN es : es[k].name = n
      BY <1>1, <2>1, <2>3 DEF Lists, Has
    <2>5. ~es[k].whiteout
      BY <1>5, <2>1, <2>4
    <2> QED
      BY <1>2, <2>4, <2>5, ShownMember
  <1>7. ASSUME NEW n \in Shown(es) PROVE n \in Visible(Layers)
    <2>1. PICK k \in DOMAIN es : ~es[k].whiteout /\ es[k].name = n
      BY <1>2, ShownMember
    <2> QED
      BY <1>5, <2>1 DEF Visible
  <1>8. InosFit(es, Names)
    BY <1>5 DEF InosFit
  <1> QED
    BY <1>2, <1>6, <1>7, <1>8 DEF MergedValid

\* A step that leaves the layers of the directory and its version alone, and one that
\* changes at most the impure flag.
SameView ==
  /\ dir'.kind = dir.kind /\ dir'.hasUpper = dir.hasUpper /\ dir'.upper = dir.upper
  /\ dir'.version = dir.version /\ dir'.linked = dir.linked
SameDir == SameView /\ dir'.whiteouts = dir.whiteouts /\ dir'.linking = dir.linking

LEMMA SameLayers ==
  ASSUME SameView
  PROVE  Layers' = Layers /\ Lower' = Lower /\ (Merge' <=> Merge)
  BY DEF SameView, Layers, Lower, Merge

LEMMA SameCaches ==
  ASSUME SameView
  PROVE  \A cache : CacheOk(cache)' <=> CacheOk(cache)
  <1>1. Layers' = Layers
    BY SameLayers
  <1>2. \A e : InoFits(e)' <=> InoFits(e)
    BY <1>1 DEF InoFits, StIno
  <1>3. \A es, names : InosFit(es, names)' <=> InosFit(es, names)
    BY <1>2, Zenon DEF InosFit
  <1>4. \A es : MergedValid(es)' <=> MergedValid(es)
    BY <1>1, <1>3, Zenon DEF MergedValid
  <1>5. \A es : ImpureValid(es)' <=> ImpureValid(es)
    BY Zenon DEF ImpureValid, SameView
  <1>6. \A cache : Valid(cache)' <=> Valid(cache)
    BY <1>4, <1>5, Zenon DEF Valid
  <1>7. ASSUME NEW cache PROVE CacheOk(cache)' <=> CacheOk(cache)
    BY <1>6, Zenon DEF CacheOk, SameView
  <1> QED
    BY <1>7

LEMMA SameListings ==
  ASSUME SameView, NEW s, NEW f, NEW l
  PROVE  /\ FileOk(s, f)' <=> FileOk(s, f)
         /\ ListingOk(s, f, l)' <=> ListingOk(s, f, l)
  <1>1. Layers' = Layers /\ Lower' = Lower /\ (Merge' <=> Merge)
    BY SameLayers
  <1>2. \A e : InoFits(e)' <=> InoFits(e)
    BY <1>1 DEF InoFits, StIno
  <1>3. \A es, names : InosFit(es, names)' <=> InosFit(es, names)
    BY <1>2, Zenon DEF InosFit
  <1>4. \A es, cursor : MergedListing(l, es, cursor)' <=> MergedListing(l, es, cursor)
    BY <1>3, Zenon DEF MergedListing
  <1>5. \A file : RealLayer(file)' = RealLayer(file)
    BY <1>1, Zenon DEF RealLayer, SameView
  <1>6. \A file : LowerFits(l, file)' <=> LowerFits(l, file)
    BY <1>1 DEF LowerFits, StIno
  <1>7. FileOk(s, f)' <=> FileOk(s, f)
    BY <1>1, Zenon DEF FileOk, SameView
  <1>8. ListingOk(s, f, l)' <=> ListingOk(s, f, l)
    <2>1. \A file : Astray(file)' <=> Astray(file)
      BY <1>1, Zenon DEF Astray
    <2> QED
      BY <1>1, <1>4, <1>5, <1>6, <2>1, Zenon DEF ListingOk
  <1> QED
    BY <1>7, <1>8

\* The impure list has the names whose number differs.
LEMMA ImpureListed ==
  ASSUME ContentInv, ~Merge, changes \in Nat, NEW es, es = ReadImpure
  PROVE  /\ es \in Seq(EntryType) /\ Distinct(es) /\ ImpureValid(es)
         /\ es = <<>> => \A n \in Names : ~HasOrigin(dir.upper[n])
  <1> DEFINE entry(n) == [name |-> n, whiteout |-> FALSE, real |-> dir.upper[n].real,
                          ino |-> IF HasOrigin(dir.upper[n]) /\ n \notin dir.linking
                                  THEN dir.upper[n].st ELSE dir.upper[n].real,
                          early |-> FALSE]
  <1>1. PICK all : all = NamesOf(dir.upper)
    OBVIOUS
  <1>2. PICK list : list = [k \in DOMAIN all |-> entry(all[k])]
    OBVIOUS
  <1>3. PICK T : T = {p \in ToSet(list) : p.ino # p.real}
    OBVIOUS
  <1>4. es = Filter(list, T)
    BY <1>1, <1>2, <1>3 DEF ReadImpure
  <1>5. /\ all \in Seq(Names) /\ Injective(all)
        /\ \A k \in DOMAIN all : all[k] \in Names /\ dir.upper[all[k]].kind # "no"
        /\ \A n \in Names : dir.upper[n].kind # "no" => \E k \in DOMAIN all : all[k] = n
    BY <1>1, NamesOfFacts
  <1>6. ASSUME NEW n \in Names
        PROVE  /\ entry(n) \in EntryType /\ entry(n).name = n
               /\ entry(n).ino # entry(n).real <=> HasOrigin(dir.upper[n])
               /\ HasOrigin(dir.upper[n]) => entry(n).ino = dir.upper[n].st
    <2>1. dir.upper[n].real \in Nat /\ dir.upper[n].st \in Nat /\ n \notin dir.linking
      BY NodeFields DEF ContentInv
    <2> QED
      BY <2>1 DEF EntryType, HasOrigin
  <1>7. \A k \in DOMAIN all : list[k] = entry(all[k])
    BY <1>2
  <1> HIDE DEF entry
  <1>8. /\ list = [k \in DOMAIN all |-> list[k]] /\ DOMAIN list = DOMAIN all
        /\ \A k \in DOMAIN all : list[k] \in EntryType /\ list[k].name = all[k]
    BY <1>2, <1>5, <1>6, <1>7
  <1>9. list \in Seq(EntryType) /\ Distinct(list)
    BY <1>5, <1>8, NamedList
  <1>10. Filtered(es, list, EntryType, T)
    BY <1>4, <1>9, FilterFacts
  <1>11. es \in Seq(EntryType) /\ Distinct(es)
    BY <1>9, <1>10 DEF Filtered
  <1>12. ASSUME NEW k \in DOMAIN es
         PROVE  HasOrigin(dir.upper[es[k].name]) /\ es[k].ino = dir.upper[es[k].name].st
    <2>1. PICK i \in DOMAIN list : list[i] = es[k]
      BY <1>10 DEF Filtered
    <2>2. es[k] \in T
      BY <1>10 DEF Filtered
    <2>3. es[k].ino # es[k].real
      BY <1>3, <2>2
    <2>4. es[k] = entry(all[i]) /\ all[i] \in Names
      BY <1>5, <1>7, <1>8, <2>1
    <2> QED
      BY <1>6, <2>3, <2>4
  <1>13. ASSUME NEW n \in Names, HasOrigin(dir.upper[n])
         PROVE  \E k \in DOMAIN es : es[k].name = n
    <2>1. dir.upper[n].kind # "no"
      BY <1>13 DEF HasOrigin
    <2>2. PICK i \in DOMAIN list : all[i] = n
      BY <1>5, <1>8, <2>1
    <2>3. list[i] = entry(n) /\ list[i].name = n
      BY <1>7, <1>8, <2>2
    <2>4. list[i] \in T
      <3>1. list[i] \in ToSet(list)
        BY DEF ToSet
      <3> QED
        BY <1>3, <1>6, <1>13, <2>3, <3>1
    <2>5. PICK k \in DOMAIN es : es[k] = list[i]
      BY <1>10, <2>4 DEF Filtered
    <2> QED
      BY <2>3, <2>5
  <1>14. ImpureValid(es)
    BY <1>12, <1>13 DEF ImpureValid
  <1>15. ASSUME es = <<>> PROVE \A n \in Names : ~HasOrigin(dir.upper[n])
    <2>1. DOMAIN es = {}
      BY <1>15
    <2> QED
      BY <1>13, <2>1
  <1> QED
    BY <1>11, <1>14, <1>15

-----------------------------------------------------------------------------
(* What a call of file f leaves to the others. *)

Rest(s, f) ==
  CachesOk(s) /\ \A g \in Fds \ {f} : FileOk(s, g) /\ ListingOk(s, g, listing[g])

SameContent(a, b) ==
  a.live /\ b.live /\ b.version = a.version /\ b.entries = a.entries /\ b.impure = a.impure

Carried(s, t, f) ==
  /\ \A g \in Fds \ {f} : t.fd[g] = s.fd[g]
  /\ \A c \in CacheIds : t.heap[c].live => SameContent(s.heap[c], t.heap[c]) \/ CacheOk(t.heap[c])
  /\ \A g \in Fds \ {f} : s.fd[g].cache # None =>
       SameContent(s.heap[s.fd[g].cache], t.heap[s.fd[g].cache])

LEMMA CarriedRest ==
  ASSUME NEW s, NEW t, NEW f, Rest(s, f), Carried(s, t, f)
  PROVE  Rest(t, f)
  <1>1. \A a, b : SameContent(a, b) /\ CacheOk(a) => CacheOk(b)
    <2> TAKE a, b
    <2> HAVE SameContent(a, b) /\ CacheOk(a)
    <2>1. b.version = a.version /\ b.entries = a.entries /\ b.impure = a.impure
      BY DEF SameContent
    <2>2. Valid(a) <=> Valid(b)
      BY <2>1, Zenon DEF Valid
    <2> QED
      BY <2>1, <2>2, Zenon DEF CacheOk
  <1>2. CachesOk(t)
    BY <1>1 DEF CachesOk, Rest, Carried, SameContent
  <1>3. ASSUME NEW g \in Fds \ {f}
        PROVE  FileOk(t, g) /\ ListingOk(t, g, listing[g])
    <2>1. t.fd[g] = s.fd[g] /\ FileOk(s, g) /\ ListingOk(s, g, listing[g])
      BY DEF Rest, Carried
    <2>2. s.fd[g].cache # None =>
            t.heap[s.fd[g].cache].entries = s.heap[s.fd[g].cache].entries
      BY DEF Carried, SameContent
    <2>3. FileOk(t, g)
      BY <2>1, <2>2, Zenon DEF FileOk
    <2>4. ListingOk(t, g, listing[g])
      BY <2>1, <2>2, Zenon DEF ListingOk
    <2> QED
      BY <2>3, <2>4
  <1> QED
    BY <1>2, <1>3 DEF Rest

\* A reader is the only one when the count is 1.
LEMMA LastReader ==
  ASSUME NEW s, NEW c, NEW f, NEW g, f \in Readers(s, c), g \in Readers(s, c),
         Cardinality(Readers(s, c)) = 1
  PROVE  f = g
  <1>1. IsFiniteSet(Readers(s, c))
    BY ReadersFinite
  <1>2. Cardinality(Readers(s, c) \ {f}) = 0 /\ IsFiniteSet(Readers(s, c) \ {f})
    BY <1>1, FS_RemoveElement
  <1>3. Readers(s, c) \ {f} = {}
    BY <1>2, FS_EmptySet
  <1> QED
    BY <1>3

\* ovl_cache_put frees a cache that no other file reads.
LEMMA PutContent ==
  ASSUME NEW s, CacheInv(s), NEW f \in Fds, s.fd[f].cache # None,
         NEW t, t = CachePut(s, f)
  PROVE  Carried(s, t, f) /\ t.fd[f].pos = s.fd[f].pos
  <1> DEFINE c == s.fd[f].cache
  <1>0. Shape(s) /\ FilesOk(s) /\ HeapOk(s)
    BY DEF CacheInv
  <1>1. c \in CacheIds /\ None \notin CacheIds /\ DOMAIN s = {"oi", "heap", "fd", "impure"}
    BY <1>0, ReadDirAssumption DEF Shape
  <1>2. /\ t.heap = [s.heap EXCEPT ![c] = PutRef(s.heap[c])]
        /\ t.fd = [s.fd EXCEPT ![f] = [s.fd[f] EXCEPT !.cache = None, !.cursor = 0]]
    <2>1. t.heap = [s.heap EXCEPT ![c] = PutRef(s.heap[c])]
      BY <1>1 DEF CachePut
    <2>2. t.fd = [s.fd EXCEPT ![f] = [s.fd[f] EXCEPT !.cache = None, !.cursor = 0]]
      BY <1>0, <1>1 DEF CachePut, Shape
    <2> QED
      BY <2>1, <2>2
  <1>3. /\ t.fd[f].pos = s.fd[f].pos
        /\ \A g \in Fds \ {f} : t.fd[g] = s.fd[g]
    BY <1>0, <1>2 DEF Shape
  <1>4. /\ t.heap[c] = PutRef(s.heap[c])
        /\ \A d \in CacheIds : d # c => t.heap[d] = s.heap[d]
    BY <1>0, <1>1, <1>2 DEF Shape
  <1>5. /\ s.heap[c].live /\ s.heap[c].refcount = Cardinality(Readers(s, c))
        /\ DOMAIN s.heap[c] = {"live", "refcount", "version", "entries", "impure"}
        /\ s.heap[c].refcount > 0
    <2>1. s.heap[c].live /\ dir.whiteouts
      BY <1>0 DEF HeapOk, FilesOk
    <2> QED
      BY <1>0, <1>1, <2>1 DEF HeapOk, Shape
  <1>6. f \in Readers(s, c)
    BY DEF Readers
  <1> HIDE DEF c
  <1>7. s.heap[c].refcount # 1 => SameContent(s.heap[c], t.heap[c])
    <2> HAVE s.heap[c].refcount # 1
    <2>1. PutRef(s.heap[c]) = [s.heap[c] EXCEPT !.refcount = @ - 1]
      BY DEF PutRef
    <2>2. PICK y : y = [s.heap[c] EXCEPT !.refcount = @ - 1]
      OBVIOUS
    <2>3. /\ y.live = s.heap[c].live /\ y.version = s.heap[c].version
          /\ y.entries = s.heap[c].entries /\ y.impure = s.heap[c].impure
      BY <1>5, <2>2
    <2>4. t.heap[c] = y
      BY <1>4, <2>1, <2>2
    <2> QED
      BY <1>5, <2>3, <2>4, Zenon DEF SameContent
  <1>8. s.heap[c].refcount = 1 => ~t.heap[c].live
    BY <1>4, FreeFields DEF PutRef
  <1>9. ASSUME NEW g \in Fds \ {f}, s.fd[g].cache # None
        PROVE  SameContent(s.heap[s.fd[g].cache], t.heap[s.fd[g].cache])
    <2>1. s.fd[g].cache \in CacheIds /\ s.heap[s.fd[g].cache].live
      BY <1>0, <1>9 DEF Shape, HeapOk
    <2>2. CASE s.fd[g].cache # c
      BY <1>4, <2>1, <2>2 DEF SameContent
    <2>3. CASE s.fd[g].cache = c
      <3>1. g \in Readers(s, c)
        BY <2>3 DEF Readers
      <3>2. s.heap[c].refcount # 1
        BY <1>5, <1>6, <3>1, LastReader
      <3> QED
        BY <1>7, <2>3, <3>2
    <2> QED
      BY <2>2, <2>3
  <1>10. ASSUME NEW d \in CacheIds, t.heap[d].live PROVE SameContent(s.heap[d], t.heap[d])
    <2>1. CASE d = c
      BY <1>7, <1>8, <1>10, <2>1
    <2>2. CASE d # c
      BY <1>4, <1>10, <2>2 DEF SameContent
    <2> QED
      BY <2>1, <2>2
  <1> QED
    BY <1>3, <1>9, <1>10 DEF Carried

\* What the others have does not change with the file of f alone.
LEMMA OwnFile ==
  ASSUME NEW s, CacheInv(s), NEW f, NEW t, t.heap = s.heap,
         \A g \in Fds \ {f} : t.fd[g] = s.fd[g]
  PROVE  Carried(s, t, f)
  <1>1. \A c \in CacheIds : s.heap[c].live => SameContent(s.heap[c], t.heap[c])
    BY DEF SameContent
  <1>2. \A g \in Fds : s.fd[g].cache # None => s.fd[g].cache \in CacheIds /\ s.heap[s.fd[g].cache].live
    BY DEF CacheInv, Shape, HeapOk
  <1> QED
    BY <1>1, <1>2 DEF Carried

LEMMA RealContent ==
  ASSUME NEW s, CacheInv(s), NEW f \in Fds, NEW b, NEW t, t = [s EXCEPT !.fd[f].isReal = b]
  PROVE  /\ Carried(s, t, f) /\ t.heap = s.heap
         /\ t.fd[f].pos = s.fd[f].pos /\ t.fd[f].cursor = s.fd[f].cursor
         /\ t.fd[f].cache = s.fd[f].cache
  <1>1. /\ DOMAIN s = {"oi", "heap", "fd", "impure"} /\ s.fd = [g \in Fds |-> s.fd[g]]
        /\ DOMAIN s.fd[f] = {"open", "isReal", "isUpper", "cache", "cursor", "pos"}
    BY DEF CacheInv, Shape
  <1>2. t.heap = s.heap /\ t.fd = [s.fd EXCEPT ![f] = [s.fd[f] EXCEPT !.isReal = b]]
    BY <1>1
  <1>3. \A g \in Fds \ {f} : t.fd[g] = s.fd[g]
    BY <1>1, <1>2
  <1>4. /\ t.fd[f].pos = s.fd[f].pos /\ t.fd[f].cursor = s.fd[f].cursor
        /\ t.fd[f].cache = s.fd[f].cache
    BY <1>1, <1>2
  <1> QED
    BY <1>2, <1>3, <1>4, OwnFile

\* ovl_dir_reset leaves a file without a stale cache.
LEMMA ResetContent ==
  ASSUME NEW s, CacheInv(s), NEW f \in Fds, dir.whiteouts \in BOOLEAN,
         Rest(s, f), FileOk(s, f), NEW t, t = DirReset(s, f)
  PROVE  /\ Rest(t, f) /\ FileOk(t, f) /\ t.fd[f].pos = s.fd[f].pos
         /\ t.fd[f].cache # None => t.heap[t.fd[f].cache].version = dir.version
  <1> DEFINE put == s.fd[f].cache # None /\ s.heap[s.fd[f].cache].version # dir.version
  <1>0. PICK u : u = IF put THEN CachePut(s, f) ELSE s
    OBVIOUS
  <1>1. t = [u EXCEPT !.fd[f].isReal = @ /\ ~dir.whiteouts]
    BY <1>0 DEF DirReset
  <1>2. /\ CacheInv(u) /\ Rest(u, f) /\ FileOk(u, f)
        /\ u.fd[f].pos = s.fd[f].pos
        /\ u.fd[f].cache # None => u.heap[u.fd[f].cache].version = dir.version
    <2>1. CASE put
      <3>1. u = CachePut(s, f)
        BY <1>0, <2>1
      <3>2. /\ CacheInv(u) /\ u.fd[f].cache = None
            /\ u.fd[f].open = s.fd[f].open /\ u.fd[f].isReal = s.fd[f].isReal
            /\ u.fd[f].isUpper = s.fd[f].isUpper
        BY <2>1, <3>1, PutStep
      <3>3. Carried(s, u, f) /\ u.fd[f].pos = s.fd[f].pos
        BY <2>1, <3>1, PutContent
      <3>4. Rest(u, f)
        BY <3>3, CarriedRest
      <3>5. FileOk(u, f)
        BY <3>2, <3>3, Zenon DEF FileOk
      <3> QED
        BY <3>2, <3>3, <3>4, <3>5
    <2>2. CASE ~put
      BY <1>0, <2>2
    <2> QED
      BY <2>1, <2>2
  <1>3. PICK b : b = (u.fd[f].isReal /\ ~dir.whiteouts)
    OBVIOUS
  <1>4. t = [u EXCEPT !.fd[f].isReal = b]
    BY <1>1, <1>3
  <1>5. /\ Carried(u, t, f) /\ t.heap = u.heap
        /\ t.fd[f].pos = u.fd[f].pos /\ t.fd[f].cursor = u.fd[f].cursor
        /\ t.fd[f].cache = u.fd[f].cache
    BY <1>2, <1>4, RealContent
  <1>6. /\ t.fd[f].open = u.fd[f].open /\ t.fd[f].isUpper = u.fd[f].isUpper
        /\ t.fd[f].isReal <=> u.fd[f].isReal /\ ~dir.whiteouts
    BY <1>1, <1>2, RealStep
  <1>7. FileOk(t, f)
    BY <1>2, <1>5, <1>6, Zenon DEF FileOk
  <1>8. Rest(t, f)
    BY <1>2, <1>5, CarriedRest
  <1> QED
    BY <1>2, <1>5, <1>7, <1>8

GotCache(s, t, f) ==
  /\ Rest(t, f) /\ FileOk(t, f) /\ t.fd[f].pos = s.fd[f].pos
  /\ t.fd[f].open = s.fd[f].open /\ t.fd[f].isReal = s.fd[f].isReal
  /\ t.fd[f].isUpper = s.fd[f].isUpper /\ t.impure = s.impure
  /\ t.heap[t.fd[f].cache].version = dir.version
  /\ t.fd[f].cache \in CacheIds

\* ovl_cache_get: the cache of the file is valid for the directory as it is.
LEMMA GetContent ==
  ASSUME NEW s, CacheInv(s), dir.whiteouts, NEW f \in Fds,
         s.fd[f].cache = None, s.fd[f].open, ~s.fd[f].isReal,
         ContentInv, DirInv, Rest(s, f), FileOk(s, f),
         NEW t, t = CacheGet(s, f)
  PROVE  GotCache(s, t, f)
  <1>0. Shape(s) /\ HeapOk(s) /\ None \notin CacheIds
    BY ReadDirAssumption DEF CacheInv
  <1>d. DOMAIN s = {"oi", "heap", "fd", "impure"} /\ s.fd = [g \in Fds |-> s.fd[g]]
        /\ DOMAIN s.fd[f] = {"open", "isReal", "isUpper", "cache", "cursor", "pos"}
    BY <1>0 DEF Shape
  <1>1. PICK c : c = IF Current(s) THEN s.oi ELSE NewId(s)
    OBVIOUS
  <1> DEFINE new == [live |-> TRUE, refcount |-> 1, version |-> dir.version,
                     entries |-> ReadMerged, impure |-> FALSE]
  <1>2. c \in CacheIds /\ (Current(s) => c = s.oi) /\ (~Current(s) => ~s.heap[c].live)
    <2>1. CASE Current(s)
      BY <2>1, <1>0, <1>1 DEF Current, Shape
    <2>2. CASE ~Current(s)
      BY <2>2, <1>1, FreeExists
    <2> QED
      BY <2>1, <2>2
  <1>3. PICK y : y = IF Current(s) THEN [s.heap[c] EXCEPT !.refcount = @ + 1] ELSE new
    OBVIOUS
  <1>4. PICK u : u = IF Current(s) THEN [s EXCEPT !.heap[c].refcount = @ + 1]
                     ELSE [s EXCEPT !.oi = c, !.heap[c] = new]
    OBVIOUS
  <1>5. PICK k : k = SeekCursor(u.heap[c].entries, s.fd[f].pos)
    OBVIOUS
  <1>6. t = [u EXCEPT !.fd[f].cache = c, !.fd[f].cursor = k]
    BY <1>1, <1>4, <1>5 DEF CacheGet
  <1> HIDE DEF new
  <1>7. /\ DOMAIN u = {"oi", "heap", "fd", "impure"} /\ u.fd = s.fd
        /\ u.impure = s.impure /\ u.heap = [s.heap EXCEPT ![c] = y]
    <2>1. CASE Current(s)
      BY <2>1, <1>0, <1>d, <1>2, <1>3, <1>4 DEF Shape
    <2>2. CASE ~Current(s)
      BY <2>2, <1>0, <1>d, <1>2, <1>3, <1>4 DEF Shape
    <2> QED
      BY <2>1, <2>2
  <1>8. u.heap[c] = y /\ \A d \in CacheIds : d # c => u.heap[d] = s.heap[d]
    BY <1>0, <1>2, <1>7 DEF Shape
  <1>9. /\ t.heap = u.heap /\ t.impure = s.impure
        /\ t.fd = [u.fd EXCEPT ![f] = [u.fd[f] EXCEPT !.cache = c, !.cursor = k]]
    <2>1. t.heap = u.heap /\ t.impure = s.impure
      BY <1>6, <1>7
    <2>2. [u EXCEPT !.fd[f].cache = c, !.fd[f].cursor = k].fd =
              [u.fd EXCEPT ![f] = [u.fd[f] EXCEPT !.cache = c, !.cursor = k]]
      <3>1. /\ u.fd = [g \in Fds |-> u.fd[g]]
            /\ DOMAIN u.fd[f] = {"open", "isReal", "isUpper", "cache", "cursor", "pos"}
        BY <1>7, <1>d
      <3>2. DOMAIN u = {"oi", "heap", "fd", "impure"}
        BY <1>7
      <3> QED
        BY <3>1, <3>2, CacheSet
    <2> QED
      BY <1>6, <2>1, <2>2, Zenon
  <1>10. /\ t.fd[f].cache = c /\ t.fd[f].cursor = k /\ t.fd[f].pos = s.fd[f].pos
         /\ t.fd[f].open = s.fd[f].open /\ t.fd[f].isReal = s.fd[f].isReal
         /\ t.fd[f].isUpper = s.fd[f].isUpper
         /\ \A g \in Fds \ {f} : t.fd[g] = s.fd[g]
    <2>1. PICK x : x = [s.fd[f] EXCEPT !.cache = c, !.cursor = k]
      OBVIOUS
    <2>2. t.fd = [s.fd EXCEPT ![f] = x]
      BY <1>7, <1>9, <2>1
    <2>3. /\ x.cache = c /\ x.cursor = k /\ x.pos = s.fd[f].pos /\ x.open = s.fd[f].open
          /\ x.isReal = s.fd[f].isReal /\ x.isUpper = s.fd[f].isUpper
      BY <1>d, <2>1
    <2>4. t.fd[f] = x /\ \A g \in Fds \ {f} : t.fd[g] = s.fd[g]
      BY <1>d, <2>2
    <2> QED
      BY <2>3, <2>4
  <1>11. ASSUME Current(s) PROVE Carried(s, t, f) /\ y.version = dir.version
    <2>1. s.heap[c].live /\ s.heap[c].version = dir.version
      BY <1>0, <1>2, <1>11 DEF Current, HeapOk
    <2>2. DOMAIN s.heap[c] = {"live", "refcount", "version", "entries", "impure"}
      BY <1>0, <1>2 DEF Shape
    <2>3. y = [s.heap[c] EXCEPT !.refcount = @ + 1]
      BY <1>3, <1>11
    <2>4. /\ y.live = s.heap[c].live /\ y.version = s.heap[c].version
          /\ y.entries = s.heap[c].entries /\ y.impure = s.heap[c].impure
      BY <2>2, <2>3
    <2>5. SameContent(s.heap[c], y) /\ y.version = dir.version
      BY <2>1, <2>4, Zenon DEF SameContent
    <2>6. \A d \in CacheIds : s.heap[d].live => SameContent(s.heap[d], t.heap[d])
      BY <1>8, <1>9, <2>5 DEF SameContent
    <2>7. \A d \in CacheIds : t.heap[d].live => SameContent(s.heap[d], t.heap[d])
      <3> TAKE d \in CacheIds
      <3> HAVE t.heap[d].live
      <3>1. s.heap[d].live
        BY <1>8, <1>9, <2>1
      <3> QED
        BY <2>6, <3>1
    <2>8. Carried(s, t, f)
      <3>1. \A g \in Fds : s.fd[g].cache # None => s.fd[g].cache \in CacheIds /\ s.heap[s.fd[g].cache].live
        BY <1>0 DEF Shape, HeapOk
      <3> QED
        BY <1>10, <2>6, <2>7, <3>1 DEF Carried
    <2> QED
      BY <2>5, <2>8
  <1>12. ASSUME ~Current(s) PROVE Carried(s, t, f) /\ y.version = dir.version
    <2>0. y = new
      BY <1>3, <1>12
    <2>1. /\ y.live = TRUE /\ y.version = dir.version /\ y.entries = ReadMerged
          /\ y.impure = FALSE
      BY <2>0 DEF new
    <2>2. CacheOk(y)
      <3>1. /\ y.entries \in Seq(EntryType) /\ Distinct(y.entries) /\ MergedValid(y.entries)
        BY <2>1, MergedMade DEF DirInv
      <3>2. Valid(y)
        BY <2>1, <3>1 DEF Valid
      <3>3. y.version \in 0 .. dir.version
        BY <2>1 DEF DirInv
      <3> QED
        BY <3>1, <3>2, <3>3 DEF CacheOk
    <2>3. ~s.heap[c].live
      BY <1>2, <1>12
    <2>4. \A d \in CacheIds : t.heap[d].live => SameContent(s.heap[d], t.heap[d]) \/ CacheOk(t.heap[d])
      <3> TAKE d \in CacheIds
      <3>1. CASE d = c
        BY <1>8, <1>9, <2>2, <3>1
      <3>2. CASE d # c
        BY <1>8, <1>9, <3>2 DEF SameContent
      <3> QED
        BY <3>1, <3>2
    <2>5. \A g \in Fds \ {f} : s.fd[g].cache # None =>
            SameContent(s.heap[s.fd[g].cache], t.heap[s.fd[g].cache])
      <3> TAKE g \in Fds \ {f}
      <3> HAVE s.fd[g].cache # None
      <3>1. s.fd[g].cache \in CacheIds /\ s.heap[s.fd[g].cache].live
        BY <1>0 DEF Shape, HeapOk
      <3>2. s.fd[g].cache # c
        BY <2>3, <3>1
      <3> QED
        BY <1>8, <1>9, <3>1, <3>2 DEF SameContent
    <2>6. Carried(s, t, f)
      BY <1>10, <2>4, <2>5 DEF Carried
    <2> QED
      BY <2>1, <2>6
  <1>13. Carried(s, t, f) /\ t.heap[c].version = dir.version
    <2>1. Carried(s, t, f) /\ y.version = dir.version
      <3>1. CASE Current(s)
        BY <1>11, <3>1
      <3>2. CASE ~Current(s)
        BY <1>12, <3>2
      <3> QED
        BY <3>1, <3>2
    <2> QED
      BY <1>8, <1>9, <2>1
  <1>14. Rest(t, f)
    BY <1>13, CarriedRest
  <1>15. FileOk(t, f)
    <2>1. t.heap[t.fd[f].cache].entries = u.heap[c].entries
      BY <1>9, <1>10
    <2> QED
      BY <1>5, <1>10, <2>1, Zenon DEF FileOk
  <1> QED
    BY <1>2, <1>9, <1>10, <1>13, <1>14, <1>15 DEF GotCache

LEMMA FreedContent ==
  ASSUME NEW s, CacheInv(s), \A g \in Fds : s.fd[g].cache = None, NEW f \in Fds,
         Rest(s, f), FileOk(s, f), NEW t, t = ImpureFreed(s)
  PROVE  Rest(t, f) /\ FileOk(t, f)
  <1>1. t.fd = s.fd /\ \A c \in CacheIds : ~t.heap[c].live
    BY FreedStep
  <1>2. Carried(s, t, f)
    BY <1>1, Zenon DEF Carried
  <1>3. FileOk(t, f)
    BY <1>1, Zenon DEF FileOk
  <1> QED
    BY <1>2, <1>3, CarriedRest

\* The impure cache that a call gets lists the names with an origin.
LEMMA GetImpureContent ==
  ASSUME NEW s, CacheInv(s), ~dir.whiteouts, ~Merge, dir.hasUpper, ContentInv, DirInv,
         s.impure = dir.impure, NEW f \in Fds, Rest(s, f), FileOk(s, f),
         NEW t, t = CacheGetImpure(s)
  PROVE  /\ Rest(t, f) /\ FileOk(t, f) /\ t.fd = s.fd
         /\ ~t.impure => \A n \in Names : ~HasOrigin(dir.upper[n])
         /\ t.oi = None => \A n \in Names : ~HasOrigin(dir.upper[n])
         /\ t.oi # None => /\ t.oi \in CacheIds /\ t.heap[t.oi].live /\ t.heap[t.oi].impure
                           /\ t.heap[t.oi].version = dir.version
  <1>0. \A g \in Fds : s.fd[g].cache = None
    BY NoReaders
  <1>a. Shape(s) /\ HeapOk(s)
    BY DEF CacheInv
  <1>1. CASE Current(s)
    <2>1. t = s
      BY <1>1 DEF CacheGetImpure
    <2>2. s.oi # None /\ s.heap[s.oi].version = dir.version /\ s.oi \in CacheIds
      BY <1>1, <1>a DEF Current, Shape
    <2>3. s.heap[s.oi].live
      BY <1>a, <2>2 DEF HeapOk
    <2>4. s.heap[s.oi].impure
      BY <1>a, <2>2, <2>3 DEF HeapOk
    <2>5. ~s.impure => \A n \in Names : ~HasOrigin(dir.upper[n])
      BY DEF ContentInv
    <2> QED
      BY <2>1, <2>2, <2>3, <2>4, <2>5
  <1>2. CASE ~Current(s)
    <2>1. PICK u : u = ImpureFreed(s)
      OBVIOUS
    <2>2. /\ CacheInv(u) /\ u.oi = None /\ u.fd = s.fd /\ u.impure = s.impure
          /\ \A c \in CacheIds : ~u.heap[c].live
      BY <1>0, <2>1, FreedStep
    <2>3. Rest(u, f) /\ FileOk(u, f)
      BY <1>0, <2>1, FreedContent
    <2>4. PICK es : es = ReadImpure
      OBVIOUS
    <2>5. /\ es \in Seq(EntryType) /\ Distinct(es) /\ ImpureValid(es)
          /\ es = <<>> => \A n \in Names : ~HasOrigin(dir.upper[n])
      BY <2>4, ImpureListed DEF DirInv
    <2>6. DOMAIN u = {"oi", "heap", "fd", "impure"} /\ u.heap = [c \in CacheIds |-> u.heap[c]]
      BY <2>2 DEF CacheInv, Shape
    <2>7. CASE es = <<>>
      <3>1. t = [u EXCEPT !.impure = FALSE]
        BY <1>2, <2>1, <2>4, <2>7 DEF CacheGetImpure
      <3>2. t.heap = u.heap /\ t.fd = u.fd /\ t.oi = None
        BY <2>2, <2>6, <3>1
      <3>3. Carried(u, t, f)
        BY <2>2, <3>2, OwnFile
      <3>4. Rest(t, f)
        BY <2>3, <3>3, CarriedRest
      <3>5. FileOk(t, f)
        BY <2>3, <3>2, Zenon DEF FileOk
      <3> QED
        BY <2>2, <2>5, <2>7, <3>2, <3>4, <3>5
    <2>8. CASE es # <<>>
      <3> DEFINE y == [live |-> TRUE, refcount |-> 0, version |-> dir.version,
                       entries |-> es, impure |-> TRUE]
      <3>0. PICK c : c = NewId(u)
        OBVIOUS
      <3>1. t = [u EXCEPT !.oi = c, !.heap[c] = y]
        BY <1>2, <2>1, <2>4, <2>8, <3>0 DEF CacheGetImpure
      <3>2. c \in CacheIds /\ c # None
        BY <2>2, <3>0, FreeExists, ReadDirAssumption
      <3>3. /\ y.live = TRUE /\ y.impure = TRUE /\ y.version = dir.version /\ y.entries = es
        OBVIOUS
      <3> HIDE DEF y
      <3>4. /\ t.impure = u.impure /\ t.fd = u.fd /\ t.oi = c /\ t.heap = [u.heap EXCEPT ![c] = y]
        BY <2>6, <3>1
      <3>5. t.heap[c] = y /\ \A d \in CacheIds : d # c => t.heap[d] = u.heap[d]
        BY <2>6, <3>2, <3>4
      <3>6. CacheOk(y)
        <4>1. Valid(y)
          BY <2>5, <3>3 DEF Valid
        <4>2. y.version \in 0 .. dir.version
          BY <3>3 DEF DirInv
        <4> QED
          BY <2>5, <3>3, <4>1, <4>2 DEF CacheOk
      <3>7. Carried(u, t, f)
        <4>1. \A d \in CacheIds : t.heap[d].live => CacheOk(t.heap[d])
          BY <2>2, <3>5, <3>6
        <4>2. \A g \in Fds : u.fd[g].cache = None
          BY <1>0, <2>2
        <4> QED
          BY <3>4, <4>1, <4>2, Zenon DEF Carried
      <3>8. Rest(t, f)
        BY <2>3, <3>7, CarriedRest
      <3>9. FileOk(t, f)
        <4>1. t.fd[f] = u.fd[f] /\ t.fd[f].cache = None
          BY <1>0, <2>2, <3>4
        <4> QED
          BY <2>3, <4>1, Zenon DEF FileOk
      <3>10. ~t.impure => \A n \in Names : ~HasOrigin(dir.upper[n])
        BY <2>2, <3>4 DEF ContentInv
      <3> QED
        BY <2>2, <3>2, <3>3, <3>4, <3>5, <3>8, <3>9, <3>10
    <2> QED
      BY <2>7, <2>8
  <1> QED
    BY <1>1, <1>2

-----------------------------------------------------------------------------
(* The loop of ovl_iterate. *)

LEMMA TopTyped ==
  ASSUME ContentInv, DirInv, NEW n \in Names
  PROVE  Node(TopNode(Layers, n))
  <1>1. LayersTyped /\ DOMAIN Layers \subseteq Nat
    BY LayersFacts DEF DirInv, LayersTyped
  <1>2. CASE \E j : First(Layers, n, j)
    <2>1. PICK j : First(Layers, n, j)
      BY <1>2
    <2>2. TopNode(Layers, n) = Layers[j][n] /\ j \in DOMAIN Layers
      BY <1>1, <2>1, TopFirst DEF First
    <2> QED
      BY <1>1, <2>2 DEF LayersTyped
  <1>3. CASE TopNode(Layers, n) = Gone
    BY <1>3 DEF Node
  <1> QED
    BY <1>1, <1>2, <1>3, TopCases

LEMMA FirstShownFacts ==
  ASSUME NEW es \in Seq(EntryType), NEW from \in Nat, from <= Len(es) + 1,
         NEW r, r = FirstShown(es, from)
  PROVE  /\ r \in Nat /\ r > 0 /\ from <= r /\ r <= Len(es) + 1
         /\ r <= Len(es) => r \in DOMAIN es /\ ~es[r].whiteout
         /\ \A k \in DOMAIN es : from <= k /\ k < r => es[k].whiteout
  <1> DEFINE shown == {k \in DOMAIN es : k >= from /\ ~es[k].whiteout}
  <1>0. Len(es) \in Nat /\ DOMAIN es = 1 .. Len(es) /\ shown \subseteq Nat
    OBVIOUS
  <1>1. CASE shown = {}
    <2>1. r = Len(es) + 1
      BY <1>1 DEF FirstShown
    <2>2. \A k \in DOMAIN es : from <= k => es[k].whiteout
      BY <1>0, <1>1
    <2> QED
      BY <1>0, <2>1, <2>2
  <1>2. CASE shown # {}
    <2>1. \E k \in shown : \A j \in shown : k <= j
      <3> HIDE DEF shown
      <3> QED
        BY <1>0, <1>2, LeastNat
    <2>2. r = CHOOSE k \in shown : \A j \in shown : k <= j
      BY <1>2 DEF FirstShown
    <2>3. r \in shown /\ \A j \in shown : r <= j
      <3> HIDE DEF shown
      <3> QED
        BY <2>1, <2>2
    <2>4. ASSUME NEW k \in DOMAIN es, from <= k, k < r PROVE es[k].whiteout
      <3>1. k \notin shown
        BY <1>0, <2>3, <2>4
      <3> QED
        BY <1>0, <2>4, <3>1
    <2> QED
      BY <1>0, <2>3, <2>4
  <1> QED
    BY <1>1, <1>2

\* Filling in numbers changes neither the names nor which of them show.
SameNames(es, filled) ==
  /\ filled \in Seq(EntryType) /\ DOMAIN filled = DOMAIN es /\ Len(filled) = Len(es)
  /\ \A k \in DOMAIN es : filled[k].name = es[k].name /\ filled[k].whiteout = es[k].whiteout
  /\ Distinct(es) => Distinct(filled)
  /\ \A k : ShownBelow(filled, k) = ShownBelow(es, k)
  /\ Shown(filled) = Shown(es)

LEMMA FilledFacts ==
  ASSUME ContentInv, DirInv, NEW es \in Seq(EntryType), NEW at, NEW filled, filled = Filled(es, at)
  PROVE  /\ SameNames(es, filled)
         /\ \A names : InosFit(es, names) => InosFit(filled, names)
         /\ \A k \in DOMAIN es : k \in {EmitAt(es, at), StopAt(es, at)} /\ InoFits(es[k]) =>
              filled[k].early \/ filled[k].ino = StIno(Layers, es[k].name)
  <1>1. PICK E : E = {EmitAt(es, at), StopAt(es, at)}
    OBVIOUS
  <1>2. filled = [k \in DOMAIN es |-> IF k \in E /\ es[k].ino = 0
                                      THEN [es[k] EXCEPT !.ino = UpdatedIno(es[k]),
                                                 !.early = @ \/ es[k].name \in dir.linking]
                                      ELSE es[k]]
    BY <1>1 DEF Filled
  <1>3. ASSUME NEW k \in DOMAIN es
        PROVE  /\ filled[k] \in EntryType /\ filled[k].name = es[k].name
               /\ filled[k].whiteout = es[k].whiteout /\ filled[k].real = es[k].real
               /\ filled[k].ino = IF k \in E /\ es[k].ino = 0 THEN UpdatedIno(es[k]) ELSE es[k].ino
               /\ filled[k].early <=>
                    es[k].early \/ (k \in E /\ es[k].ino = 0 /\ es[k].name \in dir.linking)
    <2>1. es[k] \in EntryType
      OBVIOUS
    <2>2. es[k].name \in Names /\ es[k].real \in Nat
      BY <2>1 DEF EntryType
    <2>3. UpdatedIno(es[k]) \in Nat
      <3>1. TopNode(Layers, es[k].name).st \in Nat
        BY <2>2, TopTyped, NodeFields DEF DirInv
      <3> QED
        BY <2>2, <3>1 DEF UpdatedIno
    <2>4. PICK v : v = UpdatedIno(es[k])
      OBVIOUS
    <2>5. PICK b : b = (es[k].early \/ es[k].name \in dir.linking)
      OBVIOUS
    <2>6. es[k].early \in BOOLEAN
      BY <2>1 DEF EntryType
    <2>7. b \in BOOLEAN
      BY <2>5, <2>6
    <2>8. [es[k] EXCEPT !.ino = UpdatedIno(es[k]), !.early = @ \/ es[k].name \in dir.linking]
            = [es[k] EXCEPT !.ino = v, !.early = b]
      BY <2>1, <2>4, <2>5 DEF EntryType
    <2>9. CASE k \in E /\ es[k].ino = 0
      <3>1. filled[k] = [es[k] EXCEPT !.ino = v, !.early = b]
        BY <1>2, <2>8, <2>9
      <3>2. /\ filled[k] \in EntryType /\ filled[k].name = es[k].name
            /\ filled[k].whiteout = es[k].whiteout /\ filled[k].real = es[k].real
            /\ filled[k].ino = v /\ filled[k].early = b
        BY <2>1, <2>3, <2>4, <2>7, <3>1 DEF EntryType
      <3> QED
        BY <2>4, <2>5, <2>9, <3>2
    <2>10. CASE ~(k \in E /\ es[k].ino = 0)
      <3>1. filled[k] = es[k]
        BY <1>2, <2>10
      <3> QED
        BY <2>1, <2>10, <3>1
    <2> QED
      BY <2>9, <2>10
  <1>4. DOMAIN filled = DOMAIN es
    BY <1>2
  <1>5. filled \in Seq(EntryType) /\ Len(filled) = Len(es)
    <2>1. PICK n \in Nat : n = Len(es) /\ DOMAIN es = 1 .. n
      BY LenProperties
    <2>2. filled \in [1 .. n -> EntryType]
      BY <1>2, <1>3, <2>1
    <2>3. filled \in Seq(EntryType)
      BY <2>2, SeqDef
    <2>4. DOMAIN filled = 1 .. Len(filled) /\ Len(filled) \in Nat
      BY <2>3, LenProperties
    <2> QED
      BY <1>4, <2>1, <2>3, <2>4
  <1>6. Distinct(es) => Distinct(filled)
    BY <1>3, <1>4, Zenon DEF Distinct
  <1>7. ASSUME NEW k PROVE ShownBelow(filled, k) = ShownBelow(es, k)
    <2>1. {j \in DOMAIN filled : j < k /\ ~filled[j].whiteout}
            = {j \in DOMAIN es : j < k /\ ~es[j].whiteout}
      BY <1>3, <1>4, Zenon
    <2>2. PICK J : J = {j \in DOMAIN es : j < k /\ ~es[j].whiteout}
      OBVIOUS
    <2>3. ShownBelow(filled, k) = {filled[i].name : i \in J}
      BY <2>1, <2>2, Zenon DEF ShownBelow
    <2>4. ShownBelow(es, k) = {es[i].name : i \in J}
      BY <2>2, Zenon DEF ShownBelow
    <2>5. \A i \in J : filled[i].name = es[i].name
      BY <1>3, <2>2, Zenon
    <2>6. {filled[i].name : i \in J} = {es[i].name : i \in J}
      BY <2>5, Zenon
    <2> QED
      BY <2>3, <2>4, <2>6, Zenon
  <1>8. Shown(filled) = Shown(es)
    BY <1>5, <1>7 DEF Shown
  <1>9. ASSUME NEW k \in DOMAIN es, InoFits(es[k])
        PROVE  /\ InoFits(filled[k])
               /\ k \in E => filled[k].early \/ filled[k].ino = StIno(Layers, es[k].name)
    <2>1. CASE filled[k].early
      BY <2>1 DEF InoFits
    <2>2. CASE ~filled[k].early
      <3>1. ~es[k].early /\ (k \in E /\ es[k].ino = 0 => es[k].name \notin dir.linking)
        BY <1>3, <2>2
      <3>2. k \in E /\ es[k].ino = 0 => UpdatedIno(es[k]) = StIno(Layers, es[k].name)
        BY <1>9, <3>1 DEF InoFits, UpdatedIno, StIno
      <3>3. es[k].ino # 0 => es[k].ino = StIno(Layers, es[k].name)
        BY <1>9, <3>1 DEF InoFits
      <3>4. CASE filled[k].ino = es[k].ino
        BY <1>3, <1>9, <3>1, <3>2, <3>3, <3>4 DEF InoFits
      <3>5. CASE filled[k].ino # es[k].ino
        <4>1. filled[k].ino = StIno(Layers, es[k].name) /\ es[k].ino = 0
          BY <1>3, <3>2, <3>5
        <4> QED
          BY <1>3, <1>9, <3>5, <4>1 DEF InoFits
      <3> QED
        BY <3>4, <3>5
    <2> QED
      BY <2>1, <2>2
  <1>10. ASSUME NEW names, InosFit(es, names) PROVE InosFit(filled, names)
    BY <1>3, <1>4, <1>9, <1>10, Zenon DEF InosFit
  <1>11. SameNames(es, filled)
    BY <1>3, <1>4, <1>5, <1>6, <1>7, <1>8 DEF SameNames
  <1> QED
    BY <1>1, <1>9, <1>10, <1>11

\* The record after the loop, field by field.
Looped(s, f, c, e, k, p) ==
  [s EXCEPT !.heap[c].entries = e, !.fd[f].cursor = k, !.fd[f].pos = p]

LoopMade(s, t, f, c, e, k, p) ==
  /\ t.impure = s.impure
  /\ t.heap[c].live = s.heap[c].live /\ t.heap[c].version = s.heap[c].version
  /\ t.heap[c].impure = s.heap[c].impure /\ t.heap[c].entries = e
  /\ \A d \in CacheIds : d # c => t.heap[d] = s.heap[d]
  /\ \A g \in Fds \ {f} : t.fd[g] = s.fd[g]
  /\ t.fd[f].open = s.fd[f].open /\ t.fd[f].isReal = s.fd[f].isReal
  /\ t.fd[f].isUpper = s.fd[f].isUpper /\ t.fd[f].cache = s.fd[f].cache
  /\ t.fd[f].cursor = k /\ t.fd[f].pos = p

LEMMA LoopFields ==
  ASSUME NEW s, Shape(s), NEW f \in Fds, NEW c \in CacheIds, NEW e, NEW k, NEW p,
         NEW t, t = Looped(s, f, c, e, k, p)
  PROVE  LoopMade(s, t, f, c, e, k, p)
  <1>0. /\ DOMAIN s = {"oi", "heap", "fd", "impure"} /\ s.fd = [g \in Fds |-> s.fd[g]]
        /\ DOMAIN s.fd[f] = {"open", "isReal", "isUpper", "cache", "cursor", "pos"}
        /\ s.heap = [d \in CacheIds |-> s.heap[d]]
        /\ DOMAIN s.heap[c] = {"live", "refcount", "version", "entries", "impure"}
    BY DEF Shape
  <1>1. PICK y : y = [s.heap[c] EXCEPT !.entries = e]
    OBVIOUS
  <1>2. PICK x : x = [s.fd[f] EXCEPT !.cursor = k, !.pos = p]
    OBVIOUS
  <1>3. t.impure = s.impure /\ t.heap = [s.heap EXCEPT ![c] = y]
    BY <1>0, <1>1 DEF Looped
  <1>4. t.fd = [s.fd EXCEPT ![f] = x]
    BY <1>0, <1>2 DEF Looped
  <1>5. /\ y.live = s.heap[c].live /\ y.version = s.heap[c].version
        /\ y.impure = s.heap[c].impure /\ y.entries = e
    BY <1>0, <1>1
  <1>6. /\ x.open = s.fd[f].open /\ x.isReal = s.fd[f].isReal
        /\ x.isUpper = s.fd[f].isUpper /\ x.cache = s.fd[f].cache
        /\ x.cursor = k /\ x.pos = p
    BY <1>0, <1>2
  <1>7. t.heap[c] = y /\ \A d \in CacheIds : d # c => t.heap[d] = s.heap[d]
    BY <1>0, <1>3
  <1>8. t.fd[f] = x /\ \A g \in Fds \ {f} : t.fd[g] = s.fd[g]
    BY <1>0, <1>4
  <1> QED
    BY <1>3, <1>5, <1>6, <1>7, <1>8 DEF LoopMade

\* The numbers filled in suit every reader of the cache.
LEMMA FillRest ==
  ASSUME NEW s, CacheInv(s), ContentInv, DirInv, NEW f \in Fds, Rest(s, f),
         NEW c \in CacheIds, s.heap[c].live, ~s.heap[c].impure,
         NEW at, NEW filled, filled = Filled(s.heap[c].entries, at), NEW k, NEW p,
         NEW t, t = Looped(s, f, c, filled, k, p)
  PROVE  Rest(t, f)
  <1>s. Shape(s)
    BY DEF CacheInv
  <1>l. LoopMade(s, t, f, c, filled, k, p)
    BY <1>s, LoopFields
  <1>0. /\ t.heap[c].live = s.heap[c].live /\ t.heap[c].version = s.heap[c].version
        /\ t.heap[c].impure = s.heap[c].impure /\ t.heap[c].entries = filled
        /\ \A d \in CacheIds : d # c => t.heap[d] = s.heap[d]
        /\ \A g \in Fds \ {f} : t.fd[g] = s.fd[g]
    BY <1>l DEF LoopMade
  <1>1. PICK es : es = s.heap[c].entries
    OBVIOUS
  <1>2. CacheOk(s.heap[c])
    BY DEF Rest, CachesOk
  <1>3. es \in Seq(EntryType) /\ Distinct(es)
    BY <1>1, <1>2 DEF CacheOk
  <1>4. /\ SameNames(es, filled)
        /\ \A names : InosFit(es, names) => InosFit(filled, names)
    BY <1>1, <1>3, FilledFacts
  <1>5. CacheOk(t.heap[c])
    <2>1. filled \in Seq(EntryType) /\ Distinct(filled) /\ Shown(filled) = Shown(es)
      BY <1>3, <1>4, Zenon DEF SameNames
    <2>2. MergedValid(es) => MergedValid(filled)
      BY <1>4, <2>1, Zenon DEF MergedValid
    <2>3. Valid(s.heap[c]) => Valid(t.heap[c])
      BY <1>0, <1>1, <2>2, Zenon DEF Valid
    <2> QED
      BY <1>0, <1>2, <2>1, <2>3, Zenon DEF CacheOk
  <1>6. CachesOk(t)
    BY <1>0, <1>5 DEF CachesOk, Rest
  <1>7. ASSUME NEW g \in Fds \ {f}
        PROVE  FileOk(t, g) /\ ListingOk(t, g, listing[g])
    <2>1. t.fd[g] = s.fd[g] /\ FileOk(s, g) /\ ListingOk(s, g, listing[g])
      BY <1>0 DEF Rest
    <2>2. s.fd[g].cache \in CacheIds \cup {None}
      BY DEF CacheInv, Shape
    <2>3. CASE s.fd[g].cache = c
      <3>1. t.heap[t.fd[g].cache].entries = filled /\ s.heap[s.fd[g].cache].entries = es
        BY <1>0, <1>1, <2>1, <2>3
      <3>2. \A pos : SeekCursor(filled, pos) = SeekCursor(es, pos)
        BY <1>4, Zenon DEF SameNames, SeekCursor
      <3>3. FileOk(t, g)
        BY <2>1, <3>1, <3>2, Zenon DEF FileOk
      <3>4. \A l, cursor : MergedListing(l, es, cursor) => MergedListing(l, filled, cursor)
        BY <1>4, Zenon DEF SameNames, MergedListing
      <3>5. ListingOk(t, g, listing[g])
        BY <2>1, <3>1, <3>4, Zenon DEF ListingOk
      <3> QED
        BY <3>3, <3>5
    <2>4. CASE s.fd[g].cache # c
      <3>1. s.fd[g].cache # None =>
              t.heap[t.fd[g].cache].entries = s.heap[s.fd[g].cache].entries
        BY <1>0, <2>1, <2>2, <2>4
      <3>2. FileOk(t, g)
        BY <2>1, <3>1, Zenon DEF FileOk
      <3>3. ListingOk(t, g, listing[g])
        BY <2>1, <3>1, Zenon DEF ListingOk
      <3> QED
        BY <3>2, <3>3
    <2> QED
      BY <2>3, <2>4
  <1> QED
    BY <1>6, <1>7 DEF Rest

\* ovl_iterate and ovl_dir_llseek begin with a file that fits the directory.
LEMMA StartContent ==
  ASSUME ReadDirInvariant, ListingInv, NEW f \in Fds, NEW s, s = AtStart(f)
  PROVE  /\ Rest(s, f) /\ FileOk(s, f) /\ s.fd[f].pos = fd[f].pos /\ s.impure = dir.impure
         /\ fd[f].pos = 0 => /\ s.fd[f].isReal => ~dir.whiteouts
                             /\ s.fd[f].cache # None =>
                                  s.heap[s.fd[f].cache].version = dir.version
         /\ fd[f].pos # 0 => s = Now
  <1>0. PICK n : n = Now
    OBVIOUS
  <1>1. CacheInv(n) /\ dir.whiteouts \in BOOLEAN /\ n.fd = fd /\ n.impure = dir.impure
    BY <1>0, NowInv
  <1>2. Rest(n, f) /\ FileOk(n, f)
    BY <1>0 DEF ListingInv, Rest
  <1>3. CASE fd[f].pos = 0
    <2>1. s = DirReset(n, f)
      BY <1>0, <1>3 DEF AtStart
    <2>2. /\ Rest(s, f) /\ FileOk(s, f) /\ s.fd[f].pos = n.fd[f].pos
          /\ s.fd[f].cache # None => s.heap[s.fd[f].cache].version = dir.version
      BY <1>1, <1>2, <2>1, ResetContent
    <2>3. s.impure = n.impure /\ (s.fd[f].isReal <=> n.fd[f].isReal /\ ~dir.whiteouts)
      BY <1>1, <2>1, ResetStep
    <2> QED
      BY <1>1, <1>3, <2>2, <2>3
  <1>4. CASE fd[f].pos # 0
    BY <1>0, <1>1, <1>2, <1>4 DEF AtStart
  <1> QED
    BY <1>3, <1>4

\* A step that keeps the number of changes and all of the directory but its impure flag.
LEMMA SameContentInv ==
  ASSUME DirInv, ContentInv, SameDir, changes' = changes,
         ~dir'.impure => \A n \in Names : ~HasOrigin(dir.upper[n])
  PROVE  ContentInv'
  <1>1. Lower' = Lower /\ FreshIno' = FreshIno
    BY SameLayers DEF FreshIno, SameDir
  <1>2. \A e : Node(e)' <=> Node(e)
    BY <1>1, Zenon DEF Node
  <1>3. Merge' <=> Merge
    BY <1>1, Zenon DEF Merge, SameDir, SameView
  <1>4. \A n : TopNode(Layers, n)' = TopNode(Layers, n) /\ StIno(Layers, n)' = StIno(Layers, n)
    BY SameLayers, Zenon DEF StIno, SameDir
  <1> QED
    BY <1>1, <1>2, <1>3, <1>4, Zenon DEF ContentInv, SameDir, SameView

LEMMA StepContent ==
  ASSUME DirInv, ContentInv, NEW t, heap' = t.heap, fd' = t.fd, SameDir, dir'.impure = t.impure,
         changes' = changes, ~t.impure => \A n \in Names : ~HasOrigin(dir.upper[n]),
         NEW f \in Fds, Rest(t, f), FileOk(t, f), NEW l, ListingOk(t, f, l),
         listing = [g \in Fds |-> listing[g]], listing' = [listing EXCEPT ![f] = l]
  PROVE  ListingInv'
  <1>2. SameDir /\ dir'.impure = t.impure
    OBVIOUS
  <1>3. ContentInv'
    BY <1>2, SameContentInv
  <1>4. Now'.heap = t.heap /\ Now'.fd = t.fd
    BY NextFields
  <1>5. CachesOk(Now)'
    <2>1. \A cache : CacheOk(cache)' <=> CacheOk(cache)
      BY <1>2, SameCaches DEF SameDir
    <2>2. \A c \in CacheIds : t.heap[c].live => CacheOk(t.heap[c])'
      BY <2>1, Zenon DEF Rest, CachesOk
    <2> QED
      BY <1>4, <2>2, Zenon DEF CachesOk
  <1>6. listing' = [g \in Fds |-> listing'[g]] /\ listing'[f] = l
        /\ \A g \in Fds \ {f} : listing'[g] = listing[g]
    OBVIOUS
  <1>7. ASSUME NEW g \in Fds PROVE FileOk(t, g) /\ ListingOk(t, g, listing'[g])
    BY <1>6 DEF Rest
  <1>8. ASSUME NEW g \in Fds PROVE FileOk(Now, g)' /\ ListingOk(Now, g, listing[g])'
    <2>0. PICK m : m = listing'[g]
      OBVIOUS
    <2>1. FileOk(t, g)' /\ ListingOk(t, g, m)'
      BY <1>2, <1>7, <2>0, SameListings DEF SameDir
    <2>2. FileOk(Now, g)'
      BY <1>4, <2>1, Zenon DEF FileOk
    <2>3. ListingOk(Now, g, listing[g])'
      BY <1>4, <2>0, <2>1, Zenon DEF ListingOk
    <2> QED
      BY <2>2, <2>3
  <1> QED
    BY <1>3, <1>5, <1>6, <1>8, Zenon DEF ListingInv

LEMMA BecomesContent ==
  ASSUME DirInv, ContentInv, NEW t, Becomes(t), changes' = changes,
         ~t.impure => \A n \in Names : ~HasOrigin(dir.upper[n]),
         NEW f \in Fds, Rest(t, f), FileOk(t, f), NEW l, ListingOk(t, f, l),
         listing = [g \in Fds |-> listing[g]], listing' = [listing EXCEPT ![f] = l]
  PROVE  ListingInv'
  <1>1. /\ oiCache' = t.oi /\ heap' = t.heap /\ fd' = t.fd
        /\ dir' = [dir EXCEPT !.impure = t.impure]
    BY DEF Becomes
  <1>2. SameDir /\ dir'.impure = t.impure
    BY <1>1 DEF SameDir, SameView, DirInv
  <1> QED
    BY <1>1, <1>2, StepContent

-----------------------------------------------------------------------------
(* ovl_iterate of a merged directory. *)

\* Where the loop stops, and what it has passed.
LoopRuns(es, pos, at, emit, stop) ==
  /\ stop \in Nat /\ stop > 0 /\ at \in Nat /\ emit \in Nat
  /\ pos + (stop - at) \in Nat /\ pos + (stop - at) > 0
  /\ stop = SeekCursor(es, pos + (stop - at))
  /\ pos = 0 => at = 0 /\ emit = 0
  /\ pos > 0 => at > 0 /\ (emit \in DOMAIN es \/ emit > Len(es)) /\ emit > 0
  /\ emit = 0 => ShownBelow(es, stop) = {}
  /\ emit \in DOMAIN es => /\ at <= Len(es) /\ es[emit].name \in Names /\ ~es[emit].whiteout
                           /\ ShownBelow(es, stop) = ShownBelow(es, at) \cup {es[emit].name}
                           /\ es[emit].name \notin ShownBelow(es, at)
  /\ emit > Len(es) => ShownBelow(es, stop) = ShownBelow(es, at) /\ stop > Len(es)

LEMMA LoopFacts ==
  ASSUME NEW es \in Seq(EntryType), Distinct(es), NEW pos \in Nat,
         NEW at, at = SeekCursor(es, pos), NEW emit, emit = EmitAt(es, at),
         NEW stop, stop = StopAt(es, at)
  PROVE  LoopRuns(es, pos, at, emit, stop)
  <1>0. Len(es) \in Nat /\ DOMAIN es = 1 .. Len(es) /\ \A i \in DOMAIN es : es[i] \in EntryType
    OBVIOUS
  <1>a. ASSUME NEW n, NEW k
        PROVE  n \in ShownBelow(es, k) <=>
                 \E i \in DOMAIN es : i < k /\ ~es[i].whiteout /\ es[i].name = n
    BY DEF ShownBelow
  <1>1. /\ at \in Nat /\ at <= Len(es) + 1 /\ (pos = 0 => at = 0) /\ (pos > 0 => at > 0)
        /\ pos <= Len(es) => at = pos
        /\ pos > Len(es) => at = Len(es) + 1
    BY <1>0 DEF SeekCursor
  <1>2. at = 0 => emit = 0
    BY DEF EmitAt
  <1>3. at > 0 => /\ emit \in Nat /\ emit > 0 /\ at <= emit /\ emit <= Len(es) + 1
                  /\ emit <= Len(es) => emit \in DOMAIN es /\ ~es[emit].whiteout
                  /\ \A k \in DOMAIN es : at <= k /\ k < emit => es[k].whiteout
    <2> HAVE at > 0
    <2>1. emit = FirstShown(es, at)
      BY <1>1 DEF EmitAt
    <2> QED
      BY <1>1, <2>1, FirstShownFacts
  <1>4. emit \in Nat /\ emit <= Len(es) + 1 /\ (emit > Len(es) => emit = Len(es) + 1)
        /\ at <= emit
    BY <1>0, <1>1, <1>2, <1>3
  <1>5. emit > Len(es) => stop = emit
    BY DEF StopAt
  <1>6. emit <= Len(es) =>
          /\ stop \in Nat /\ stop > 0 /\ emit < stop /\ stop <= Len(es) + 1
          /\ \A k \in DOMAIN es : emit < k /\ k < stop => es[k].whiteout
    <2> HAVE emit <= Len(es)
    <2>1. stop = FirstShown(es, emit + 1) /\ emit + 1 \in Nat /\ emit + 1 <= Len(es) + 1
      BY <1>0, <1>4 DEF StopAt
    <2>2. /\ stop \in Nat /\ stop > 0 /\ emit + 1 <= stop /\ stop <= Len(es) + 1
          /\ \A k \in DOMAIN es : emit + 1 <= k /\ k < stop => es[k].whiteout
      BY <2>1, FirstShownFacts
    <2> QED
      BY <1>0, <1>4, <2>2
  <1>7. stop \in Nat /\ stop > 0 /\ stop <= Len(es) + 1 /\ at <= stop
    BY <1>0, <1>1, <1>4, <1>5, <1>6
  <1>8. /\ pos + (stop - at) \in Nat /\ pos + (stop - at) > 0
        /\ stop = SeekCursor(es, pos + (stop - at))
    <2>1. CASE pos <= Len(es)
      <3>1. pos + (stop - at) = stop
        BY <1>1, <1>7, <2>1
      <3> QED
        BY <1>0, <1>7, <3>1 DEF SeekCursor
    <2>2. CASE pos > Len(es)
      <3>1. at = Len(es) + 1 /\ stop = Len(es) + 1
        BY <1>0, <1>1, <1>7, <2>2
      <3>2. pos + (stop - at) = pos
        BY <1>0, <3>1
      <3>3. SeekCursor(es, pos) = Len(es) + 1
        BY <2>2 DEF SeekCursor
      <3>4. pos > 0
        BY <1>0, <2>2
      <3> QED
        BY <3>1, <3>2, <3>3, <3>4
    <2> QED
      BY <1>0, <2>1, <2>2
  <1>9. ASSUME emit = 0 PROVE ShownBelow(es, stop) = {}
    <2>1. \A k \in DOMAIN es : k < stop => es[k].whiteout
      BY <1>0, <1>6, <1>9
    <2> QED
      BY <2>1 DEF ShownBelow
  <1>10. ASSUME emit \in DOMAIN es
         PROVE  /\ at <= Len(es) /\ es[emit].name \in Names /\ ~es[emit].whiteout
                /\ ShownBelow(es, stop) = ShownBelow(es, at) \cup {es[emit].name}
                /\ es[emit].name \notin ShownBelow(es, at)
    <2>1. at > 0 /\ emit <= Len(es)
      BY <1>0, <1>1, <1>2, <1>10
    <2>2. /\ at <= emit /\ ~es[emit].whiteout
          /\ \A k \in DOMAIN es : at <= k /\ k < emit => es[k].whiteout
          /\ emit < stop /\ \A k \in DOMAIN es : emit < k /\ k < stop => es[k].whiteout
      BY <1>3, <1>6, <2>1
    <2>3. es[emit].name \in Names
      BY <1>0, <1>10 DEF EntryType
    <2>4. \A k \in DOMAIN es : ~es[k].whiteout => (k < stop <=> k < at \/ k = emit)
      BY <1>0, <1>1, <1>7, <1>10, <2>2
    <2>5. ASSUME NEW n
          PROVE  n \in ShownBelow(es, stop) <=> n \in ShownBelow(es, at) \/ n = es[emit].name
      BY <1>a, <1>10, <2>2, <2>4
    <2>6. es[emit].name \notin ShownBelow(es, at)
      <3> SUFFICES ASSUME es[emit].name \in ShownBelow(es, at) PROVE FALSE
        OBVIOUS
      <3>1. PICK i \in DOMAIN es : i < at /\ es[i].name = es[emit].name
        BY <1>a
      <3>2. i = emit
        BY <1>10, <3>1 DEF Distinct
      <3> QED
        BY <1>0, <1>1, <2>2, <3>1, <3>2
    <2>7. ShownBelow(es, stop) = ShownBelow(es, at) \cup {es[emit].name}
      BY <2>5
    <2>8. at <= Len(es)
      BY <1>0, <1>1, <1>4, <2>1, <2>2
    <2> QED
      BY <2>2, <2>3, <2>6, <2>7, <2>8
  <1>11. ASSUME emit > Len(es) PROVE ShownBelow(es, stop) = ShownBelow(es, at) /\ stop > Len(es)
    <2>1. at > 0 /\ stop = emit
      BY <1>0, <1>1, <1>2, <1>5, <1>11
    <2>2. \A k \in DOMAIN es : at <= k /\ k < emit => es[k].whiteout
      BY <1>3, <2>1
    <2>3. \A k \in DOMAIN es : ~es[k].whiteout => (k < stop <=> k < at)
      BY <1>0, <1>1, <1>4, <2>1, <2>2
    <2>4. ASSUME NEW n PROVE n \in ShownBelow(es, stop) <=> n \in ShownBelow(es, at)
      BY <1>a, <2>3
    <2> QED
      BY <1>11, <2>1, <2>4
  <1>12. pos > 0 => at > 0 /\ (emit \in DOMAIN es \/ emit > Len(es)) /\ emit > 0
    BY <1>0, <1>1, <1>3, <1>4
  <1> QED
    BY <1>1, <1>2, <1>4, <1>7, <1>8, <1>9, <1>10, <1>11, <1>12 DEF LoopRuns

\* The fields of a listing.
LEMMA ListingRecords ==
  /\ DOMAIN NoListing = ListingFields /\ ~NoListing.on /\ NoListing.got = {}
  /\ ~NoListing.twice /\ ~NoListing.badIno /\ ~NoListing.eof /\ NoListing.keep = {}
  /\ DOMAIN FreshListing = ListingFields /\ FreshListing.on /\ FreshListing.got = {}
  /\ ~FreshListing.twice /\ ~FreshListing.badIno /\ ~FreshListing.eof
  /\ FreshListing.keep = Visible(Layers) /\ FreshListing.may = Visible(Layers)
  /\ FreshListing.same = Visible(Layers)
  BY DEF NoListing, FreshListing, ListingFields

EmittedListing(m, l, n, ino, early) ==
  /\ DOMAIN m = ListingFields /\ m.on /\ m.got = l.got \cup {n}
  /\ m.twice <=> l.twice \/ n \in l.got
  /\ m.badIno <=> l.badIno \/ (~early /\ n \in l.same \ dir.linked /\ ino # StIno(Layers, n))
  /\ m.eof = l.eof /\ m.keep = l.keep /\ m.may = l.may /\ m.same = l.same

LEMMA EmittedFields ==
  ASSUME NEW l, l.on, DOMAIN l = ListingFields, NEW n, NEW ino, NEW early,
         NEW m, m = Emitted(l, n, ino, early)
  PROVE  EmittedListing(m, l, n, ino, early)
  <1>1. PICK b : b = (l.badIno \/ (~early /\ n \in l.same \ dir.linked /\ ino # StIno(Layers, n)))
    OBVIOUS
  <1>2. PICK w : w = (l.twice \/ n \in l.got)
    OBVIOUS
  <1>3. PICK g : g = l.got \cup {n}
    OBVIOUS
  <1>4. m = [l EXCEPT !.got = g, !.twice = w, !.badIno = b]
    BY <1>1, <1>2, <1>3 DEF Emitted, ListingFields
  <1>5. /\ DOMAIN m = ListingFields /\ m.on = l.on /\ m.got = g /\ m.twice = w /\ m.badIno = b
        /\ m.eof = l.eof /\ m.keep = l.keep /\ m.may = l.may /\ m.same = l.same
    BY <1>4 DEF ListingFields
  <1> QED
    BY <1>1, <1>2, <1>3, <1>5, Zenon DEF EmittedListing

LEMMA EndedFields ==
  ASSUME NEW l, l.on, DOMAIN l = ListingFields, NEW m, m = Ended(l)
  PROVE  /\ DOMAIN m = ListingFields /\ m.on = l.on /\ m.got = l.got /\ m.twice = l.twice
         /\ m.badIno = l.badIno /\ m.eof = TRUE /\ m.keep = l.keep /\ m.may = l.may
         /\ m.same = l.same
  BY DEF Ended, ListingFields

LEMMA OffStays ==
  ASSUME NEW l, ~l.on
  PROVE  Ended(l) = l /\ \A n, ino, early : Emitted(l, n, ino, early) = l
  BY DEF Ended, Emitted

\* The listing of a file whose loop ran from at to stop.
MergedTo(m, l, es, pos, emit, filled) ==
  /\ pos = 0 => m = FreshListing
  /\ pos > 0 /\ emit \in DOMAIN es =>
       m = Emitted(l, filled[emit].name, filled[emit].ino, filled[emit].early)
  /\ pos > 0 /\ emit > Len(es) => m = Ended(l)

KeptListing(m, l, filled, stop) ==
  /\ DOMAIN m = ListingFields /\ m.on /\ ~m.twice /\ ~m.badIno
  /\ m.keep = l.keep /\ m.may = l.may /\ m.same = l.same
  /\ MergedListing(m, filled, stop)

LEMMA MergedKept ==
  ASSUME ContentInv, DirInv, NEW es \in Seq(EntryType), Distinct(es),
         NEW pos \in Nat, NEW at, NEW emit, NEW stop, emit = EmitAt(es, at),
         LoopRuns(es, pos, at, emit, stop), NEW filled, filled = Filled(es, at),
         NEW l, pos > 0, l.on, DOMAIN l = ListingFields, MergedListing(l, es, at),
         ~l.twice, ~l.badIno,
         NEW m, MergedTo(m, l, es, pos, emit, filled)
  PROVE  KeptListing(m, l, filled, stop)
  <1>1. /\ SameNames(es, filled)
        /\ \A names : InosFit(es, names) => InosFit(filled, names)
        /\ \A k \in DOMAIN es : k \in {EmitAt(es, at), StopAt(es, at)} /\ InoFits(es[k]) =>
             filled[k].early \/ filled[k].ino = StIno(Layers, es[k].name)
    BY FilledFacts
  <1>2. /\ l.got = ShownBelow(es, at) /\ l.keep \subseteq Shown(es) /\ Shown(es) \subseteq l.may
        /\ l.eof => at > Len(es)
        /\ InosFit(es, l.same)
    BY DEF MergedListing
  <1>3. /\ Len(filled) = Len(es) /\ Shown(filled) = Shown(es) /\ InosFit(filled, l.same)
        /\ ShownBelow(filled, stop) = ShownBelow(es, stop)
    BY <1>1, <1>2 DEF SameNames
  <1>4. CASE emit \in DOMAIN es
    <2>1. /\ at <= Len(es) /\ es[emit].name \in Names /\ ~es[emit].whiteout
          /\ ShownBelow(es, stop) = ShownBelow(es, at) \cup {es[emit].name}
          /\ es[emit].name \notin ShownBelow(es, at) /\ at \in Nat
      BY <1>4 DEF LoopRuns
    <2>2. PICK n, ino, early :
            n = filled[emit].name /\ ino = filled[emit].ino /\ early = filled[emit].early
      OBVIOUS
    <2>3. m = Emitted(l, n, ino, early) /\ n = es[emit].name
      BY <1>1, <1>4, <2>2 DEF MergedTo, SameNames
    <2>4. EmittedListing(m, l, n, ino, early)
      BY <2>3, EmittedFields
    <2>5. n \in l.same => early \/ ino = StIno(Layers, n)
      <3> HAVE n \in l.same
      <3>1. InoFits(es[emit])
        BY <1>2, <1>4, <2>1, <2>3 DEF InosFit
      <3> QED
        BY <1>1, <1>4, <2>2, <2>3, <3>1
    <2>6. ~l.eof
      BY <1>2, <2>1
    <2>7. /\ DOMAIN m = ListingFields /\ m.on /\ m.got = l.got \cup {n} /\ ~m.twice /\ ~m.badIno
          /\ ~m.eof /\ m.keep = l.keep /\ m.may = l.may /\ m.same = l.same
      BY <1>2, <2>1, <2>3, <2>4, <2>5, <2>6, Zenon DEF EmittedListing
    <2>8. MergedListing(m, filled, stop)
      BY <1>2, <1>3, <2>1, <2>3, <2>7, Zenon DEF MergedListing
    <2> QED
      BY <2>7, <2>8 DEF KeptListing
  <1>5. CASE emit > Len(es)
    <2>1. m = Ended(l)
      BY <1>5 DEF MergedTo
    <2>2. /\ DOMAIN m = ListingFields /\ m.on = l.on /\ m.got = l.got /\ m.twice = l.twice
          /\ m.badIno = l.badIno /\ m.eof = TRUE /\ m.keep = l.keep /\ m.may = l.may
          /\ m.same = l.same
      BY <2>1, EndedFields
    <2>3. ShownBelow(es, stop) = ShownBelow(es, at) /\ stop > Len(es)
      BY <1>5 DEF LoopRuns
    <2>4. MergedListing(m, filled, stop)
      BY <1>2, <1>3, <2>2, <2>3, Zenon DEF MergedListing
    <2> QED
      BY <2>2, <2>4 DEF KeptListing
  <1> QED
    BY <1>4, <1>5 DEF LoopRuns

LEMMA MergedFresh ==
  ASSUME ContentInv, DirInv, NEW es \in Seq(EntryType), Distinct(es), MergedValid(es),
         NEW pos, NEW at, NEW emit, NEW stop,
         LoopRuns(es, pos, at, emit, stop), NEW filled, filled = Filled(es, at), pos = 0,
         NEW m, m = FreshListing
  PROVE  MergedListing(m, filled, stop)
  <1>1. /\ SameNames(es, filled)
        /\ \A names : InosFit(es, names) => InosFit(filled, names)
    BY FilledFacts
  <1>2. Shown(es) = Visible(Layers) /\ InosFit(es, Names)
    BY DEF MergedValid
  <1>3. InosFit(filled, m.same)
    <2>1. m.same \subseteq Names
      BY ListingRecords DEF Visible
    <2>2. InosFit(filled, Names)
      BY <1>1, <1>2
    <2> QED
      BY <2>1, <2>2 DEF InosFit
  <1>4. ShownBelow(filled, stop) = {}
    BY <1>1 DEF SameNames, LoopRuns
  <1>5. Shown(filled) = Visible(Layers)
    BY <1>1, <1>2 DEF SameNames
  <1> QED
    BY <1>3, <1>4, <1>5, ListingRecords DEF MergedListing

\* The file of ovl_iterate with its merged cache.
MergedFile(s, f) ==
  /\ CacheInv(s) /\ Rest(s, f) /\ FileOk(s, f) /\ s.fd[f].pos = fd[f].pos
  /\ s.impure = dir.impure /\ s.fd[f].cache \in CacheIds
  /\ s.fd[f].open /\ ~s.fd[f].isReal
  /\ fd[f].pos = 0 => s.heap[s.fd[f].cache].version = dir.version
  /\ fd[f].pos > 0 /\ fd[f].cache # None => s = Now

LEMMA MergedStart ==
  ASSUME ReadDirInvariant, ListingInv, NEW f \in Fds, NEW a, a = AtStart(f),
         fd[f].open, ~a.fd[f].isReal,
         NEW s, s = IF a.fd[f].cache = None THEN CacheGet(a, f) ELSE a
  PROVE  MergedFile(s, f)
  <1>0. DirInv /\ ContentInv /\ None \notin CacheIds
    BY ReadDirAssumption DEF ReadDirInvariant, ListingInv
  <1>1. CacheInv(a) /\ a.fd[f].open = fd[f].open /\ a.fd[f].isUpper = fd[f].isUpper
    BY StartStep
  <1>2. /\ Rest(a, f) /\ FileOk(a, f) /\ a.fd[f].pos = fd[f].pos /\ a.impure = dir.impure
        /\ fd[f].pos = 0 => /\ a.fd[f].isReal => ~dir.whiteouts
                            /\ a.fd[f].cache # None =>
                                 a.heap[a.fd[f].cache].version = dir.version
        /\ fd[f].pos # 0 => a = Now
    BY StartContent
  <1>3. fd[f].pos \in Nat /\ a.fd[f].cache \in CacheIds \cup {None}
    BY <1>1, <1>2 DEF FileOk, CacheInv, Shape
  <1>4. CASE a.fd[f].cache = None
    <2>1. s = CacheGet(a, f)
      BY <1>4
    <2>2. dir.whiteouts
      BY <1>1 DEF CacheInv, FilesOk
    <2>3. a.fd[f].open
      BY <1>1
    <2>4. CacheInv(s) /\ s.fd[f].cache \in CacheIds
      BY <1>1, <1>4, <2>1, <2>2, <2>3, GetStep
    <2>g. GotCache(a, s, f)
      BY <1>0, <1>1, <1>2, <1>4, <2>1, <2>2, <2>3, GetContent
    <2>5. /\ Rest(s, f) /\ FileOk(s, f) /\ s.fd[f].pos = a.fd[f].pos
          /\ s.fd[f].open = a.fd[f].open /\ s.fd[f].isReal = a.fd[f].isReal
          /\ s.fd[f].isUpper = a.fd[f].isUpper /\ s.impure = a.impure
          /\ s.heap[s.fd[f].cache].version = dir.version
          /\ s.fd[f].cache \in CacheIds
      BY <2>g DEF GotCache
    <2>6. fd[f].pos > 0 => fd[f].cache = None
      BY <1>2, <1>3, <1>4, NowFields
    <2> QED
      BY <1>2, <2>3, <2>4, <2>5, <2>6 DEF MergedFile
  <1>5. CASE a.fd[f].cache # None
    <2>1. s = a
      BY <1>5
    <2>2. fd[f].pos > 0 => a = Now
      BY <1>2, <1>3
    <2> QED
      BY <1>1, <1>2, <1>3, <1>5, <2>1, <2>2 DEF MergedFile
  <1> QED
    BY <1>4, <1>5

MergedCall(s, f) ==
     LET c == s.fd[f].cache
         es == s.heap[c].entries
         at == s.fd[f].cursor
         emit == EmitAt(es, at)
         stop == StopAt(es, at)
         filled == Filled(es, at)
     IN /\ Becomes([s EXCEPT !.heap[c].entries = filled, !.fd[f].cursor = stop,
                             !.fd[f].pos = @ + (stop - at)])
        /\ listing' = [listing EXCEPT ![f] =
             CASE emit = 0 /\ fd[f].pos = 0 -> FreshListing
               [] emit \in DOMAIN es -> Emitted(@, filled[emit].name, filled[emit].ino,
                                                filled[emit].early)
               [] emit > Len(es) -> Ended(@)
               [] OTHER -> @]

LEMMA IterateMergedContent ==
  ASSUME ReadDirInvariant, ListingInv, NEW f \in Fds, IterateMerged(f)
  PROVE  ListingInv'
  <1>1. PICK a : a = AtStart(f)
    OBVIOUS
  <1>2. fd[f].open /\ ~a.fd[f].isReal /\ changes' = changes
    BY <1>1 DEF IterateMerged
  <1>s. PICK s : /\ s = IF a.fd[f].cache = None THEN CacheGet(a, f) ELSE a
                 /\ MergedCall(s, f)
    BY <1>1, Zenon DEF IterateMerged, MergedCall
  <1>c. PICK c, es, at : c = s.fd[f].cache /\ es = s.heap[c].entries /\ at = s.fd[f].cursor
    OBVIOUS
  <1>e. PICK emit, stop, filled :
          emit = EmitAt(es, at) /\ stop = StopAt(es, at) /\ filled = Filled(es, at)
    OBVIOUS
  <1>b. /\ Becomes([s EXCEPT !.heap[c].entries = filled, !.fd[f].cursor = stop,
                              !.fd[f].pos = @ + (stop - at)])
        /\ listing' = [listing EXCEPT ![f] =
             CASE emit = 0 /\ fd[f].pos = 0 -> FreshListing
               [] emit \in DOMAIN es -> Emitted(@, filled[emit].name, filled[emit].ino,
                                                filled[emit].early)
               [] emit > Len(es) -> Ended(@)
               [] OTHER -> @]
    BY <1>s, <1>c, <1>e, Zenon DEF MergedCall
  <1>m. MergedFile(s, f)
    BY <1>1, <1>2, <1>s, MergedStart
  <1>4. /\ CacheInv(s) /\ Rest(s, f) /\ FileOk(s, f) /\ s.fd[f].pos = fd[f].pos
        /\ s.impure = dir.impure /\ s.fd[f].cache \in CacheIds
        /\ s.fd[f].open /\ ~s.fd[f].isReal
        /\ fd[f].pos = 0 => s.heap[s.fd[f].cache].version = dir.version
        /\ fd[f].pos > 0 /\ fd[f].cache # None => s = Now
    BY <1>m DEF MergedFile
  <1>5. DirInv /\ ContentInv /\ None \notin CacheIds
    BY ReadDirAssumption DEF ReadDirInvariant, ListingInv
  <1>6. PICK pos : pos = fd[f].pos
    OBVIOUS
  <1>7. pos \in Nat /\ at = SeekCursor(es, pos)
    BY <1>c, <1>e, <1>4, <1>5, <1>6 DEF FileOk
  <1>8. s.heap[c].live /\ ~s.heap[c].impure /\ c \in CacheIds /\ Shape(s)
    <2>1. HeapOk(s) /\ FilesOk(s) /\ Shape(s)
      BY <1>4 DEF CacheInv
    <2>2. s.heap[c].live
      BY <1>c, <1>e, <1>4, <1>5, <2>1 DEF HeapOk
    <2>3. dir.whiteouts
      BY <1>4, <2>1 DEF FilesOk
    <2> QED
      BY <1>c, <1>e, <1>4, <2>1, <2>2, <2>3 DEF HeapOk
  <1>9. es \in Seq(EntryType) /\ Distinct(es) /\ (pos = 0 => MergedValid(es))
    <2>1. CacheOk(s.heap[c])
      BY <1>4, <1>8 DEF Rest, CachesOk
    <2> QED
      BY <1>c, <1>e, <1>4, <1>6, <1>8, <2>1 DEF CacheOk, Valid
  <1>10. LoopRuns(es, pos, at, emit, stop)
    BY <1>c, <1>e, <1>7, <1>9, LoopFacts
  <1>11. PICK p : p = pos + (stop - at)
    OBVIOUS
  <1>12. PICK t : t = Looped(s, f, c, filled, stop, p)
    OBVIOUS
  <1>13. Becomes(t)
    <2>1. /\ DOMAIN s = {"oi", "heap", "fd", "impure"} /\ s.fd = [g \in Fds |-> s.fd[g]]
          /\ DOMAIN s.fd[f] = {"open", "isReal", "isUpper", "cache", "cursor", "pos"}
      BY <1>8 DEF Shape
    <2>2. t = [s EXCEPT !.heap[c].entries = filled, !.fd[f].cursor = stop,
                        !.fd[f].pos = @ + (stop - at)]
      BY <1>4, <1>6, <1>11, <1>12, <2>1 DEF Looped
    <2> QED
      BY <1>b, <2>2
  <1>14. LoopMade(s, t, f, c, filled, stop, p)
    BY <1>8, <1>12, LoopFields
  <1>15. Rest(t, f)
    BY <1>c, <1>e, <1>4, <1>5, <1>8, <1>12, FillRest
  <1>16. /\ SameNames(es, filled) /\ t.heap[t.fd[f].cache].entries = filled
         /\ t.fd[f].pos = p /\ t.fd[f].cursor = stop /\ t.fd[f].open /\ ~t.fd[f].isReal
         /\ t.fd[f].cache = c /\ c # None /\ t.impure = dir.impure /\ p \in Nat /\ p > 0
    <2>1. SameNames(es, filled)
      BY <1>e, <1>5, <1>9, FilledFacts
    <2>2. p \in Nat /\ p > 0
      BY <1>10, <1>11 DEF LoopRuns
    <2> QED
      BY <1>c, <1>e, <1>4, <1>5, <1>8, <1>14, <2>1, <2>2 DEF LoopMade
  <1>17. FileOk(t, f)
    <2>1. SeekCursor(filled, p) = SeekCursor(es, p)
      BY <1>16, Zenon DEF SameNames, SeekCursor
    <2>2. stop = SeekCursor(es, p)
      BY <1>10, <1>11 DEF LoopRuns
    <2> QED
      BY <1>16, <2>1, <2>2, Zenon DEF FileOk
  <1>18. PICK l : l = listing[f]
    OBVIOUS
  <1>19. ListingOk(Now, f, l) /\ listing = [g \in Fds |-> listing[g]]
    BY <1>18 DEF ListingInv
  <1>20. PICK m : m = CASE emit = 0 /\ fd[f].pos = 0 -> FreshListing
                        [] emit \in DOMAIN es -> Emitted(l, filled[emit].name, filled[emit].ino,
                                                         filled[emit].early)
                        [] emit > Len(es) -> Ended(l)
                        [] OTHER -> l
    OBVIOUS
  <1>21. listing' = [listing EXCEPT ![f] = m]
    BY <1>b, <1>18, <1>19, <1>20, Zenon
  <1>22. MergedTo(m, l, es, pos, emit, filled)
    <2>0. Len(es) \in Nat /\ DOMAIN es = 1 .. Len(es) /\ emit \in Nat
      BY <1>9, <1>10 DEF LoopRuns
    <2>1. ASSUME pos = 0 PROVE m = FreshListing
      BY <1>6, <1>10, <1>20, <2>0, <2>1 DEF LoopRuns
    <2>2. ASSUME pos > 0, emit \in DOMAIN es
          PROVE  m = Emitted(l, filled[emit].name, filled[emit].ino, filled[emit].early)
      BY <1>6, <1>7, <1>20, <2>0, <2>2
    <2>3. ASSUME pos > 0, emit > Len(es) PROVE m = Ended(l)
      BY <1>6, <1>7, <1>20, <2>0, <2>3
    <2> QED
      BY <2>1, <2>2, <2>3 DEF MergedTo
  <1>23. ListingOk(t, f, m)
    <2>1. CASE pos = 0
      <3>1. m = FreshListing
        BY <1>22, <2>1 DEF MergedTo
      <3>2. MergedListing(m, filled, stop)
        BY <1>c, <1>e, <1>5, <1>9, <1>10, <2>1, <3>1, MergedFresh
      <3>3. /\ DOMAIN m = ListingFields /\ m.on /\ ~m.twice /\ ~m.badIno
            /\ m.keep = Visible(Layers) /\ m.may = Visible(Layers) /\ m.same = Visible(Layers)
        BY <3>1, ListingRecords
      <3> QED
        BY <1>16, <3>2, <3>3, Zenon DEF ListingOk
    <2>2. CASE pos > 0 /\ ~l.on
      <3>1. m = l
        BY <1>10, <1>22, <2>2, OffStays DEF MergedTo, LoopRuns
      <3> QED
        BY <1>19, <2>2, <3>1, Zenon DEF ListingOk
    <2>3. CASE pos > 0 /\ l.on
      <3>0. a = Now
        BY <1>1, <1>6, <2>3, StartContent
      <3>1. /\ DOMAIN l = ListingFields /\ ~l.twice /\ ~l.badIno
            /\ l.keep \subseteq Visible(Layers) /\ Visible(Layers) \subseteq l.may
            /\ l.same \subseteq Visible(Layers)
            /\ Now.fd[f].cache # None
            /\ MergedListing(l, Now.heap[Now.fd[f].cache].entries, Now.fd[f].cursor)
        BY <1>2, <1>19, <2>3, <3>0, Zenon DEF ListingOk, Astray
      <3>2. s = Now
        BY <1>4, <1>6, <2>3, <3>1, NowFields
      <3>3. MergedListing(l, es, at)
        BY <1>c, <1>e, <3>1, <3>2, Zenon
      <3>4. /\ DOMAIN m = ListingFields /\ m.on /\ ~m.twice /\ ~m.badIno
            /\ m.keep = l.keep /\ m.may = l.may /\ m.same = l.same
            /\ MergedListing(m, filled, stop)
        <4>1. KeptListing(m, l, filled, stop)
          BY <1>e, <1>5, <1>7, <1>9, <1>10, <1>22, <2>3, <3>1, <3>3, MergedKept
        <4> QED
          BY <4>1 DEF KeptListing
      <3> QED
        BY <1>16, <3>1, <3>4, Zenon DEF ListingOk
    <2> QED
      BY <1>7, <2>1, <2>2, <2>3
  <1>24. ~t.impure => \A n \in Names : ~HasOrigin(dir.upper[n])
    BY <1>5, <1>16 DEF ContentInv
  <1> QED
    BY <1>2, <1>5, <1>13, <1>15, <1>17, <1>19, <1>21, <1>23, <1>24, BecomesContent

-----------------------------------------------------------------------------
(* ovl_iterate of a real directory. *)

\* The only layer of a directory is what it shows.
LEMMA OneLayer ==
  ASSUME DOMAIN Layers = 1 .. 1, NEW layer, layer = Layers[1],
         \A n \in Names : Node(layer[n]), changes \in Nat
  PROVE  /\ \A n \in Names : TopNode(Layers, n) = layer[n]
         /\ Visible(Layers) = Objects(layer)
  <1>0. DOMAIN Layers \subseteq Nat
    OBVIOUS
  <1>1. ASSUME NEW n \in Names PROVE TopNode(Layers, n) = layer[n]
    <2>1. CASE \E j : First(Layers, n, j)
      <3>1. PICK j : First(Layers, n, j)
        BY <2>1
      <3>2. j = 1
        BY <3>1 DEF First
      <3> QED
        BY <1>0, <3>1, <3>2, TopFirst
    <2>2. CASE TopNode(Layers, n) = Gone /\ \A i \in DOMAIN Layers : Layers[i][n].kind = "no"
      <3>1. layer[n].kind = "no"
        BY <2>2
      <3> QED
        BY <2>2, <3>1, NodeFields
    <2> QED
      BY <1>0, <2>1, <2>2, TopCases
  <1> QED
    BY <1>1 DEF Visible, Objects

\* A real directory that has an upper layer shows that layer.
LEMMA UpperOnly ==
  ASSUME "former" \notin Kinds, ContentInv, DirInv, dir.hasUpper, ~Merge
  PROVE  /\ \A n \in Names : TopNode(Layers, n) = dir.upper[n] /\ dir.upper[n] # Wh
         /\ Visible(Layers) = Objects(dir.upper)
         /\ Layers = <<dir.upper>> \o Lower /\ Lower = <<>> /\ dir.kind = "upper"
  <1>1. Lower = <<>> /\ changes \in Nat /\ dir.kind \in Kinds
    BY DEF ContentInv, Merge, DirInv
  <1>2. dir.kind = "upper"
    BY <1>1, LowerFacts
  <1>3. LayersTyped /\ LayersStacked
    BY <1>1, LayersFacts
  <1>4. Layers[1] = dir.upper /\ DOMAIN Layers = 1 .. 1 /\ Layers = <<dir.upper>> \o Lower
    <2>1. Len(Lower) = 0
      BY <1>1
    <2> QED
      BY <1>3, <2>1 DEF LayersTyped, LayersStacked
  <1>5. \A n \in Names : Node(dir.upper[n])
    BY DEF ContentInv
  <1>6. /\ \A n \in Names : TopNode(Layers, n) = dir.upper[n]
        /\ Visible(Layers) = Objects(dir.upper)
    BY <1>1, <1>4, <1>5, OneLayer
  <1>7. \A n \in Names : dir.upper[n] # Wh
    BY <1>2 DEF ContentInv
  <1> QED
    BY <1>1, <1>2, <1>4, <1>6, <1>7

\* A directory of one lower layer shows that layer, until its copy-up is done.
LEMMA LowerOnly ==
  ASSUME ContentInv, ~dir.whiteouts, dir.kind = "lower", Len(Lower) = 1
  PROVE  /\ \A n \in Names : StIno(Layers, n) = Lower[1][n].st
         /\ Visible(Layers) = Objects(Lower[1])
  BY DEF ContentInv, Visible, Objects

LEMMA NameAt ==
  /\ DOMAIN NameSeq \subseteq Nat
  /\ \A i \in DOMAIN NameSeq : NameSeq[i] \in Names
  /\ \A n \in Names : \E i \in DOMAIN NameSeq : NameSeq[i] = n
  /\ \A i, j \in DOMAIN NameSeq : NameSeq[i] = NameSeq[j] => i = j
  <1>1. NameSeq \in Seq(Names)
    BY ReadDirAssumption
  <1>2. DOMAIN NameSeq \subseteq Nat /\ \A i \in DOMAIN NameSeq : NameSeq[i] \in Names
    BY <1>1
  <1>3. \A n \in Names : \E i \in DOMAIN NameSeq : NameSeq[i] = n
    BY DEF Names, ToSet
  <1> QED
    BY <1>2, <1>3, ReadDirAssumption

Ahead(layer, pos) == {i \in DOMAIN NameSeq : i >= pos /\ layer[NameSeq[i]].kind # "no"}

\* The next name of a real directory.
LEMMA RealEmits ==
  ASSUME NEW layer, \A n \in Names : layer[n].kind \in {"no", "object"}, NEW pos \in Nat,
         NEW l, RealListing(l, layer, pos),
         NEW next, next \in Ahead(layer, pos), \A j \in Ahead(layer, pos) : next <= j,
         NEW n, n = NameSeq[next], NEW m, m.got = l.got \cup {n},
         m.keep = l.keep, m.may = l.may, m.eof = l.eof
  PROVE  RealListing(m, layer, next + 1) /\ n \notin l.got /\ n \in Objects(layer)
         /\ n \in Names /\ next + 1 \in Nat /\ next + 1 > 0
  <1>1. next \in DOMAIN NameSeq /\ next >= pos /\ layer[n].kind # "no" /\ next \in Nat /\ n \in Names
    BY NameAt DEF Ahead
  <1>2. n \in Objects(layer)
    BY <1>1 DEF Objects
  <1>3. n \notin Before(pos)
    <2> SUFFICES ASSUME n \in Before(pos) PROVE FALSE
      OBVIOUS
    <2>1. PICK i \in DOMAIN NameSeq : i < pos /\ NameSeq[i] = n
      BY DEF Before
    <2>2. i = next
      BY <1>1, <2>1, NameAt
    <2> QED
      BY <1>1, <2>1, <2>2
  <1>4. Before(pos) \subseteq Before(next + 1) /\ n \in Before(next + 1)
    <2>1. \A i \in DOMAIN NameSeq : i < pos => i < next + 1
      BY <1>1, NameAt
    <2>2. next < next + 1
      BY <1>1
    <2> QED
      BY <1>1, <2>1, <2>2 DEF Before
  <1>5. ASSUME NEW k \in l.keep, k \in Before(next + 1) PROVE k \in l.got \cup {n}
    <2>1. PICK i \in DOMAIN NameSeq : i < next + 1 /\ NameSeq[i] = k
      BY <1>5 DEF Before
    <2>2. layer[k].kind # "no"
      BY DEF RealListing, Objects
    <2>3. CASE i < pos
      BY <2>1, <2>3 DEF RealListing, Before
    <2>4. CASE i >= pos
      <3>1. i \in Ahead(layer, pos)
        BY <2>1, <2>2, <2>4 DEF Ahead
      <3>2. i = next
        BY <1>1, <2>1, <3>1, NameAt
      <3> QED
        BY <2>1, <3>2
    <2> QED
      BY <1>1, <2>1, <2>3, <2>4, NameAt
  <1>6. RealListing(m, layer, next + 1)
    <2>1. /\ l.keep \subseteq Objects(layer) /\ Objects(layer) \subseteq l.may /\ l.got \subseteq l.may
          /\ l.got \subseteq Before(pos) /\ (l.eof => l.keep \subseteq Before(pos))
      BY DEF RealListing
    <2>2. m.got \subseteq m.may /\ m.got \subseteq Before(next + 1)
      BY <1>2, <1>4, <2>1
    <2>3. m.keep \cap Before(next + 1) \subseteq m.got
      BY <1>5
    <2>4. m.eof => m.keep \subseteq Before(next + 1)
      BY <1>4, <2>1
    <2> QED
      BY <2>1, <2>2, <2>3, <2>4 DEF RealListing
  <1>7. n \notin l.got
    BY <1>3 DEF RealListing
  <1> QED
    BY <1>1, <1>2, <1>6, <1>7

\* No name is left.
LEMMA RealEnds ==
  ASSUME NEW layer, NEW pos \in Nat, NEW l, RealListing(l, layer, pos), Ahead(layer, pos) = {},
         NEW m, m.got = l.got, m.keep = l.keep, m.may = l.may
  PROVE  RealListing(m, layer, pos)
  <1>1. ASSUME NEW k \in l.keep PROVE k \in Before(pos)
    <2>1. k \in Names /\ layer[k].kind # "no"
      BY DEF RealListing, Objects
    <2>2. PICK i \in DOMAIN NameSeq : NameSeq[i] = k
      BY <2>1, NameAt
    <2>3. i < pos
      <3>1. i \notin Ahead(layer, pos)
        OBVIOUS
      <3> QED
        BY <2>1, <2>2, <3>1, NameAt DEF Ahead
    <2> QED
      BY <2>2, <2>3 DEF Before
  <1> QED
    BY <1>1 DEF RealListing

LEMMA RealFresh ==
  ASSUME NEW layer, Visible(Layers) = Objects(layer), NEW m, m = FreshListing
  PROVE  RealListing(m, layer, 1)
  <1>1. Before(1) = {}
    <2>1. \A i \in DOMAIN NameSeq : ~(i < 1)
      <3>1. NameSeq \in Seq(Names)
        BY ReadDirAssumption
      <3> QED
        BY <3>1
    <2> QED
      BY <2>1 DEF Before
  <1> QED
    BY <1>1, ListingRecords DEF RealListing

\* The position of a file.
MovedTo(s, t, f, p) ==
  /\ Rest(t, f) /\ t.impure = s.impure /\ t.heap = s.heap
  /\ t.fd[f].open = s.fd[f].open /\ t.fd[f].isReal = s.fd[f].isReal
  /\ t.fd[f].isUpper = s.fd[f].isUpper /\ t.fd[f].cache = s.fd[f].cache
  /\ t.fd[f].cursor = s.fd[f].cursor /\ t.fd[f].pos = p

LEMMA MovedFile ==
  ASSUME NEW s, CacheInv(s), NEW f \in Fds, Rest(s, f), NEW p, NEW t,
         t = [s EXCEPT !.fd[f].pos = p]
  PROVE  MovedTo(s, t, f, p)
  <1>1. /\ DOMAIN s = {"oi", "heap", "fd", "impure"} /\ s.fd = [g \in Fds |-> s.fd[g]]
        /\ DOMAIN s.fd[f] = {"open", "isReal", "isUpper", "cache", "cursor", "pos"}
    BY DEF CacheInv, Shape
  <1>2. PICK x : x = [s.fd[f] EXCEPT !.pos = p]
    OBVIOUS
  <1>3. t.heap = s.heap /\ t.impure = s.impure /\ t.fd = [s.fd EXCEPT ![f] = x]
    BY <1>1, <1>2
  <1>4. /\ x.open = s.fd[f].open /\ x.isReal = s.fd[f].isReal
        /\ x.isUpper = s.fd[f].isUpper /\ x.cache = s.fd[f].cache
        /\ x.cursor = s.fd[f].cursor /\ x.pos = p
    BY <1>1, <1>2
  <1>5. t.fd[f] = x /\ \A g \in Fds \ {f} : t.fd[g] = s.fd[g]
    BY <1>1, <1>3
  <1>6. Rest(t, f)
    <2>1. Carried(s, t, f)
      BY <1>3, <1>5, OwnFile
    <2> QED
      BY <2>1, CarriedRest
  <1> QED
    BY <1>3, <1>4, <1>5, <1>6 DEF MovedTo

\* The entries of the impure cache of the directory, when there is one.
CachedEntries(s, f) ==
  IF IsImpureDir(f) /\ s.oi # None THEN ToSet(s.heap[s.oi].entries) ELSE {}

\* The file of ovl_iterate on a real directory.
RealFile(s, f) ==
  /\ CacheInv(s) /\ Rest(s, f) /\ s.fd[f].pos = fd[f].pos /\ fd[f].pos \in Nat
  /\ s.fd[f].open /\ s.fd[f].isReal /\ s.fd[f].isUpper = fd[f].isUpper
  /\ s.fd[f].cache = None
  /\ ~fd[f].isUpper => dir.kind = "lower" /\ Len(Lower) = 1
  /\ fd[f].isUpper => dir.hasUpper
  /\ fd[f].pos = 0 => ~dir.whiteouts
  /\ ~s.impure => \A n \in Names : ~HasOrigin(dir.upper[n])
  /\ fd[f].pos # 0 => s.fd[f] = fd[f]
  /\ ~fd[f].isUpper => CachedEntries(s, f) = {}
  /\ \A p \in CachedEntries(s, f) :
       HasOrigin(dir.upper[p.name]) /\ p.ino = dir.upper[p.name].st
  /\ fd[f].isUpper =>
       \A n \in Names \ dir.linked :
         HasOrigin(dir.upper[n]) => \E p \in CachedEntries(s, f) : p.name = n

LEMMA RealStart ==
  ASSUME ReadDirInvariant, ListingInv, NEW f \in Fds, NEW a, a = AtStart(f),
         fd[f].open, a.fd[f].isReal, IsImpureDir(f) => ~Merge,
         NEW s, s = IF IsImpureDir(f) THEN CacheGetImpure(a) ELSE a
  PROVE  RealFile(s, f)
  <1>0. DirInv /\ ContentInv
    BY DEF ReadDirInvariant, ListingInv
  <1>1. CacheInv(a) /\ a.fd[f].open = fd[f].open /\ a.fd[f].isUpper = fd[f].isUpper
    BY StartStep
  <1>2. /\ Rest(a, f) /\ FileOk(a, f) /\ a.fd[f].pos = fd[f].pos /\ a.impure = dir.impure
        /\ fd[f].pos = 0 => /\ a.fd[f].isReal => ~dir.whiteouts
                            /\ a.fd[f].cache # None =>
                                 a.heap[a.fd[f].cache].version = dir.version
        /\ fd[f].pos # 0 => a = Now
    BY StartContent
  <1>3. a.fd[f].cache = None /\ fd[f].pos \in Nat
        /\ (~fd[f].isUpper => dir.kind = "lower" /\ Len(Lower) = 1)
        /\ (fd[f].isUpper => dir.hasUpper /\ (~dir.whiteouts \/ Merge))
    BY <1>1, <1>2 DEF FileOk, CacheInv, FilesOk
  <1>4. fd[f].pos # 0 => a.fd[f] = fd[f]
    BY <1>2, NowFields
  <1>5. CASE ~IsImpureDir(f)
    <2>1. s = a /\ CachedEntries(s, f) = {}
      BY <1>5 DEF CachedEntries
    <2>2. fd[f].isUpper => \A n \in Names : ~HasOrigin(dir.upper[n])
      BY <1>0, <1>5 DEF IsImpureDir, ContentInv
    <2>3. ~s.impure => \A n \in Names : ~HasOrigin(dir.upper[n])
      BY <1>0, <1>2, <2>1 DEF ContentInv
    <2> QED
      BY <1>1, <1>2, <1>3, <1>4, <2>1, <2>2, <2>3 DEF RealFile
  <1>6. CASE IsImpureDir(f)
    <2>1. s = CacheGetImpure(a) /\ fd[f].isUpper /\ ~dir.whiteouts /\ dir.hasUpper /\ ~Merge
      BY <1>3, <1>6 DEF IsImpureDir
    <2>2. CacheInv(s) /\ s.fd = a.fd
      BY <1>1, <2>1, GetImpureStep
    <2>3. /\ Rest(s, f) /\ FileOk(s, f) /\ s.fd = a.fd
          /\ ~s.impure => \A n \in Names : ~HasOrigin(dir.upper[n])
          /\ s.oi = None => \A n \in Names : ~HasOrigin(dir.upper[n])
          /\ s.oi # None => /\ s.oi \in CacheIds /\ s.heap[s.oi].live /\ s.heap[s.oi].impure
                            /\ s.heap[s.oi].version = dir.version
      BY <1>0, <1>1, <1>2, <2>1, GetImpureContent
    <2>4. CASE s.oi = None
      <3>1. CachedEntries(s, f) = {}
        BY <2>4 DEF CachedEntries
      <3> QED
        BY <1>1, <1>2, <1>3, <1>4, <2>1, <2>2, <2>3, <2>4, <3>1 DEF RealFile
    <2>5. CASE s.oi # None
      <3>1. PICK es : es = s.heap[s.oi].entries
        OBVIOUS
      <3>2. CachedEntries(s, f) = ToSet(es)
        BY <1>6, <2>5, <3>1 DEF CachedEntries
      <3>3. ImpureValid(es)
        <4>1. CacheOk(s.heap[s.oi])
          BY <2>3, <2>5 DEF Rest, CachesOk
        <4> QED
          BY <2>3, <2>5, <3>1, <4>1 DEF CacheOk, Valid
      <3>4. \A p \in CachedEntries(s, f) :
              HasOrigin(dir.upper[p.name]) /\ p.ino = dir.upper[p.name].st
        BY <3>2, <3>3 DEF ToSet, ImpureValid
      <3>5. \A n \in Names \ dir.linked :
              HasOrigin(dir.upper[n]) => \E p \in CachedEntries(s, f) : p.name = n
        BY <3>2, <3>3 DEF ToSet, ImpureValid
      <3> QED
        BY <1>1, <1>2, <1>3, <1>4, <2>1, <2>2, <2>3, <3>4, <3>5 DEF RealFile
    <2> QED
      BY <2>4, <2>5
  <1> QED
    BY <1>5, <1>6

\* The number of a name comes from the cache or is the real one.
InoFrom(cached, real) == IF cached = {} THEN real ELSE (CHOOSE p \in cached : TRUE).ino
RealIno(s, f, layer, n) ==
  InoFrom(IF IsImpureDir(f) /\ s.oi # None
          THEN {p \in ToSet(s.heap[s.oi].entries) : p.name = n} ELSE {}, layer[n].real)

LEMMA RealInoFits ==
  ASSUME DirInv, ContentInv, NEW s, NEW f, RealFile(s, f), NEW n \in Names \ dir.linked,
         NEW layer, layer = RealLayer(fd[f]), layer[n].kind = "object"
  PROVE  RealIno(s, f, layer, n) = layer[n].st
  <1>1. PICK cached : cached = {p \in CachedEntries(s, f) : p.name = n}
    OBVIOUS
  <1>2. RealIno(s, f, layer, n) = InoFrom(cached, layer[n].real)
    <2>1. cached = IF IsImpureDir(f) /\ s.oi # None
                   THEN {p \in ToSet(s.heap[s.oi].entries) : p.name = n} ELSE {}
      BY <1>1 DEF CachedEntries
    <2> QED
      BY <2>1, Zenon DEF RealIno
  <1>3. CASE cached = {}
    <2>1. ~HasOrigin(layer[n])
      <3>1. CASE fd[f].isUpper
        <4>1. layer = dir.upper
          BY <3>1 DEF RealLayer
        <4>2. HasOrigin(dir.upper[n]) => \E p \in CachedEntries(s, f) : p.name = n
          BY <3>1 DEF RealFile
        <4> QED
          BY <1>1, <1>3, <4>1, <4>2
      <3>2. CASE ~fd[f].isUpper
        <4>1. layer = Lower[1] /\ Len(Lower) = 1
          BY <3>2 DEF RealLayer, RealFile
        <4>2. /\ Len(Lower) \in Nat /\ DOMAIN Lower = 1 .. Len(Lower)
              /\ \A i \in DOMAIN Lower, k \in Names : ~HasOrigin(Lower[i][k])
          BY LowerFacts DEF ContentInv, DirInv
        <4> QED
          BY <4>1, <4>2
      <3> QED
        BY <3>1, <3>2
    <2> QED
      BY <1>2, <1>3, <2>1 DEF HasOrigin, InoFrom
  <1>4. CASE cached # {}
    <2>1. PICK p : p = CHOOSE q \in cached : TRUE
      OBVIOUS
    <2>2. p \in cached
      BY <1>4, <2>1
    <2>3. p.ino = dir.upper[n].st /\ fd[f].isUpper
      BY <1>1, <2>2 DEF RealFile
    <2> QED
      BY <1>2, <1>4, <2>1, <2>3 DEF RealLayer, InoFrom
  <1> QED
    BY <1>3, <1>4

\* A real directory has no whiteouts and shows its only layer.
LEMMA RealNames ==
  ASSUME "former" \notin Kinds, DirInv, ContentInv, NEW s, NEW f, RealFile(s, f),
         fd[f].isUpper => ~Merge, NEW layer, layer = RealLayer(fd[f])
  PROVE  /\ \A n \in Names : layer[n].kind \in {"no", "object"}
         /\ ~dir.whiteouts => /\ Visible(Layers) = Objects(layer)
                              /\ \A n \in Names : StIno(Layers, n) = layer[n].st
  <1>1. changes \in Nat /\ dir.kind \in Kinds
    BY DEF ContentInv, DirInv
  <1>2. CASE fd[f].isUpper
    <2>1. layer = dir.upper /\ dir.hasUpper /\ ~Merge
      BY <1>2 DEF RealLayer, RealFile
    <2>2. /\ \A n \in Names : TopNode(Layers, n) = dir.upper[n] /\ dir.upper[n] # Wh
          /\ Visible(Layers) = Objects(dir.upper)
      BY <2>1, UpperOnly
    <2>3. \A n \in Names : Node(dir.upper[n])
      BY DEF ContentInv
    <2>4. \A n \in Names : dir.upper[n].kind \in {"no", "object"}
      BY <1>1, <2>2, <2>3, NodeFields
    <2> QED
      BY <2>1, <2>2, <2>4 DEF StIno
  <1>3. CASE ~fd[f].isUpper
    <2>1. layer = Lower[1] /\ dir.kind = "lower" /\ Len(Lower) = 1
      BY <1>3 DEF RealLayer, RealFile
    <2>2. /\ DOMAIN Lower = 1 .. Len(Lower)
          /\ \A i \in DOMAIN Lower, n \in Names : Node(Lower[i][n])
          /\ \A n \in Names : Lower[1][n] # Wh
      BY <1>1, <2>1, LowerFacts
    <2>3. \A n \in Names : layer[n].kind \in {"no", "object"}
      <3>1. \A n \in Names : Node(layer[n]) /\ layer[n] # Wh
        BY <2>1, <2>2
      <3> QED
        BY <1>1, <3>1, NodeFields
    <2>4. ~dir.whiteouts => /\ \A n \in Names : StIno(Layers, n) = Lower[1][n].st
                            /\ Visible(Layers) = Objects(Lower[1])
      BY <2>1, LowerOnly
    <2> QED
      BY <2>1, <2>3, <2>4
  <1> QED
    BY <1>2, <1>3

RealCall(s, f) ==
     LET real == RealLayer(fd[f])
         ahead == Ahead(real, fd[f].pos)
         next == CHOOSE i \in ahead : \A j \in ahead : i <= j
         name == NameSeq[next]
         ino == RealIno(s, f, real, name)
     IN CASE fd[f].pos = 0 ->
               /\ Becomes([s EXCEPT !.fd[f].pos = 1])
               /\ listing' = [listing EXCEPT ![f] = FreshListing]
          [] fd[f].pos > 0 /\ ahead # {} ->
               /\ Becomes([s EXCEPT !.fd[f].pos = next + 1])
               /\ listing' = [listing EXCEPT ![f] = Emitted(@, name, ino, FALSE)]
          [] OTHER ->
               /\ Becomes(s)
               /\ listing' = [listing EXCEPT ![f] = Ended(@)]

\* What the call does to its file and its listing, and what becomes of the position.
RealTo(t, m, p, s, f, l, layer, pos) ==
  \/ pos = 0 /\ p = 1 /\ t = [s EXCEPT !.fd[f].pos = p] /\ m = FreshListing
  \/ /\ pos > 0
     /\ \E next \in Ahead(layer, pos) :
          /\ \A j \in Ahead(layer, pos) : next <= j
          /\ p = next + 1 /\ t = [s EXCEPT !.fd[f].pos = p]
          /\ m = Emitted(l, NameSeq[next], RealIno(s, f, layer, NameSeq[next]), FALSE)
  \/ pos > 0 /\ Ahead(layer, pos) = {} /\ p = pos /\ t = s /\ m = Ended(l)

LEMMA RealCallDoes ==
  ASSUME NEW s, NEW f \in Fds, RealCall(s, f), fd[f].pos \in Nat,
         listing = [g \in Fds |-> listing[g]]
  PROVE  \E t, m, p : /\ RealTo(t, m, p, s, f, listing[f], RealLayer(fd[f]), fd[f].pos)
                      /\ Becomes(t) /\ listing' = [listing EXCEPT ![f] = m]
  <1>1. PICK layer, pos : layer = RealLayer(fd[f]) /\ pos = fd[f].pos
    OBVIOUS
  <1>2. PICK ahead : ahead = Ahead(layer, pos)
    OBVIOUS
  <1>3. PICK next : next = CHOOSE i \in ahead : \A j \in ahead : i <= j
    OBVIOUS
  <1>4. PICK n : n = NameSeq[next]
    OBVIOUS
  <1>5. PICK ino : ino = RealIno(s, f, layer, n)
    OBVIOUS
  <1>6. CASE pos = 0 /\ Becomes([s EXCEPT !.fd[f].pos = 1])
             /\ listing' = [listing EXCEPT ![f] = FreshListing]
    BY <1>1, <1>6, Zenon DEF RealTo
  <1>7. CASE pos > 0 /\ ahead # {} /\ Becomes([s EXCEPT !.fd[f].pos = next + 1])
             /\ listing' = [listing EXCEPT ![f] = Emitted(@, n, ino, FALSE)]
    <2>1. ahead \subseteq Nat
      BY <1>2, NameAt DEF Ahead
    <2>2. \E i \in ahead : \A j \in ahead : i <= j
      BY <1>7, <2>1, LeastNat
    <2>3. next \in ahead /\ \A j \in ahead : next <= j
      BY <1>3, <2>2
    <2>4. PICK p : p = next + 1
      OBVIOUS
    <2>5. PICK t : t = [s EXCEPT !.fd[f].pos = p]
      OBVIOUS
    <2>6. PICK m : m = Emitted(listing[f], n, ino, FALSE)
      OBVIOUS
    <2>7. listing' = [listing EXCEPT ![f] = m]
      BY <1>7, <2>6
    <2>8. Becomes(t)
      BY <1>7, <2>4, <2>5
    <2>9. RealTo(t, m, p, s, f, listing[f], layer, pos)
      BY <1>2, <1>4, <1>5, <1>7, <2>3, <2>4, <2>5, <2>6, Zenon DEF RealTo
    <2> QED
      BY <1>1, <2>7, <2>8, <2>9
  <1>8. CASE pos > 0 /\ ahead = {} /\ Becomes(s) /\ listing' = [listing EXCEPT ![f] = Ended(@)]
    <2>1. PICK m : m = Ended(listing[f])
      OBVIOUS
    <2>2. listing' = [listing EXCEPT ![f] = m]
      BY <1>8, <2>1
    <2>3. RealTo(s, m, pos, s, f, listing[f], layer, pos)
      BY <1>2, <1>8, <2>1, Zenon DEF RealTo
    <2> QED
      BY <1>1, <1>8, <2>2, <2>3
  <1>9. (CASE fd[f].pos = 0 ->
               /\ Becomes([s EXCEPT !.fd[f].pos = 1])
               /\ listing' = [listing EXCEPT ![f] = FreshListing]
          [] fd[f].pos > 0 /\ ahead # {} ->
               /\ Becomes([s EXCEPT !.fd[f].pos = next + 1])
               /\ listing' = [listing EXCEPT ![f] = Emitted(@, n, ino, FALSE)]
          [] OTHER ->
               /\ Becomes(s)
               /\ listing' = [listing EXCEPT ![f] = Ended(@)])
    BY <1>1, <1>2, <1>3, <1>4, <1>5, Zenon DEF RealCall
  <1>10. (pos = 0 \/ pos > 0) /\ ~(pos = 0 /\ pos > 0)
    BY <1>1
  <1> QED
    BY <1>1, <1>6, <1>7, <1>8, <1>9, <1>10, Zenon

\* A listing of a real directory that goes on.
KeptReal(m, l, layer, p) ==
  /\ DOMAIN m = ListingFields /\ m.on /\ ~m.twice /\ ~m.badIno
  /\ m.keep = l.keep /\ m.may = l.may /\ m.same = l.same
  /\ RealListing(m, layer, p) /\ p \in Nat /\ p > 0

LEMMA RealKept ==
  ASSUME "former" \notin Kinds, DirInv, ContentInv, NEW s, NEW f \in Fds, RealFile(s, f),
         fd[f].isUpper => ~Merge, NEW l, l.on, ListingOk(Now, f, l),
         NEW layer, layer = RealLayer(fd[f]), NEW pos, pos = fd[f].pos, pos > 0,
         NEW t, NEW m, NEW p, RealTo(t, m, p, s, f, l, layer, pos)
  PROVE  KeptReal(m, l, layer, p)
  <1>1. s.fd[f] = fd[f] /\ fd[f].isReal /\ pos \in Nat
    BY DEF RealFile
  <1>2. /\ DOMAIN l = ListingFields /\ ~l.twice /\ ~l.badIno
        /\ l.same \subseteq Visible(Layers)
        /\ RealListing(l, layer, pos) /\ LowerFits(l, fd[f])
    BY <1>1, NowFields DEF ListingOk, Astray
  <1>3. /\ \A n \in Names : layer[n].kind \in {"no", "object"}
        /\ ~dir.whiteouts => \A n \in Names : StIno(Layers, n) = layer[n].st
    BY RealNames
  <1>4. ASSUME NEW next \in Ahead(layer, pos), \A j \in Ahead(layer, pos) : next <= j,
               p = next + 1,
               m = Emitted(l, NameSeq[next], RealIno(s, f, layer, NameSeq[next]), FALSE)
        PROVE  KeptReal(m, l, layer, p)
    <2>1. PICK n, ino : n = NameSeq[next] /\ ino = RealIno(s, f, layer, n)
      OBVIOUS
    <2>2. m = Emitted(l, n, ino, FALSE)
      BY <1>4, <2>1
    <2>3. EmittedListing(m, l, n, ino, FALSE)
      BY <1>2, <2>2, EmittedFields
    <2>4. m.got = l.got \cup {n} /\ m.keep = l.keep /\ m.may = l.may /\ m.eof = l.eof
      BY <2>3 DEF EmittedListing
    <2>5. /\ RealListing(m, layer, next + 1) /\ n \notin l.got /\ n \in Objects(layer)
          /\ n \in Names /\ next + 1 \in Nat /\ next + 1 > 0
      <3>1. next \in Ahead(layer, pos) /\ \A j \in Ahead(layer, pos) : next <= j
        BY <1>4
      <3> QED
        BY <1>1, <1>2, <1>3, <2>1, <2>4, <3>1, RealEmits, Zenon
    <2>6. n \in l.same \ dir.linked => ino = StIno(Layers, n)
      <3> HAVE n \in l.same \ dir.linked
      <3>1. n \in Names \ dir.linked /\ layer[n].kind = "object"
        BY <2>5 DEF Objects
      <3>2. ino = layer[n].st
        BY <2>1, <3>1, RealInoFits
      <3>3. CASE fd[f].isUpper
        <4>1. ~dir.whiteouts
          BY <3>3 DEF ContentInv
        <4> QED
          BY <1>3, <2>5, <3>2, <4>1
      <3>4. CASE ~fd[f].isUpper
        BY <1>2, <3>2, <3>4 DEF LowerFits, RealLayer
      <3> QED
        BY <3>3, <3>4
    <2>7. /\ DOMAIN m = ListingFields /\ m.on /\ ~m.twice /\ ~m.badIno /\ m.same = l.same
      BY <1>2, <2>3, <2>5, <2>6, Zenon DEF EmittedListing
    <2> QED
      BY <1>4, <2>4, <2>5, <2>7 DEF KeptReal
  <1>5. ASSUME Ahead(layer, pos) = {}, p = pos, m = Ended(l)
        PROVE  KeptReal(m, l, layer, p)
    <2>1. /\ DOMAIN m = ListingFields /\ m.on = l.on /\ m.got = l.got /\ m.twice = l.twice
          /\ m.badIno = l.badIno /\ m.eof = TRUE /\ m.keep = l.keep /\ m.may = l.may
          /\ m.same = l.same
      BY <1>2, <1>5, EndedFields
    <2>2. RealListing(m, layer, pos)
      BY <1>1, <1>2, <1>5, <2>1, RealEnds
    <2> QED
      BY <1>1, <1>2, <1>5, <2>1, <2>2 DEF KeptReal
  <1>6. pos # 0
    OBVIOUS
  <1> QED
    BY <1>4, <1>5, <1>6 DEF RealTo

\* The fields of the listing, also when the file is astray.
LEMMA RealFields ==
  ASSUME NEW s, NEW f \in Fds, NEW l, ListingOk(Now, f, l), NEW layer, NEW pos \in Nat,
         NEW t, NEW m, NEW p, RealTo(t, m, p, s, f, l, layer, pos)
  PROVE  /\ ~m.on => m = NoListing
         /\ m.on => DOMAIN m = ListingFields /\ p > 0
  <1>1. CASE pos = 0
    <2>1. m = FreshListing /\ p = 1
      BY <1>1 DEF RealTo
    <2> QED
      BY <2>1, ListingRecords
  <1>2. CASE pos > 0 /\ ~l.on
    <2>1. Ended(l) = l /\ \A n, ino, early : Emitted(l, n, ino, early) = l
      BY <1>2, OffStays
    <2>2. pos # 0
      BY <1>2
    <2>3. m = l
      BY <2>1, <2>2 DEF RealTo
    <2>4. l = NoListing
      BY <1>2 DEF ListingOk
    <2> QED
      BY <2>3, <2>4, ListingRecords
  <1>3. CASE pos > 0 /\ l.on
    <2>1. DOMAIN l = ListingFields
      BY <1>3 DEF ListingOk
    <2>2. ASSUME NEW next \in Ahead(layer, pos), p = next + 1, NEW n, NEW ino,
                 m = Emitted(l, n, ino, FALSE)
          PROVE  m.on /\ DOMAIN m = ListingFields /\ p > 0
      <3>1. EmittedListing(m, l, n, ino, FALSE)
        BY <1>3, <2>1, <2>2, EmittedFields
      <3>2. next \in Nat
        BY NameAt DEF Ahead
      <3>3. p > 0
        BY <2>2, <3>2
      <3> QED
        BY <3>1, <3>3, Zenon DEF EmittedListing
    <2>3. ASSUME m = Ended(l), p = pos
          PROVE  m.on /\ DOMAIN m = ListingFields /\ p > 0
      BY <1>3, <2>1, <2>3, EndedFields
    <2>4. pos # 0
      BY <1>3
    <2> QED
      BY <2>2, <2>3, <2>4 DEF RealTo
  <1> QED
    BY <1>1, <1>2, <1>3

LEMMA IterateRealContent ==
  ASSUME "former" \notin Kinds, ReadDirInvariant, ListingInv, NEW f \in Fds, IterateReal(f),
         ~mixed'
  PROVE  ListingInv'
  <1>1. PICK a : a = AtStart(f)
    OBVIOUS
  <1>2. fd[f].open /\ a.fd[f].isReal /\ changes' = changes
    BY <1>1 DEF IterateReal
  <1>3. PICK s : /\ s = IF IsImpureDir(f) THEN CacheGetImpure(a) ELSE a
                 /\ RealCall(s, f)
    BY <1>1, Zenon DEF IterateReal, RealCall, RealLayer, Ahead, RealIno, InoFrom
  <1>4. RealFile(s, f)
    <2>1. ImpureUsed(f)
      BY Zenon DEF IterateReal
    <2>2. IsImpureDir(f) => ~Merge
      BY <2>1, NotMixed
    <2> QED
      BY <1>1, <1>2, <1>3, <2>2, RealStart
  <1>5. DirInv /\ ContentInv /\ listing = [g \in Fds |-> listing[g]]
    BY DEF ReadDirInvariant, ListingInv
  <1>6. PICK l, layer, pos : l = listing[f] /\ layer = RealLayer(fd[f]) /\ pos = fd[f].pos
    OBVIOUS
  <1>7. pos \in Nat
    BY <1>4, <1>6 DEF RealFile
  <1>8. PICK t, m, p : /\ RealTo(t, m, p, s, f, l, layer, pos)
                       /\ Becomes(t) /\ listing' = [listing EXCEPT ![f] = m]
    BY <1>3, <1>5, <1>6, <1>7, RealCallDoes
  <1>9. /\ CacheInv(s) /\ Rest(s, f) /\ s.fd[f].pos = pos
        /\ s.fd[f].open /\ s.fd[f].isReal /\ s.fd[f].isUpper = fd[f].isUpper
        /\ s.fd[f].cache = None
        /\ ~s.impure => \A n \in Names : ~HasOrigin(dir.upper[n])
        /\ ~fd[f].isUpper => dir.kind = "lower" /\ Len(Lower) = 1
        /\ pos = 0 => ~dir.whiteouts
    BY <1>4, <1>6 DEF RealFile
  <1>10. /\ Rest(t, f) /\ t.impure = s.impure /\ t.fd[f].open /\ t.fd[f].isReal
         /\ t.fd[f].isUpper = fd[f].isUpper /\ t.fd[f].cache = None /\ t.fd[f].pos = p
    <2>1. CASE t = [s EXCEPT !.fd[f].pos = p]
      <3>1. MovedTo(s, t, f, p)
        BY <1>9, <2>1, MovedFile
      <3> QED
        BY <1>9, <3>1 DEF MovedTo
    <2>2. CASE t = s /\ p = pos
      BY <1>9, <2>2
    <2> QED
      BY <1>8, <2>1, <2>2 DEF RealTo
  <1>11. RealLayer(t.fd[f]) = layer
    BY <1>6, <1>10 DEF RealLayer
  <1>12. ListingOk(Now, f, l)
    BY <1>6 DEF ListingInv
  <1>13. p \in Nat
    <2>1. \A next \in Ahead(layer, pos) : next + 1 \in Nat
      BY NameAt DEF Ahead
    <2>2. 1 \in Nat
      OBVIOUS
    <2> QED
      BY <1>7, <1>8, <2>1, <2>2, Zenon DEF RealTo
  <1>14. ListingOk(t, f, m)
    <2>0. /\ ~m.on => m = NoListing
          /\ m.on => DOMAIN m = ListingFields /\ p > 0
      BY <1>7, <1>8, <1>12, RealFields
    <2>a. CASE Astray(t.fd[f])
      BY <1>10, <2>0, <2>a, Zenon DEF ListingOk
    <2>n. ~Astray(t.fd[f]) => (fd[f].isUpper => ~Merge)
      BY <1>10 DEF Astray
    <2>1. CASE pos = 0 /\ ~Astray(t.fd[f])
      <3>1. p = 1 /\ m = FreshListing
        BY <1>8, <2>1 DEF RealTo
      <3>2. /\ Visible(Layers) = Objects(layer)
            /\ \A n \in Names : StIno(Layers, n) = layer[n].st
        BY <1>4, <1>5, <1>6, <1>9, <2>1, <2>n, RealNames
      <3>3. RealListing(m, layer, p)
        BY <3>1, <3>2, RealFresh
      <3>4. /\ DOMAIN m = ListingFields /\ m.on /\ ~m.twice /\ ~m.badIno
            /\ m.keep = Visible(Layers) /\ m.may = Visible(Layers) /\ m.same = Visible(Layers)
        BY <3>1, ListingRecords
      <3>5. LowerFits(m, t.fd[f])
        <4>1. m.same \subseteq Names
          BY <3>4 DEF Visible
        <4> QED
          BY <1>10, <1>11, <3>2, <4>1 DEF LowerFits, RealLayer
      <3>6. t.fd[f].pos > 0
        BY <1>10, <3>1
      <3> QED
        BY <1>10, <1>11, <3>3, <3>4, <3>5, <3>6, Zenon DEF ListingOk
    <2>2. CASE pos > 0 /\ ~l.on
      <3>1. m = l
        <4>1. Ended(l) = l /\ \A n, ino, early : Emitted(l, n, ino, early) = l
          BY <2>2, OffStays
        <4>2. pos # 0
          BY <2>2
        <4> QED
          BY <1>8, <4>1, <4>2 DEF RealTo
      <3> QED
        BY <1>12, <2>2, <3>1, Zenon DEF ListingOk
    <2>3. CASE pos > 0 /\ l.on /\ ~Astray(t.fd[f])
      <3>1. /\ DOMAIN m = ListingFields /\ m.on /\ ~m.twice /\ ~m.badIno
            /\ m.keep = l.keep /\ m.may = l.may /\ m.same = l.same
            /\ RealListing(m, layer, p) /\ p \in Nat /\ p > 0
        <4>1. KeptReal(m, l, layer, p)
          BY <1>4, <1>5, <1>6, <1>8, <1>12, <2>3, <2>n, RealKept
        <4> QED
          BY <4>1 DEF KeptReal
      <3>2. /\ l.keep \subseteq Visible(Layers) /\ Visible(Layers) \subseteq l.may
            /\ l.same \subseteq Visible(Layers)
        BY <1>12, <2>3, <2>n, NowFields DEF ListingOk, Astray
      <3>3. LowerFits(l, fd[f])
        <4>1. fd[f].isReal
          BY <1>4, <1>6, <2>3 DEF RealFile
        <4> QED
          BY <1>12, <2>3, <2>n, <4>1, NowFields DEF ListingOk, Astray
      <3>4. LowerFits(m, t.fd[f])
        BY <1>10, <3>1, <3>3, Zenon DEF LowerFits
      <3>5. t.fd[f].pos > 0
        BY <1>10, <3>1
      <3> QED
        BY <1>10, <1>11, <3>1, <3>2, <3>4, <3>5, Zenon DEF ListingOk
    <2> QED
      BY <1>7, <2>a, <2>1, <2>2, <2>3
  <1>15. FileOk(t, f)
    BY <1>9, <1>10, <1>13, Zenon DEF FileOk
  <1>16. ~t.impure => \A n \in Names : ~HasOrigin(dir.upper[n])
    BY <1>9, <1>10
  <1> QED
    BY <1>2, <1>5, <1>8, <1>10, <1>14, <1>15, <1>16, BecomesContent

-----------------------------------------------------------------------------
(* The other calls on an open directory. *)

LEMMA Unlisted ==
  ASSUME NEW t, NEW f
  PROVE  ListingOk(t, f, NoListing)
  BY ListingRecords DEF ListingOk

\* A listing that is on has a position.
LEMMA OnMoved ==
  ASSUME ListingInv, NEW f \in Fds, listing[f].on
  PROVE  fd[f].open /\ fd[f].pos > 0
  BY NowFields DEF ListingInv, ListingOk

\* Each call keeps the invariant.
LEMMA ReadFailsContent ==
  ASSUME ReadDirInvariant, ListingInv, NEW f \in Fds, ReadFails(f), ~mixed'
  PROVE  ListingInv'
  <1>1. PICK s : s = AtStart(f)
    OBVIOUS
  <1>2. CacheInv(s) /\ s.fd[f].open = fd[f].open /\ s.fd[f].isUpper = fd[f].isUpper
    BY <1>1, StartStep
  <1>3. /\ fd[f].open /\ changes' = changes /\ listing' = listing
        /\ IF s.fd[f].isReal THEN IsImpureDir(f) ELSE s.fd[f].cache = None
        /\ Becomes(IF s.fd[f].isReal THEN ImpureFreed(s) ELSE [s EXCEPT !.oi = None])
        /\ s.fd[f].isReal => ImpureUsed(f)
    BY <1>1, Zenon DEF ReadFails
  <1>4. /\ Rest(s, f) /\ FileOk(s, f) /\ s.impure = dir.impure
        /\ fd[f].pos # 0 => s = Now
    BY <1>1, StartContent
  <1>5. PICK t : t = IF s.fd[f].isReal THEN ImpureFreed(s) ELSE [s EXCEPT !.oi = None]
    OBVIOUS
  <1>6. t.fd = s.fd /\ t.impure = s.impure /\ Rest(t, f) /\ FileOk(t, f)
    <2>1. CASE s.fd[f].isReal
      <3>1. ~dir.whiteouts
        <4>1. ~Merge
          BY <2>1, <1>3, NotMixed
        <4> QED
          BY <4>1 DEF ListingInv, ContentInv
      <3>2. \A g \in Fds : s.fd[g].cache = None
        BY <3>1, <1>2, NoReaders
      <3>3. t = ImpureFreed(s)
        BY <1>5, <2>1
      <3>4. t.fd = s.fd /\ t.impure = s.impure
        BY <3>2, <3>3, <1>2, FreedStep
      <3>5. Rest(t, f) /\ FileOk(t, f)
        BY <3>2, <3>3, <1>2, <1>4, FreedContent
      <3> QED
        BY <3>4, <3>5
    <2>2. CASE ~s.fd[f].isReal
      <3>1. t = [s EXCEPT !.oi = None]
        BY <1>5, <2>2
      <3>2. DOMAIN s = {"oi", "heap", "fd", "impure"}
        BY <1>2 DEF CacheInv, Shape
      <3>3. t.fd = s.fd /\ t.impure = s.impure /\ t.heap = s.heap
        BY <3>1, <3>2
      <3>4. Carried(s, t, f)
        BY <1>2, <3>3, OwnFile
      <3>5. Rest(t, f)
        BY <1>4, <3>4, CarriedRest
      <3>6. FileOk(t, f)
        BY <1>4, <3>3, Zenon DEF FileOk
      <3> QED
        BY <3>3, <3>5, <3>6
    <2> QED
      BY <2>1, <2>2
  <1>7. PICK l : l = listing[f]
    OBVIOUS
  <1>8. ListingOk(Now, f, l)
    BY <1>7 DEF ListingInv
  <1>9. ListingOk(t, f, l)
    <2>1. CASE ~l.on
      BY <1>8, <2>1, Zenon DEF ListingOk
    <2>2. CASE l.on
      <3>1. fd[f].pos # 0
        BY <1>7, <2>2, OnMoved
      <3>2. s = Now /\ t.fd[f] = s.fd[f]
        BY <1>4, <1>6, <3>1
      <3>3. s.fd[f].isReal
        BY <1>3, <1>8, <2>2, <3>2, Zenon DEF ListingOk, Astray
      <3> QED
        BY <1>8, <2>2, <3>2, <3>3, Zenon DEF ListingOk
    <2> QED
      BY <2>1, <2>2
  <1>10. /\ DirInv /\ ContentInv /\ listing = [g \in Fds |-> listing[g]]
         /\ ~t.impure => \A n \in Names : ~HasOrigin(dir.upper[n])
    BY <1>4, <1>6 DEF ReadDirInvariant, ListingInv, ContentInv
  <1>11. listing' = [listing EXCEPT ![f] = l]
    BY <1>3, <1>7, <1>10
  <1>12. Becomes(t)
    BY <1>3, <1>5
  <1> QED
    BY <1>3, <1>6, <1>9, <1>10, <1>11, <1>12, BecomesContent

LEMMA LlseekContent ==
  ASSUME ReadDirInvariant, ListingInv, NEW f \in Fds, NEW off \in SeekTo, Llseek(f, off)
  PROVE  ListingInv'
  <1>1. PICK s : s = AtStart(f)
    OBVIOUS
  <1>2. CacheInv(s) /\ s.fd[f].open = fd[f].open /\ s.fd[f].isUpper = fd[f].isUpper
    BY <1>1, StartStep
  <1>3. /\ Rest(s, f) /\ FileOk(s, f) /\ s.impure = dir.impure
    BY <1>1, StartContent
  <1>4. PICK c : c = s.fd[f].cache
    OBVIOUS
  <1>5. PICK k : k = IF s.fd[f].isReal \/ c = None THEN s.fd[f].cursor
                     ELSE SeekCursor(s.heap[c].entries, off)
    OBVIOUS
  <1>6. PICK x : x = [s.fd[f] EXCEPT !.pos = off, !.cursor = k]
    OBVIOUS
  <1>7. PICK t : t = [s EXCEPT !.fd[f] = x]
    OBVIOUS
  <1>8. /\ DOMAIN s = {"oi", "heap", "fd", "impure"} /\ s.fd = [g \in Fds |-> s.fd[g]]
        /\ DOMAIN s.fd[f] = {"open", "isReal", "isUpper", "cache", "cursor", "pos"}
    BY <1>2 DEF CacheInv, Shape
  <1>9. /\ changes' = changes /\ listing' = [listing EXCEPT ![f] = NoListing]
        /\ Becomes([s EXCEPT !.fd[f].pos = off,
                             !.fd[f].cursor = IF s.fd[f].isReal \/ s.fd[f].cache = None THEN @
                                              ELSE SeekCursor(s.heap[s.fd[f].cache].entries, off)])
    BY <1>1, Zenon DEF Llseek
  <1>10. Becomes(t)
    <2>1. t = [s EXCEPT !.fd[f].pos = off,
                        !.fd[f].cursor = IF s.fd[f].isReal \/ s.fd[f].cache = None THEN @
                                         ELSE SeekCursor(s.heap[s.fd[f].cache].entries, off)]
      BY <1>4, <1>5, <1>6, <1>7, <1>8
    <2> QED
      BY <1>9, <2>1
  <1>11. /\ x.open = s.fd[f].open /\ x.isReal = s.fd[f].isReal /\ x.isUpper = s.fd[f].isUpper
         /\ x.cache = s.fd[f].cache /\ x.cursor = k /\ x.pos = off
    BY <1>6, <1>8
  <1>12. t.heap = s.heap /\ t.impure = s.impure /\ t.fd = [s.fd EXCEPT ![f] = x]
    BY <1>7, <1>8
  <1>13. t.fd[f] = x /\ \A g \in Fds \ {f} : t.fd[g] = s.fd[g]
    BY <1>8, <1>12
  <1>14. Rest(t, f)
    <2>1. Carried(s, t, f)
      BY <1>2, <1>12, <1>13, OwnFile
    <2> QED
      BY <1>3, <2>1, CarriedRest
  <1>15. FileOk(t, f)
    <2>1. off \in Nat
      BY ReadDirAssumption
    <2>2. s.fd[f].cache # None => ~s.fd[f].isReal
      BY <1>2 DEF CacheInv, FilesOk
    <2>3. s.fd[f].cache # None => k = SeekCursor(s.heap[s.fd[f].cache].entries, off)
      BY <1>4, <1>5, <2>2
    <2> QED
      BY <1>3, <1>11, <1>12, <1>13, <2>1, <2>3, Zenon DEF FileOk
  <1>16. /\ DirInv /\ ContentInv /\ listing = [g \in Fds |-> listing[g]]
         /\ ~t.impure => \A n \in Names : ~HasOrigin(dir.upper[n])
    BY <1>3, <1>12 DEF ReadDirInvariant, ListingInv, ContentInv
  <1>17. PICK l : l = NoListing
    OBVIOUS
  <1>18. ListingOk(t, f, l) /\ listing' = [listing EXCEPT ![f] = l]
    BY <1>9, <1>17, Unlisted
  <1> QED
    BY <1>9, <1>10, <1>14, <1>15, <1>16, <1>18, BecomesContent

LEMMA ReleaseContent ==
  ASSUME ReadDirInvariant, ListingInv, NEW f \in Fds, Release(f)
  PROVE  ListingInv'
  <1>1. PICK n : n = Now
    OBVIOUS
  <1>2. CacheInv(n) /\ n.fd = fd /\ n.impure = dir.impure
    BY <1>1, NowInv
  <1>3. PICK s : /\ s = IF fd[f].cache = None THEN n ELSE CachePut(n, f)
                 /\ Becomes([s EXCEPT !.fd[f] = Closed])
    BY <1>1, Zenon DEF Release
  <1>4. Rest(n, f)
    BY <1>1 DEF ListingInv, Rest
  <1>5. CacheInv(s) /\ s.impure = dir.impure /\ Rest(s, f)
    <2>1. CASE fd[f].cache = None
      BY <2>1, <1>2, <1>3, <1>4
    <2>2. CASE fd[f].cache # None
      <3>1. s = CachePut(n, f) /\ n.fd[f].cache # None
        BY <2>2, <1>2, <1>3
      <3>2. CacheInv(s) /\ s.impure = n.impure
        BY <3>1, <1>2, PutStep
      <3>3. Carried(n, s, f)
        BY <3>1, <1>2, PutContent
      <3> QED
        BY <1>2, <1>4, <3>2, <3>3, CarriedRest
    <2> QED
      BY <2>1, <2>2
  <1>6. PICK t : t = [s EXCEPT !.fd[f] = Closed]
    OBVIOUS
  <1>7. DOMAIN s = {"oi", "heap", "fd", "impure"} /\ s.fd = [g \in Fds |-> s.fd[g]]
    BY <1>5 DEF CacheInv, Shape
  <1>8. t.heap = s.heap /\ t.impure = s.impure /\ t.fd = [s.fd EXCEPT ![f] = Closed]
    BY <1>6, <1>7
  <1>9. t.fd[f] = Closed /\ \A g \in Fds \ {f} : t.fd[g] = s.fd[g]
    BY <1>7, <1>8
  <1>10. Rest(t, f)
    <2>1. Carried(s, t, f)
      BY <1>5, <1>8, <1>9, OwnFile
    <2> QED
      BY <1>5, <2>1, CarriedRest
  <1>11. FileOk(t, f)
    <2>1. ~t.fd[f].open /\ t.fd[f].pos = 0 /\ t.fd[f].cache = None
      BY <1>9 DEF Closed
    <2> QED
      BY <2>1 DEF FileOk
  <1>12. /\ DirInv /\ ContentInv /\ listing = [g \in Fds |-> listing[g]]
         /\ ~t.impure => \A k \in Names : ~HasOrigin(dir.upper[k])
    BY <1>5, <1>8 DEF ReadDirInvariant, ListingInv, ContentInv
  <1>13. PICK l : l = NoListing
    OBVIOUS
  <1>14. /\ ListingOk(t, f, l) /\ listing' = [listing EXCEPT ![f] = l]
         /\ changes' = changes
    BY <1>13, Unlisted DEF Release
  <1>15. Becomes(t)
    BY <1>3, <1>6
  <1> QED
    BY <1>10, <1>11, <1>12, <1>14, <1>15, BecomesContent

LEMMA OpenContent ==
  ASSUME ReadDirInvariant, ListingInv, NEW f \in Fds, Open(f)
  PROVE  ListingInv'
  <1>1. PICK s : s = Now
    OBVIOUS
  <1>2. /\ CacheInv(s) /\ s.fd = fd /\ s.oi = oiCache /\ s.heap = heap
        /\ s.impure = dir.impure /\ DirInv /\ ContentInv /\ s.fd = [g \in Fds |-> s.fd[g]]
        /\ listing = [g \in Fds |-> listing[g]]
    BY <1>1, NowInv DEF ListingInv, CacheInv, Shape
  <1>3. PICK x : x = [Closed EXCEPT !.open = TRUE, !.isReal = ~dir.whiteouts,
                                    !.isUpper = dir.hasUpper]
    OBVIOUS
  <1>4. /\ ~fd[f].open /\ fd' = [fd EXCEPT ![f] = x] /\ changes' = changes
        /\ dir' = dir /\ oiCache' = oiCache /\ heap' = heap /\ listing' = listing
    BY <1>3 DEF Open
  <1>5. /\ x.isReal = ~dir.whiteouts /\ x.isUpper = dir.hasUpper /\ x.cache = None /\ x.pos = 0
    BY <1>3 DEF Closed
  <1>6. PICK t : t = [oi |-> oiCache, heap |-> heap, fd |-> fd', impure |-> dir.impure]
    OBVIOUS
  <1>7. t.oi = oiCache /\ t.heap = heap /\ t.fd = fd' /\ t.impure = dir.impure
    BY <1>6
  <1>8. t.fd[f] = x /\ \A g \in Fds \ {f} : t.fd[g] = s.fd[g]
    BY <1>2, <1>4, <1>7
  <1>9. SameDir /\ dir'.impure = t.impure
    BY <1>4, <1>7 DEF SameDir, SameView
  <1>10. Rest(t, f)
    <2>1. Rest(s, f)
      BY <1>1 DEF ListingInv, Rest
    <2>2. Carried(s, t, f)
      BY <1>2, <1>7, <1>8, OwnFile
    <2> QED
      BY <2>1, <2>2, CarriedRest
  <1>11. FileOk(t, f)
    <2>1. x.isReal /\ ~x.isUpper => dir.kind = "lower" /\ Len(Lower) = 1
      <3> HAVE x.isReal /\ ~x.isUpper
      <3>1. ~dir.hasUpper /\ ~Merge /\ dir.kind = "lower" /\ dir.kind \in Kinds /\ changes \in Nat
        <4>1. /\ ~dir.hasUpper /\ ~dir.whiteouts /\ dir.kind = "lower" /\ dir.kind \in Kinds
              /\ changes \in Nat
          BY <1>2, <1>5 DEF ContentInv, DirInv
        <4>2. Merge => Len(Lower) = 1
          BY <1>2, <4>1, Zenon DEF ContentInv
        <4>3. Merge => Len(Lower) > 1
          BY <4>1 DEF Merge
        <4>4. ~(Len(Lower) = 1 /\ Len(Lower) > 1)
          <5>1. \A k : ~(k = 1 /\ k > 1)
            OBVIOUS
          <5> QED
            BY <5>1, Zenon
        <4> QED
          BY <4>1, <4>2, <4>3, <4>4, Zenon
      <3>2. Len(Lower) \in Nat /\ Lower # <<>> /\ Lower \in Seq([Names -> StartNodes])
        BY <3>1, LowerFacts
      <3>3. Len(Lower) # 0
        BY <3>2, EmptySeq
      <3> QED
        <4>1. ~(Len(Lower) > 1)
          BY <3>1 DEF Merge
        <4>2. PICK k : k = Len(Lower)
          OBVIOUS
        <4>3. k \in Nat /\ k # 0 /\ ~(k > 1)
          BY <3>2, <3>3, <4>1, <4>2
        <4>4. k = 1
          BY <4>3
        <4> QED
          BY <3>1, <4>2, <4>4
    <2> QED
      BY <1>5, <1>8, <2>1 DEF FileOk
  <1>12. PICK l : l = listing[f]
    OBVIOUS
  <1>13. ListingOk(t, f, l)
    <2>1. ~l.on
      BY <1>4, <1>12, OnMoved
    <2>2. ListingOk(s, f, l)
      BY <1>1, <1>12 DEF ListingInv
    <2> QED
      BY <2>1, <2>2, Zenon DEF ListingOk
  <1>14. listing' = [listing EXCEPT ![f] = l]
    BY <1>2, <1>4, <1>12
  <1>15. ~t.impure => \A n \in Names : ~HasOrigin(dir.upper[n])
    BY <1>2, <1>7 DEF ContentInv
  <1> QED
    BY <1>2, <1>4, <1>7, <1>9, <1>10, <1>11, <1>13, <1>14, <1>15, StepContent

LEMMA EvictContent ==
  ASSUME ReadDirInvariant, ListingInv, Evict
  PROVE  ListingInv'
  <1>1. PICK s : s = Now
    OBVIOUS
  <1>2. CacheInv(s) /\ s.fd = fd /\ DirInv /\ ContentInv /\ listing = [g \in Fds |-> listing[g]]
    BY <1>1, NowInv DEF ListingInv
  <1>3. PICK t : t = ImpureFreed(s)
    OBVIOUS
  <1>4. /\ \A f \in Fds : ~fd[f].open
        /\ heap' = t.heap /\ fd' = fd /\ listing' = listing /\ changes' = changes
        /\ dir' = [dir EXCEPT !.version = 0, !.linked = {}]
    BY <1>1, <1>3 DEF Evict
  <1>5. \A f \in Fds : s.fd[f].cache = None
    BY <1>2, <1>4 DEF CacheInv, FilesOk
  <1>6. \A c \in CacheIds : ~t.heap[c].live
    BY <1>2, <1>3, <1>5, FreedStep
  <1>7. Now'.heap = t.heap /\ Now'.fd = fd
    BY <1>4, NextFields
  <1>8. CachesOk(Now)'
    BY <1>6, <1>7 DEF CachesOk
  <1>9. /\ dir'.kind = dir.kind /\ dir'.hasUpper = dir.hasUpper /\ dir'.upper = dir.upper
        /\ dir'.whiteouts = dir.whiteouts /\ dir'.impure = dir.impure /\ dir'.linked = {}
        /\ dir'.linking = dir.linking
    BY <1>2, <1>4 DEF DirInv
  <1>10. ContentInv'
    <2>1. Lower' = Lower /\ FreshIno' = FreshIno
      BY <1>4, <1>9 DEF Lower, FreshIno
    <2>2. \A e : Node(e)' <=> Node(e)
      BY <2>1, Zenon DEF Node
    <2>3. Merge' <=> Merge
      BY <1>9, <2>1, Zenon DEF Merge
    <2>4. Layers' = Layers
      BY <1>9, <2>1 DEF Layers
    <2>5. \A n : TopNode(Layers, n)' = TopNode(Layers, n) /\ StIno(Layers, n)' = StIno(Layers, n)
      BY <2>4, Zenon DEF StIno
    <2> QED
      BY <1>2, <1>9, <2>1, <2>2, <2>3, <2>5, Zenon DEF ContentInv
  <1>11. ASSUME NEW f \in Fds PROVE FileOk(Now, f)' /\ ListingOk(Now, f, listing[f])'
    <2>1. ~Now'.fd[f].open /\ Now'.fd[f].cache = None /\ Now'.fd[f].pos \in Nat
      BY <1>2, <1>4, <1>5, <1>7, NowFields DEF ListingInv, FileOk
    <2>2. listing'[f] = NoListing
      <3>1. ~listing[f].on
        BY <1>4, OnMoved
      <3> QED
        BY <1>4, <3>1 DEF ListingInv, ListingOk
    <2>3. FileOk(Now, f)'
      BY <2>1, Zenon DEF FileOk
    <2>4. ListingOk(Now, f, listing[f])'
      BY <2>2, ListingRecords DEF ListingOk
    <2> QED
      BY <2>3, <2>4
  <1>12. listing' = [f \in Fds |-> listing'[f]]
    BY <1>2, <1>4
  <1> QED
    BY <1>8, <1>10, <1>11, <1>12, Zenon DEF ListingInv

-----------------------------------------------------------------------------
(* The changes. *)

\* The upper directory hides the lower ones name by name.
OnTop(upper, low, n) == IF upper[n].kind # "no" THEN upper[n] ELSE TopNode(low, n)

LEMMA TopStack ==
  ASSUME NEW upper, NEW low, NEW X, low \in Seq(X), NEW layers, layers = <<upper>> \o low,
         NEW n
  PROVE  TopNode(layers, n) = OnTop(upper, low, n)
  <1>0. /\ DOMAIN layers = 1 .. Len(low) + 1 /\ layers[1] = upper
        /\ \A i \in 1 .. Len(low) : layers[i + 1] = low[i]
    BY StackFacts
  <1>1. Len(low) \in Nat /\ DOMAIN low = 1 .. Len(low)
    OBVIOUS
  <1>2. DOMAIN layers \subseteq Nat /\ DOMAIN low \subseteq Nat
    BY <1>0, <1>1
  <1>3. CASE upper[n].kind # "no"
    <2>1. First(layers, n, 1)
      BY <1>0, <1>1, <1>3 DEF First
    <2>2. TopNode(layers, n) = layers[1][n]
      BY <1>2, <2>1, TopFirst
    <2> QED
      BY <1>0, <1>3, <2>2 DEF OnTop
  <1>4. CASE upper[n].kind = "no"
    <2>1. ASSUME NEW j, First(low, n, j) PROVE TopNode(layers, n) = TopNode(low, n)
      <3>1. j \in 1 .. Len(low) /\ low[j][n].kind # "no" /\ j \in Nat
            /\ \A m \in DOMAIN low : m < j => low[m][n].kind = "no"
        BY <1>1, <2>1 DEF First
      <3>2. j + 1 \in DOMAIN layers /\ layers[j + 1] = low[j]
        BY <1>0, <1>1, <3>1
      <3>3. ASSUME NEW m \in DOMAIN layers, m < j + 1 PROVE layers[m][n].kind = "no"
        <4>1. CASE m = 1
          BY <1>0, <1>4, <4>1
        <4>2. CASE m # 1
          <5>1. m - 1 \in 1 .. Len(low) /\ (m - 1) + 1 = m /\ m - 1 < j
            BY <1>0, <1>1, <3>1, <3>3, <4>2
          <5>2. layers[m] = low[m - 1]
            BY <1>0, <5>1
          <5> QED
            BY <1>1, <3>1, <5>1, <5>2
        <4> QED
          BY <4>1, <4>2
      <3>4. First(layers, n, j + 1)
        BY <3>1, <3>2, <3>3 DEF First
      <3>5. TopNode(layers, n) = layers[j + 1][n]
        BY <1>2, <3>4, TopFirst
      <3>6. TopNode(low, n) = low[j][n]
        BY <1>2, <2>1, TopFirst
      <3> QED
        BY <3>2, <3>5, <3>6
    <2>2. ASSUME TopNode(low, n) = Gone, \A i \in DOMAIN low : low[i][n].kind = "no"
          PROVE  TopNode(layers, n) = TopNode(low, n)
      <3>1. ASSUME NEW m \in DOMAIN layers PROVE layers[m][n].kind = "no"
        <4>1. CASE m = 1
          BY <1>0, <1>4, <4>1
        <4>2. CASE m # 1
          <5>1. m - 1 \in 1 .. Len(low) /\ (m - 1) + 1 = m
            BY <1>0, <1>1, <4>2
          <5>2. layers[m] = low[m - 1]
            BY <1>0, <5>1
          <5> QED
            BY <1>1, <2>2, <5>1, <5>2
        <4> QED
          BY <4>1, <4>2
      <3>2. ~\E j : First(layers, n, j)
        BY <3>1 DEF First
      <3> QED
        BY <1>2, <2>2, <3>2, TopCases
    <2>3. TopNode(layers, n) = TopNode(low, n)
      BY <1>2, <2>1, <2>2, TopCases
    <2> QED
      BY <1>4, <2>3 DEF OnTop
  <1> QED
    BY <1>3, <1>4

\* A step after which every name shows as before.
LEMMA ViewCaches ==
  ASSUME \A n \in Names : TopNode(Layers, n)' = TopNode(Layers, n),
         dir'.upper = dir.upper, dir'.version = dir.version, dir'.linked = dir.linked,
         NEW cache, CacheOk(cache)
  PROVE  CacheOk(cache)'
  <1>1. PICK es : es = cache.entries
    OBVIOUS
  <1>2. es \in Seq(EntryType)
    BY <1>1 DEF CacheOk
  <1>3. \A k \in DOMAIN es : InoFits(es[k])' <=> InoFits(es[k])
    <2> TAKE k \in DOMAIN es
    <2>0. es[k] \in EntryType
      BY <1>2
    <2>1. es[k].name \in Names
      BY <2>0 DEF EntryType
    <2>2. TopNode(Layers, es[k].name)' = TopNode(Layers, es[k].name)
      BY <2>1
    <2> QED
      BY <2>2, Zenon DEF InoFits, StIno
  <1>4. Visible(Layers)' = Visible(Layers)
    BY DEF Visible
  <1>5. MergedValid(es) => MergedValid(es)'
    BY <1>3, <1>4, Zenon DEF MergedValid, InosFit
  <1>6. ImpureValid(es) => ImpureValid(es)'
    BY Zenon DEF ImpureValid
  <1>7. Valid(cache) => Valid(cache)'
    BY <1>1, <1>5, <1>6, Zenon DEF Valid
  <1> QED
    BY <1>7, Zenon DEF CacheOk

\* Nodes stay nodes when the numbers in use grow.
LEMMA NodeStays ==
  ASSUME changes \in Nat, changes' = changes + 1, NEW e, Node(e)
  PROVE  Node(e)'
  <1>1. CASE e \in {Gone, Wh}
    BY <1>1 DEF Node
  <1>2. CASE /\ e = Obj(e.real, e.st)
             /\ e.real \in 1 .. FreshIno - 1 /\ e.st \in 1 .. FreshIno - 1
    <2>1. FreshIno \in Nat /\ FreshIno' \in Nat /\ FreshIno <= FreshIno'
      BY InoAssumption DEF FreshIno
    <2>2. e.real \in 1 .. FreshIno' - 1 /\ e.st \in 1 .. FreshIno' - 1
      BY <1>2, <2>1
    <2> QED
      BY <1>2, <2>2 DEF Node
  <1> QED
    BY <1>1, <1>2 DEF Node

LEMMA CopyUpDirContent ==
  ASSUME ReadDirInvariant, ListingInv, CopyUpDir
  PROVE  ListingInv'
  <1>0. /\ DirInv /\ ContentInv /\ CacheInv(Now) /\ CachesOk(Now)
        /\ listing = [f \in Fds |-> listing[f]]
    BY DEF ReadDirInvariant, ListingInv
  <1>1. /\ ~dir.hasUpper /\ dir' = [dir EXCEPT !.hasUpper = TRUE]
        /\ changes' = changes + 1 /\ changes \in Nat /\ dir.kind \in Kinds
        /\ heap' = heap /\ fd' = fd /\ listing' = listing
    BY <1>0 DEF CopyUpDir, DirInv, ContentInv
  <1>2. /\ dir'.kind = dir.kind /\ dir'.hasUpper = TRUE /\ dir'.upper = dir.upper
        /\ dir'.whiteouts = dir.whiteouts /\ dir'.impure = dir.impure /\ dir'.version = dir.version
        /\ dir'.linked = dir.linked
    BY <1>0, <1>1 DEF DirInv
  <1>3. dir.kind = "lower" /\ \A n \in Names : dir.upper[n] = Gone
    BY <1>0, <1>1 DEF ContentInv
  <1>4. Lower' = Lower /\ Lower \in Seq([Names -> StartNodes]) /\ Lower # <<>>
    <2>1. Lower' = Lower
      BY <1>2 DEF Lower
    <2> QED
      BY <1>1, <1>3, <2>1, LowerFacts
  <1>5. Layers = Lower /\ Layers' = <<dir.upper>> \o Lower
    <2>1. Layers = Lower
      BY <1>0, <1>1, LayersFacts DEF LayersStacked, DirInv
    <2>2. Layers' = <<dir.upper>> \o Lower
      BY <1>2, <1>4 DEF Layers
    <2> QED
      BY <2>1, <2>2
  <1>6. ASSUME NEW n \in Names PROVE TopNode(Layers, n)' = TopNode(Layers, n)
    <2>1. PICK up, low, lay : up = dir.upper /\ low = Lower /\ lay = Layers'
      OBVIOUS
    <2>x. PICK X : X = [Names -> StartNodes]
      OBVIOUS
    <2>y. low \in Seq(X) /\ lay = <<up>> \o low
      BY <1>4, <1>5, <2>1, <2>x
    <2>2. TopNode(lay, n) = OnTop(up, low, n)
      BY <2>y, TopStack
    <2>3. up[n].kind = "no"
      BY <1>3, <2>1 DEF Gone
    <2> QED
      BY <1>5, <2>1, <2>2, <2>3 DEF OnTop
  <1>7. Visible(Layers)' = Visible(Layers)
    BY <1>6 DEF Visible
  <1>8. Now'.heap = heap /\ Now'.fd = fd /\ Now.heap = heap /\ Now.fd = fd
    BY <1>1, NowFields, NextFields
  <1>9. CachesOk(Now)'
    <2>1. ASSUME NEW c \in CacheIds, heap[c].live PROVE CacheOk(heap[c])'
      <3>1. PICK cache : cache = heap[c]
        OBVIOUS
      <3>2. CacheOk(cache)
        BY <1>0, <1>8, <2>1, <3>1 DEF CachesOk
      <3>3. CacheOk(cache)'
        BY <1>2, <1>6, <3>2, ViewCaches
      <3> QED
        BY <1>1, <3>1, <3>3
    <2> QED
      BY <1>1, <1>8, <2>1, Zenon DEF CachesOk
  <1>10. ContentInv'
    <2>1. \A n \in Names : Node(dir.upper[n])'
      <3> TAKE n \in Names
      <3>1. PICK e : e = dir.upper[n]
        OBVIOUS
      <3>2. Node(e)'
        BY <1>0, <1>1, <3>1, NodeStays DEF ContentInv
      <3> QED
        BY <1>2, <3>1, <3>2
    <2>2. Merge'
      BY <1>2, <1>4 DEF Merge
    <2>3. dir.linked = {}
      BY <1>0, <1>1 DEF ContentInv
    <2>4. dir.kind # "upper"
      BY <1>3
    <2>5. dir.whiteouts \/ Len(Lower) = 1
      <3>1. Len(Lower) \in Nat /\ Len(Lower) # 0
        BY <1>4
      <3>2. CASE Len(Lower) > 1
        BY <1>0, <3>2 DEF ContentInv, Merge
      <3>3. PICK k : k = Len(Lower)
        OBVIOUS
      <3>4. k = 1 \/ k > 1
        BY <3>1, <3>3
      <3> QED
        BY <3>2, <3>3, <3>4
    <2>6. ASSUME dir.kind = "lower" /\ Len(Lower) = 1 /\ ~dir.whiteouts, NEW n \in Names
          PROVE  TopNode(Layers, n)'.kind = Lower[1][n].kind /\ StIno(Layers, n)' = Lower[1][n].st
      <3>1. TopNode(Layers, n).kind = Lower[1][n].kind /\ StIno(Layers, n) = Lower[1][n].st
        BY <1>0, <2>6, Zenon DEF ContentInv
      <3>2. StIno(Layers, n)' = StIno(Layers, n)
        BY <1>6, Zenon DEF StIno
      <3> QED
        BY <1>6, <3>1, <3>2
    <2> QED
      BY <1>0, <1>2, <1>3, <1>4, <2>1, <2>2, <2>3, <2>4, <2>5, <2>6, Zenon DEF ContentInv
  <1>11. ASSUME NEW f \in Fds PROVE FileOk(Now, f)' /\ ListingOk(Now, f, listing[f])'
    <2>0. PICK l : l = listing[f]
      OBVIOUS
    <2>1. FileOk(Now, f) /\ ListingOk(Now, f, l)
      BY <2>0 DEF ListingInv
    <2>2. FileOk(Now, f)'
      BY <1>2, <1>4, <1>8, <2>1, Zenon DEF FileOk
    <2>3. CASE ~l.on
      BY <1>1, <2>0, <2>1, <2>2, <2>3, Zenon DEF ListingOk
    <2>4. CASE l.on
      <3>0. ~Astray(fd[f])
        BY <1>0, <1>1, <1>8 DEF Astray, CacheInv, FilesOk
      <3>1. /\ DOMAIN l = ListingFields /\ ~l.twice /\ ~l.badIno
            /\ fd[f].open /\ fd[f].pos > 0
            /\ l.keep \subseteq Visible(Layers) /\ Visible(Layers) \subseteq l.may
            /\ l.same \subseteq Visible(Layers)
        BY <1>8, <2>1, <2>4, <3>0 DEF ListingOk
      <3>2. RealLayer(fd[f])' = RealLayer(fd[f])
        BY <1>1, <1>2, <1>4, Zenon DEF RealLayer
      <3>3. l.same \subseteq Names
        BY <3>1 DEF Visible
      <3>4. CASE fd[f].isReal
        <4>1. RealListing(l, RealLayer(fd[f]), fd[f].pos) /\ LowerFits(l, fd[f])
          BY <1>8, <2>1, <2>4, <3>0, <3>4 DEF ListingOk
        <4>2. LowerFits(l, fd[f])'
          BY <1>1, <1>4, <1>6, <3>3, <4>1 DEF LowerFits, StIno
        <4> QED
          BY <1>1, <1>7, <1>8, <2>0, <2>2, <2>4, <3>1, <3>2, <3>4, <4>1, <4>2, Zenon
             DEF ListingOk, RealListing
      <3>5. CASE ~fd[f].isReal
        <4>1. PICK es : es = heap[fd[f].cache].entries
          OBVIOUS
        <4>2. fd[f].cache # None /\ MergedListing(l, es, fd[f].cursor)
          BY <1>8, <2>1, <2>4, <3>0, <3>5, <4>1 DEF ListingOk
        <4>3. es \in Seq(EntryType)
          <5>1. fd[f].cache \in CacheIds /\ heap[fd[f].cache].live
            BY <1>0, <1>8, <4>2 DEF CacheInv, Shape, HeapOk
          <5> QED
            BY <1>0, <1>8, <4>1, <5>1 DEF CachesOk, CacheOk
        <4>4. InosFit(es, l.same)'
          <5>1. \A k \in DOMAIN es : InoFits(es[k])' <=> InoFits(es[k])
            <6> TAKE k \in DOMAIN es
            <6>0. es[k] \in EntryType
              BY <4>3
            <6>1. es[k].name \in Names
              BY <6>0 DEF EntryType
            <6>2. TopNode(Layers, es[k].name)' = TopNode(Layers, es[k].name)
              BY <1>6, <6>1
            <6> QED
              BY <6>2, Zenon DEF InoFits, StIno
          <5>2. InosFit(es, l.same)
            BY <4>2 DEF MergedListing
          <5> QED
            BY <5>1, <5>2, Zenon DEF InosFit
        <4>5. MergedListing(l, es, fd[f].cursor)'
          BY <1>1, <4>2, <4>4, Zenon DEF MergedListing
        <4> QED
          BY <1>1, <1>7, <1>8, <2>0, <2>2, <2>4, <3>1, <3>5, <4>1, <4>2, <4>5, Zenon
             DEF ListingOk
      <3> QED
        BY <3>4, <3>5
    <2> QED
      BY <2>2, <2>3, <2>4
  <1>12. listing' = [f \in Fds |-> listing'[f]]
    BY <1>0, <1>1
  <1> QED
    BY <1>9, <1>10, <1>11, <1>12, Zenon DEF ListingInv

After(m, l, layers) ==
  /\ DOMAIN m = ListingFields /\ m.on = l.on /\ m.got = l.got /\ m.twice = l.twice
  /\ m.badIno = l.badIno /\ m.eof = l.eof
  /\ m.keep = l.keep \cap Visible(layers) /\ m.may = l.may \cup Visible(layers)
  /\ m.same = {n \in l.same : StIno(layers, n) = StIno(Layers, n)}

\* A change narrows what a listing owes and widens what it may have.
LEMMA AfterFields ==
  ASSUME NEW l, l.on, DOMAIN l = ListingFields, NEW layers, NEW m, m = AfterChange(l, layers)
  PROVE  After(m, l, layers)
  <1>1. PICK a, b, c : /\ a = l.keep \cap Visible(layers) /\ b = l.may \cup Visible(layers)
                       /\ c = {n \in l.same : StIno(layers, n) = StIno(Layers, n)}
    OBVIOUS
  <1>2. m = [l EXCEPT !.keep = a, !.may = b, !.same = c]
    BY <1>1 DEF AfterChange, ListingFields
  <1>3. /\ DOMAIN m = ListingFields /\ m.on = l.on /\ m.got = l.got /\ m.twice = l.twice
        /\ m.badIno = l.badIno /\ m.eof = l.eof /\ m.keep = a /\ m.may = b /\ m.same = c
    BY <1>2 DEF ListingFields
  <1> QED
    BY <1>1, <1>3 DEF After

LEMMA AfterOff ==
  ASSUME NEW l, ~l.on, NEW layers
  PROVE  AfterChange(l, layers) = l
  BY DEF AfterChange

DirAfter(n, e, impure, bump, linked, linking) ==
  [dir EXCEPT !.upper[n] = e, !.impure = @ \/ impure, !.version = @ + bump,
              !.linking = @ \cup linking,
              !.linked = IF bump = 1 THEN {} ELSE @ \cup linked]

\* The step of a change.
ChangeMade(n, e, impure, bump, linked, linking) ==
  /\ dir'.kind = dir.kind /\ dir'.hasUpper = TRUE /\ dir'.whiteouts = dir.whiteouts
  /\ dir'.upper = [dir.upper EXCEPT ![n] = e]
  /\ dir'.impure <=> dir.impure \/ impure
  /\ dir'.version = dir.version + bump
  /\ dir'.linked = IF bump = 1 THEN {} ELSE dir.linked \cup linked
  /\ dir'.linking = dir.linking \cup linking
  /\ heap' = heap /\ fd' = fd /\ changes' = changes + 1 /\ changes \in Nat
  /\ listing' = [f \in Fds |-> AfterChange(listing[f], Layers')]
  /\ Lower' = Lower

ChangeShows(n, e) ==
  /\ \A k \in Names : k # n => TopNode(Layers, k)' = TopNode(Layers, k)
  /\ TopNode(Layers, n)' = IF e.kind # "no" THEN e ELSE TopNode(Lower, n)

LEMMA ChangedFacts ==
  ASSUME ReadDirInvariant, ListingInv, dir.hasUpper, NEW n \in Names, NEW e,
         NEW impure \in BOOLEAN, NEW bump, NEW linked, NEW linking,
         Changed(n, e, impure, bump, linked, linking)
  PROVE  ChangeMade(n, e, impure, bump, linked, linking) /\ ChangeShows(n, e)
  <1>0. DirInv /\ ContentInv
    BY DEF ReadDirInvariant, ListingInv
  <1>1. PICK i, v, lk, lg :
             /\ i = (dir.impure \/ impure) /\ v = dir.version + bump
             /\ lk = (IF bump = 1 THEN {} ELSE dir.linked \cup linked)
             /\ lg = dir.linking \cup linking
    OBVIOUS
  <1>2. PICK up : up = [dir.upper EXCEPT ![n] = e]
    OBVIOUS
  <1>3. PICK d : d = DirAfter(n, e, impure, bump, linked, linking)
    OBVIOUS
  <1>4. /\ dir' = d /\ changes' = changes + 1 /\ heap' = heap /\ fd' = fd
        /\ listing' = [f \in Fds |-> AfterChange(listing[f], <<d.upper>> \o Lower)]
    <2>1. /\ dir' = DirAfter(n, e, impure, bump, linked, linking) /\ changes' = changes + 1
          /\ heap' = heap /\ fd' = fd
          /\ listing' = [f \in Fds |-> AfterChange(listing[f],
                            <<DirAfter(n, e, impure, bump, linked, linking).upper>> \o Lower)]
      BY DEF Changed, DirAfter
    <2> QED
      BY <1>3, <2>1, Zenon
  <1>5. /\ d.kind = dir.kind /\ d.hasUpper = dir.hasUpper /\ d.whiteouts = dir.whiteouts
        /\ d.upper = up /\ d.version = v /\ d.linked = lk /\ d.linking = lg
    BY <1>0, <1>1, <1>2, <1>3 DEF DirInv, DirAfter
  <1>6. d.impure = i
    BY <1>0, <1>1, <1>3 DEF DirInv, DirAfter
  <1>7. Lower' = Lower /\ changes \in Nat
    BY <1>0, <1>4, <1>5 DEF Lower, DirInv
  <1>8. Layers' = <<up>> \o Lower
    BY <1>4, <1>5, <1>7 DEF Layers
  <1>9. Layers = <<dir.upper>> \o Lower
    BY DEF Layers
  <1>10. ChangeMade(n, e, impure, bump, linked, linking)
    <2>1. dir'.hasUpper = TRUE
      BY <1>0, <1>4, <1>5 DEF DirInv
    <2>2. listing' = [f \in Fds |-> AfterChange(listing[f], Layers')]
      BY <1>4, <1>5, <1>8
    <2> QED
      BY <1>1, <1>2, <1>4, <1>5, <1>6, <1>7, <2>1, <2>2, Zenon DEF ChangeMade
  <1>11. ASSUME NEW k \in Names
         PROVE  /\ TopNode(Layers, k)' = OnTop(up, Lower, k)
                /\ TopNode(Layers, k) = OnTop(dir.upper, Lower, k)
    <2>1. PICK low, old, lay, lay2, X :
            /\ low = Lower /\ old = dir.upper /\ lay = Layers /\ lay2 = Layers'
            /\ X = [Names -> StartNodes]
      OBVIOUS
    <2>2. low \in Seq(X) /\ lay = <<old>> \o low /\ lay2 = <<up>> \o low
      BY <1>0, <1>7, <1>8, <1>9, <2>1, LowerFacts DEF ContentInv
    <2>3. TopNode(lay, k) = OnTop(old, low, k)
      BY <2>2, TopStack
    <2>4. TopNode(lay2, k) = OnTop(up, low, k)
      BY <2>2, TopStack
    <2> QED
      BY <2>1, <2>3, <2>4
  <1>12. up[n] = e /\ \A k \in Names : k # n => up[k] = dir.upper[k]
    BY <1>0, <1>2 DEF ContentInv
  <1>13. ChangeShows(n, e)
    <2>1. ASSUME NEW k \in Names, k # n PROVE TopNode(Layers, k)' = TopNode(Layers, k)
      <3>1. OnTop(up, Lower, k) = OnTop(dir.upper, Lower, k)
        BY <1>12, <2>1, Zenon DEF OnTop
      <3> QED
        BY <1>11, <3>1
    <2>2. TopNode(Layers, n)' = IF e.kind # "no" THEN e ELSE TopNode(Lower, n)
      BY <1>11, <1>12, Zenon DEF OnTop
    <2> QED
      BY <2>1, <2>2 DEF ChangeShows
  <1> QED
    BY <1>10, <1>13

\* What a change needs, whatever the call: a whiteout and a changed version go with a merged
\* directory, the flags cover the new node, and the name does not keep its number.
ChangeFits(n, e, impure, bump, linked) ==
  /\ Node(e)' /\ (HasOrigin(e) => impure)
  /\ ~Merge => e # Wh
  /\ bump \in {0, 1} /\ (Merge => bump = 1)
  /\ ~Merge /\ bump = 0 => ~HasOrigin(dir.upper[n]) /\ (HasOrigin(e) => n \in linked)
  /\ n \in Visible(Layers) => StIno(Layers, n)' # StIno(Layers, n)

\* While a directory of one layer is copied up, it still shows what its lower layer has.
LowerView ==
  dir.kind = "lower" /\ Len(Lower) = 1 /\ ~dir.whiteouts =>
    \A k \in Names : /\ TopNode(Layers, k)'.kind = TopNode(Layers, k).kind
                     /\ StIno(Layers, k)' = StIno(Layers, k)

LEMMA ChangeContentInv ==
  ASSUME DirInv, ContentInv, dir.hasUpper, NEW n \in Names, NEW e, NEW impure \in BOOLEAN,
         NEW bump, NEW linked, NEW linking, ChangeMade(n, e, impure, bump, linked, linking),
         Node(e)', HasOrigin(e) => impure, ~Merge => e # Wh, Merge => bump = 1 \/ linked = {},
         ~Merge => linking = {}, LowerView
  PROVE  ContentInv'
  <1>1. /\ dir'.kind = dir.kind /\ dir'.hasUpper = TRUE /\ dir'.whiteouts = dir.whiteouts
        /\ dir'.upper = [dir.upper EXCEPT ![n] = e]
        /\ dir'.impure <=> dir.impure \/ impure
        /\ dir'.linked = IF bump = 1 THEN {} ELSE dir.linked \cup linked
        /\ dir'.linking = dir.linking \cup linking
        /\ changes' = changes + 1 /\ changes \in Nat /\ Lower' = Lower
    BY DEF ChangeMade
  <1>2. PICK up : up = dir'.upper
    OBVIOUS
  <1>3. up[n] = e /\ (\A k \in Names : k # n => up[k] = dir.upper[k])
        /\ up = [k \in Names |-> up[k]]
    BY <1>1, <1>2 DEF ContentInv
  <1>4. \A k \in Names : Node(up[k])'
    <2> TAKE k \in Names
    <2>1. CASE k = n
      BY <1>3, <2>1
    <2>2. CASE k # n
      <3>1. PICK o : o = dir.upper[k]
        OBVIOUS
      <3>2. Node(o)'
        BY <1>1, <3>1, NodeStays DEF ContentInv
      <3> QED
        BY <1>3, <2>2, <3>1, <3>2
    <2> QED
      BY <2>1, <2>2
  <1>5. Merge' <=> Merge
    BY <1>1, Zenon DEF Merge
  <1>6. ASSUME dir.kind = "upper", NEW k \in Names PROVE up[k] # Wh
    <2>1. ~Merge
      <3>1. Lower = <<>>
        BY <1>1, <1>6, LowerFacts DEF ContentInv
      <3> QED
        BY <3>1 DEF Merge
    <2> QED
      BY <1>3, <1>6, <2>1 DEF ContentInv
  <1>7. ASSUME ~dir'.impure, NEW k \in Names PROVE ~HasOrigin(up[k])
    BY <1>1, <1>3, <1>7 DEF ContentInv
  <1>8. Merge => dir'.linked = {}
    BY <1>1 DEF ContentInv
  <1>9. /\ dir'.whiteouts => Merge'
        /\ Merge' => dir'.whiteouts \/ (dir'.kind = "lower" /\ Len(Lower') = 1)
        /\ ~Merge' => dir'.linking = {}
    BY <1>1, <1>5 DEF ContentInv
  <1>10. dir'.kind = "lower" /\ Len(Lower') = 1 /\ ~dir'.whiteouts =>
           \A k \in Names : /\ TopNode(Layers, k)'.kind = Lower'[1][k].kind
                            /\ StIno(Layers, k)' = Lower'[1][k].st
    BY <1>1, Zenon DEF ContentInv, LowerView
  <1> QED
    BY <1>1, <1>2, <1>3, <1>4, <1>5, <1>6, <1>7, <1>8, <1>9, <1>10, Zenon DEF ContentInv

\* The names that keep their number still show, and keep an origin.
SameShow ==
  \A k \in Names : k \in Visible(Layers) /\ StIno(Layers, k)' = StIno(Layers, k) =>
    /\ k \in Visible(Layers)'
    /\ HasOrigin(TopNode(Layers, k)) => HasOrigin(TopNode(Layers, k)')

LEMMA InoKept ==
  ASSUME NEW x, StIno(Layers, x.name)' = StIno(Layers, x.name),
         HasOrigin(TopNode(Layers, x.name)) => HasOrigin(TopNode(Layers, x.name)'),
         InoFits(x)
  PROVE  InoFits(x)'
  BY Zenon DEF InoFits

\* The listings after a change, in whatever way it was made.
LEMMA ChangedListing ==
  ASSUME ReadDirInvariant, ListingInv, dir.hasUpper, NEW f \in Fds, NEW n, NEW e, NEW impure,
         NEW bump, NEW linked, NEW linking, ChangeMade(n, e, impure, bump, linked, linking),
         SameShow, ~Merge => Visible(Layers)' = Objects(dir'.upper)
  PROVE  FileOk(Now, f)' /\ ListingOk(Now, f, listing[f])'
  <1>0. DirInv /\ ContentInv /\ CacheInv(Now) /\ CachesOk(Now)
    BY DEF ReadDirInvariant, ListingInv
  <1>1. /\ dir'.kind = dir.kind /\ heap' = heap /\ fd' = fd /\ Lower' = Lower
        /\ listing' = [g \in Fds |-> AfterChange(listing[g], Layers')]
    BY DEF ChangeMade
  <1>2. Now'.heap = heap /\ Now'.fd = fd /\ Now.heap = heap /\ Now.fd = fd
    BY <1>1, NowFields, NextFields
  <1>3. PICK l, m, lay : l = listing[f] /\ m = listing'[f] /\ lay = Layers'
    OBVIOUS
  <1>4. FileOk(Now, f) /\ ListingOk(Now, f, l)
    BY <1>3 DEF ListingInv
  <1>5. FileOk(Now, f)'
    BY <1>1, <1>2, <1>4, Zenon DEF FileOk
  <1>6. m = AfterChange(l, lay)
    BY <1>1, <1>3
  <1>7. CASE ~l.on
    <2>1. m = l /\ l = NoListing
      BY <1>4, <1>6, <1>7, AfterOff DEF ListingOk
    <2>2. ListingOk(Now, f, listing[f])'
      BY <1>3, <2>1, ListingRecords DEF ListingOk
    <2> QED
      BY <1>5, <2>2
  <1>8. CASE l.on /\ Astray(fd[f])
    <2>1. DOMAIN l = ListingFields /\ fd[f].open /\ fd[f].pos > 0
      BY <1>2, <1>4, <1>8 DEF ListingOk
    <2>2. DOMAIN m = ListingFields /\ m.on
      BY <1>6, <1>8, <2>1, AfterFields DEF After
    <2>3. Merge' <=> Merge
      BY DEF Merge, ChangeMade
    <2>4. Astray(fd[f])'
      BY <1>1, <1>8, <2>3 DEF Astray
    <2>5. ListingOk(Now, f, listing[f])'
      BY <1>1, <1>2, <1>3, <2>1, <2>2, <2>4 DEF ListingOk, Astray
    <2> QED
      BY <1>5, <2>5
  <1>9. CASE l.on /\ ~Astray(fd[f])
    <2>1. /\ DOMAIN l = ListingFields /\ ~l.twice /\ ~l.badIno
          /\ fd[f].open /\ fd[f].pos > 0
          /\ l.keep \subseteq Visible(Layers) /\ Visible(Layers) \subseteq l.may
          /\ l.same \subseteq Visible(Layers)
      BY <1>2, <1>4, <1>9 DEF ListingOk
    <2>2. After(m, l, lay)
      BY <1>6, <1>9, <2>1, AfterFields
    <2>3. Visible(lay) = Visible(Layers)' /\ \A k : StIno(lay, k) = StIno(Layers, k)'
      BY <1>3 DEF Visible, StIno
    <2>4. /\ DOMAIN m = ListingFields /\ m.on /\ ~m.twice /\ ~m.badIno
          /\ m.got = l.got /\ m.eof = l.eof
          /\ m.keep \subseteq l.keep /\ l.may \subseteq m.may /\ m.same \subseteq l.same
          /\ m.keep \subseteq Visible(lay) /\ Visible(lay) \subseteq m.may
          /\ \A k \in m.same : StIno(lay, k) = StIno(Layers, k)
      BY <1>9, <2>1, <2>2 DEF After
    <2>5. ASSUME NEW k \in m.same
          PROVE  /\ k \in Names /\ k \in Visible(lay)
                 /\ StIno(Layers, k)' = StIno(Layers, k)
                 /\ HasOrigin(TopNode(Layers, k)) => HasOrigin(TopNode(Layers, k)')
      <3>1. k \in Visible(Layers) /\ StIno(Layers, k)' = StIno(Layers, k)
        BY <2>1, <2>3, <2>4
      <3>2. k \in Names
        BY <3>1 DEF Visible
      <3> QED
        BY <2>3, <3>1, <3>2 DEF SameShow
    <2>6. m.same \subseteq Visible(lay)
      BY <2>5
    <2>7. CASE fd[f].isReal
      <3>1. RealListing(l, RealLayer(fd[f]), fd[f].pos) /\ LowerFits(l, fd[f])
        BY <1>2, <1>4, <1>9, <2>7 DEF ListingOk
      <3>2. PICK layer, new : layer = RealLayer(fd[f]) /\ new = RealLayer(fd[f])'
        OBVIOUS
      <3>3. /\ l.keep \subseteq Objects(layer) /\ Objects(layer) \subseteq l.may
            /\ l.got \subseteq l.may
            /\ l.got \subseteq Before(fd[f].pos) /\ l.keep \cap Before(fd[f].pos) \subseteq l.got
            /\ l.eof => l.keep \subseteq Before(fd[f].pos)
        BY <3>1, <3>2 DEF RealListing
      <3>4. m.keep \subseteq Objects(new) /\ Objects(new) \subseteq m.may
        <4>1. CASE fd[f].isUpper
          <5>1. ~Merge
            BY <1>9, <2>1, <2>7, <4>1 DEF Astray
          <5>2. new = dir'.upper
            BY <1>1, <3>2, <4>1 DEF RealLayer
          <5>3. Visible(lay) = Objects(new)
            BY <2>3, <5>1, <5>2
          <5> QED
            BY <2>4, <5>3
        <4>2. CASE ~fd[f].isUpper
          <5>1. new = layer
            BY <1>1, <3>2, <4>2 DEF RealLayer
          <5> QED
            BY <2>4, <3>3, <5>1
        <4> QED
          BY <4>1, <4>2
      <3>5. RealListing(m, new, fd[f].pos)
        BY <2>4, <3>3, <3>4 DEF RealListing
      <3>6. ~fd[f].isUpper => \A k \in m.same : Lower[1][k].st = StIno(lay, k)
        BY <2>3, <2>4, <2>5, <3>1 DEF LowerFits
      <3>7. LowerFits(m, fd[f])'
        BY <1>1, <1>3, <2>3, <3>6 DEF LowerFits
      <3>8. ListingOk(Now, f, listing[f])'
        BY <1>1, <1>2, <1>3, <2>1, <2>3, <2>4, <2>6, <2>7, <3>2, <3>5, <3>7, Zenon
           DEF ListingOk, RealListing
      <3> QED
        BY <1>5, <3>8
    <2>8. CASE ~fd[f].isReal
      <3>1. PICK es, at : es = heap[fd[f].cache].entries /\ at = fd[f].cursor
        OBVIOUS
      <3>2. fd[f].cache # None /\ MergedListing(l, es, at)
        BY <1>2, <1>4, <1>9, <2>8, <3>1 DEF ListingOk
      <3>3. es \in Seq(EntryType)
        <4>1. fd[f].cache \in CacheIds /\ heap[fd[f].cache].live
          BY <1>0, <1>2, <3>2 DEF CacheInv, Shape, HeapOk
        <4> QED
          BY <1>0, <1>2, <3>1, <4>1 DEF CachesOk, CacheOk
      <3>4. ASSUME NEW k \in DOMAIN es, ~es[k].whiteout, es[k].name \in m.same
            PROVE  InoFits(es[k])'
        <4>1. PICK x : x = es[k]
          OBVIOUS
        <4>2. x.name \in m.same /\ x.name \in l.same /\ InoFits(x)
          BY <2>4, <3>2, <3>4, <4>1 DEF MergedListing, InosFit
        <4>3. InoFits(x)'
          BY <2>5, <4>2, InoKept
        <4> QED
          BY <4>1, <4>3
      <3>5. InosFit(es, m.same)'
        BY <3>4, Zenon DEF InosFit
      <3>6. /\ m.got = ShownBelow(es, at) /\ m.keep \subseteq Shown(es)
            /\ Shown(es) \subseteq m.may /\ (m.eof => at > Len(es))
        BY <2>4, <3>2 DEF MergedListing
      <3>7. MergedListing(m, es, at)'
        BY <3>5, <3>6, Zenon DEF MergedListing
      <3>8. ListingOk(Now, f, listing[f])'
        BY <1>1, <1>2, <1>3, <2>1, <2>3, <2>4, <2>6, <2>8, <3>1, <3>2, <3>7, Zenon
           DEF ListingOk
      <3> QED
        BY <1>5, <3>8
    <2> QED
      BY <2>7, <2>8
  <1> QED
    BY <1>7, <1>8, <1>9

\* A directory that is not merged shows its upper layer, also after a change.
LEMMA ChangeUpper ==
  ASSUME "former" \notin Kinds, ContentInv, DirInv, dir.hasUpper, ~Merge,
         NEW n \in Names, NEW e, NEW impure, NEW bump, NEW linked, NEW linking,
         ChangeMade(n, e, impure, bump, linked, linking), ChangeShows(n, e)
  PROVE  Visible(Layers)' = Objects(dir'.upper)
  <1>1. (\A k \in Names : TopNode(Layers, k) = dir.upper[k]) /\ Lower = <<>>
    BY UpperOnly
  <1>2. PICK up : up = dir'.upper
    OBVIOUS
  <1>3. up[n] = e /\ \A k \in Names : k # n => up[k] = dir.upper[k]
    BY <1>2 DEF ChangeMade, ContentInv
  <1>4. TopNode(Lower, n) = Gone
    <2>1. PICK low : low = Lower
      OBVIOUS
    <2>2. DOMAIN low = {}
      BY <1>1, <2>1
    <2>3. TopNode(low, n) = Gone
      BY <2>2, TopCases DEF First
    <2> QED
      BY <2>1, <2>3
  <1>5. Gone.kind = "no"
    BY DEF Gone
  <1>6. \A k \in Names : TopNode(Layers, k)'.kind = "object" <=> up[k].kind = "object"
    <2> TAKE k \in Names
    <2>1. CASE k # n
      BY <1>1, <1>3, <2>1 DEF ChangeShows
    <2>2. CASE k = n
      <3>1. TopNode(Layers, n)' = IF e.kind # "no" THEN e ELSE Gone
        BY <1>4, Zenon DEF ChangeShows
      <3> QED
        BY <1>3, <1>5, <2>2, <3>1
    <2> QED
      BY <2>1, <2>2
  <1> QED
    BY <1>2, <1>6 DEF Visible, Objects

\* A change that the version does not show leaves the impure cache right.
LEMMA ChangeImpure ==
  ASSUME ContentInv, NEW n \in Names, NEW e, NEW impure, NEW linked, NEW linking,
         ChangeMade(n, e, impure, 0, linked, linking), ~HasOrigin(dir.upper[n]),
         HasOrigin(e) => n \in linked, NEW es, es \in Seq(EntryType), ImpureValid(es)
  PROVE  ImpureValid(es)'
  <1>1. PICK up, old : up = dir'.upper /\ old = dir.upper
    OBVIOUS
  <1>2. /\ up[n] = e /\ (\A k \in Names : k # n => up[k] = old[k])
        /\ dir'.linked = dir.linked \cup linked /\ ~HasOrigin(old[n])
    BY <1>1 DEF ChangeMade, ContentInv
  <1>3. ASSUME NEW k \in DOMAIN es
        PROVE  HasOrigin(up[es[k].name]) /\ es[k].ino = up[es[k].name].st
    <2>1. es[k] \in EntryType
      OBVIOUS
    <2>2. es[k].name \in Names
      BY <2>1 DEF EntryType
    <2>3. HasOrigin(old[es[k].name]) /\ es[k].ino = old[es[k].name].st
      BY <1>1, Zenon DEF ImpureValid
    <2>4. es[k].name # n
      BY <1>2, <2>3
    <2>5. up[es[k].name] = old[es[k].name]
      BY <1>2, <2>2, <2>4
    <2> QED
      BY <2>3, <2>5
  <1>4. ASSUME NEW m \in Names, m \notin dir'.linked, HasOrigin(up[m])
        PROVE  \E k \in DOMAIN es : es[k].name = m
    <2>1. m # n
      BY <1>2, <1>4
    <2>2. HasOrigin(old[m]) /\ m \notin dir.linked
      BY <1>2, <1>4, <2>1
    <2> QED
      BY <1>1, <2>2, Zenon DEF ImpureValid
  <1> QED
    BY <1>1, <1>3, <1>4, Zenon DEF ImpureValid

LEMMA ChangeCaches ==
  ASSUME ReadDirInvariant, ListingInv, dir.hasUpper,
         NEW n \in Names, NEW e, NEW impure, NEW bump, NEW linked, NEW linking,
         ChangeMade(n, e, impure, bump, linked, linking), ChangeFits(n, e, impure, bump, linked)
  PROVE  CachesOk(Now)'
  <1>0. DirInv /\ ContentInv /\ CacheInv(Now) /\ CachesOk(Now)
    BY DEF ReadDirInvariant, ListingInv
  <1>1. heap' = heap /\ dir'.version = dir.version + bump /\ bump \in {0, 1}
    BY DEF ChangeMade, ChangeFits
  <1>2. Now'.heap = heap /\ Now.heap = heap
    BY <1>1, NowFields, NextFields
  <1>3. dir.version \in Nat
    BY <1>0 DEF DirInv
  <1>4. ASSUME NEW c \in CacheIds, heap[c].live
        PROVE  CacheOk(heap[c])'
    <2>1. PICK cache : cache = heap[c]
      OBVIOUS
    <2>2. CacheOk(cache) /\ cache.live
      BY <1>0, <1>2, <1>4, <2>1 DEF CachesOk
    <2>3. /\ cache.entries \in Seq(EntryType) /\ Distinct(cache.entries)
          /\ cache.version \in 0 .. dir.version
          /\ cache.version = dir.version => Valid(cache)
      BY <2>2 DEF CacheOk
    <2>4. cache.version \in 0 .. dir'.version
      BY <1>1, <1>3, <2>3
    <2>5. ASSUME cache.version = dir'.version PROVE Valid(cache)'
      <3>1. bump = 0 /\ cache.version = dir.version
        BY <1>1, <1>3, <2>3, <2>5
      <3>2. /\ ~Merge /\ ~HasOrigin(dir.upper[n]) /\ (HasOrigin(e) => n \in linked)
        <4>1. 0 # 1
          OBVIOUS
        <4> QED
          BY <3>1, <4>1, Zenon DEF ChangeFits
      <3>3. ~dir.whiteouts
        BY <1>0, <3>2 DEF ContentInv
      <3>4. cache.impure
        BY <1>0, <1>2, <1>4, <2>1, <2>2, <3>3 DEF CacheInv, HeapOk
      <3>5. ImpureValid(cache.entries)
        BY <2>3, <3>1, <3>4 DEF Valid
      <3>6. ChangeMade(n, e, impure, 0, linked, linking)
        BY <3>1
      <3>7. PICK es : es = cache.entries
        OBVIOUS
      <3>8. ImpureValid(es)'
        BY <1>0, <2>3, <3>2, <3>5, <3>6, <3>7, ChangeImpure
      <3> QED
        BY <3>4, <3>7, <3>8, Zenon DEF Valid
    <2>6. CacheOk(cache)'
      BY <2>3, <2>4, <2>5, Zenon DEF CacheOk
    <2> QED
      BY <1>1, <2>1, <2>6
  <1> QED
    BY <1>1, <1>2, <1>4, Zenon DEF CachesOk

\* A change that fits keeps the invariant.
LEMMA ChangeKeeps ==
  ASSUME "former" \notin Kinds, ReadDirInvariant, ListingInv, dir.hasUpper, ~CopyingUp,
         NEW n \in Names, NEW e, NEW impure \in BOOLEAN, NEW bump, NEW linked,
         Changed(n, e, impure, bump, linked, {}), ChangeFits(n, e, impure, bump, linked)
  PROVE  ListingInv'
  <1>0. DirInv /\ ContentInv
    BY DEF ReadDirInvariant, ListingInv
  <1>1. ChangeMade(n, e, impure, bump, linked, {}) /\ ChangeShows(n, e)
    BY ChangedFacts
  <1>2. ContentInv'
    <2>1. /\ Node(e)' /\ (HasOrigin(e) => impure) /\ (~Merge => e # Wh)
          /\ (Merge => bump = 1 \/ linked = {})
      BY Zenon DEF ChangeFits
    <2>2. LowerView
      <3>1. SUFFICES ASSUME dir.kind = "lower", ~dir.whiteouts PROVE FALSE
        BY DEF LowerView
      <3>2. Lower # <<>>
        <4>1. dir.kind \in Kinds /\ changes \in Nat
          BY <1>0 DEF ContentInv, DirInv
        <4> QED
          BY <3>1, <4>1, LowerFacts
      <3> QED
        BY <3>1, <3>2 DEF CopyingUp, Merge
    <2> QED
      BY <1>0, <1>1, <2>1, <2>2, ChangeContentInv
  <1>3. CachesOk(Now)'
    BY <1>1, ChangeCaches
  <1>4. SameShow
    <2> SUFFICES ASSUME NEW k \in Names, k \in Visible(Layers),
                        StIno(Layers, k)' = StIno(Layers, k)
                 PROVE  /\ k \in Visible(Layers)'
                        /\ HasOrigin(TopNode(Layers, k)) => HasOrigin(TopNode(Layers, k)')
      BY Zenon DEF SameShow
    <2>1. k # n
      BY DEF ChangeFits
    <2>2. TopNode(Layers, k)' = TopNode(Layers, k)
      BY <1>1, <2>1 DEF ChangeShows
    <2> QED
      BY <2>2 DEF Visible
  <1>5. ~Merge => Visible(Layers)' = Objects(dir'.upper)
    BY <1>0, <1>1, ChangeUpper
  <1>6. \A f \in Fds : FileOk(Now, f)' /\ ListingOk(Now, f, listing[f])'
    BY <1>1, <1>4, <1>5, ChangedListing
  <1>7. listing' = [f \in Fds |-> listing'[f]]
    BY <1>1 DEF ChangeMade
  <1> QED
    BY <1>2, <1>3, <1>6, <1>7, Zenon DEF ListingInv

\* An object that a change makes has numbers that none had before.
LEMMA NewNode ==
  ASSUME changes \in Nat, changes' = changes + 1, NEW r, r = FreshIno, NEW st \in {r, r + 1},
         NEW e, e = Obj(r, st)
  PROVE  /\ Node(e)' /\ e.kind = "object" /\ e.st = st /\ e # Wh
         /\ HasOrigin(e) <=> st # r
         /\ st \in Nat /\ st >= r
  <1>1. r \in Nat /\ r > 0 /\ FreshIno' = r + 2
    BY InoAssumption DEF FreshIno
  <1>2. e.kind = "object" /\ e.real = r /\ e.st = st
    BY DEF Obj
  <1>3. r \in 1 .. FreshIno' - 1 /\ st \in 1 .. FreshIno' - 1
    BY <1>1
  <1>4. Node(e)'
    BY <1>2, <1>3 DEF Node
  <1>5. e # Wh
    BY <1>2 DEF Wh
  <1> QED
    BY <1>1, <1>2, <1>4, <1>5 DEF HasOrigin

LEMMA NewFits ==
  ASSUME ReadDirInvariant, ListingInv, dir.hasUpper, NEW n \in Names, NEW r, r = FreshIno,
         NEW st \in {r, r + 1}, NEW e, e = Obj(r, st),
         NEW impure \in BOOLEAN, NEW bump \in {0, 1}, NEW linked, NEW linking,
         Changed(n, e, impure, bump, linked, linking),
         st # r => impure, Merge => bump = 1,
         ~Merge /\ bump = 0 => ~HasOrigin(dir.upper[n]) /\ (st # r => n \in linked)
  PROVE  ChangeFits(n, e, impure, bump, linked)
  <1>0. DirInv /\ ContentInv /\ changes \in Nat
    BY DEF ReadDirInvariant, ListingInv, DirInv
  <1>1. ChangeMade(n, e, impure, bump, linked, linking) /\ ChangeShows(n, e)
    BY ChangedFacts
  <1>2. changes' = changes + 1
    BY <1>1 DEF ChangeMade
  <1>3. /\ Node(e)' /\ e.kind = "object" /\ e.st = st /\ e # Wh
        /\ HasOrigin(e) <=> st # r
        /\ st \in Nat /\ st >= r
    BY <1>0, <1>2, NewNode
  <1>4. StIno(Layers, n)' = st
    <2>1. TopNode(Layers, n)' = e
      BY <1>1, <1>3 DEF ChangeShows
    <2> QED
      BY <1>3, <2>1 DEF StIno
  <1>5. StIno(Layers, n) # st
    <2>1. PICK old : old = TopNode(Layers, n)
      OBVIOUS
    <2>2. Node(old)
      BY <1>0, <2>1, TopTyped
    <2>3. r \in Nat /\ r > 0
      BY <1>0, InoAssumption DEF FreshIno
    <2>4. old.st \in Nat /\ old.st < r
      BY <1>0, <2>2, <2>3, NodeFields
    <2>5. old.st # st
      BY <1>3, <2>3, <2>4
    <2> QED
      BY <2>1, <2>5 DEF StIno
  <1> QED
    BY <1>3, <1>4, <1>5, Zenon DEF ChangeFits

\* A name that a directory that is not merged does not show has no origin.
LEMMA FreeName ==
  ASSUME "former" \notin Kinds, ReadDirInvariant, ListingInv, dir.hasUpper, NEW n \in Names,
         ~Merge
  PROVE  /\ TopNode(Layers, n) = dir.upper[n] /\ dir.upper[n] # Wh
         /\ n \notin Visible(Layers) => ~HasOrigin(dir.upper[n])
  <1>1. DirInv /\ ContentInv
    BY DEF ReadDirInvariant, ListingInv
  <1>2. TopNode(Layers, n) = dir.upper[n] /\ dir.upper[n] # Wh
    BY <1>1, UpperOnly
  <1> QED
    BY <1>2 DEF Visible, HasOrigin

LEMMA CreateContent ==
  ASSUME "former" \notin Kinds, ReadDirInvariant, ListingInv, NEW n \in Names, Create(n)
  PROVE  ListingInv'
  <1>1. PICK r, bump : r = FreshIno /\ bump = VersionInc(FALSE)
    OBVIOUS
  <1>2. PICK e : e = Obj(r, r)
    OBVIOUS
  <1>3. dir.hasUpper /\ ~CopyingUp /\ n \notin Visible(Layers)
        /\ Changed(n, e, FALSE, bump, {}, {})
    BY <1>1, <1>2 DEF Create, MayChange
  <1>4. bump \in {0, 1} /\ (Merge => bump = 1)
    BY <1>1 DEF VersionInc
  <1>5. ~Merge => ~HasOrigin(dir.upper[n])
    BY <1>3, FreeName
  <1>6. ChangeFits(n, e, FALSE, bump, {})
    BY <1>1, <1>2, <1>3, <1>4, <1>5, NewFits
  <1> QED
    BY <1>3, <1>6, ChangeKeeps

LEMMA LinkContent ==
  ASSUME "former" \notin Kinds, ReadDirInvariant, ListingInv, NEW n \in Names, Link(n)
  PROVE  ListingInv'
  <1>1. PICK r, bump : r = FreshIno /\ bump = VersionInc(FALSE)
    OBVIOUS
  <1>2. PICK e, linked : e = Obj(r, r + 1) /\ linked = {n}
    OBVIOUS
  <1>3. dir.hasUpper /\ ~CopyingUp /\ n \notin Visible(Layers)
        /\ Changed(n, e, TRUE, bump, linked, {})
    BY <1>1, <1>2 DEF Link, MayChange
  <1>4. bump \in {0, 1} /\ (Merge => bump = 1) /\ n \in linked
    BY <1>1, <1>2 DEF VersionInc
  <1>5. ~Merge => ~HasOrigin(dir.upper[n])
    BY <1>3, FreeName
  <1>6. ChangeFits(n, e, TRUE, bump, linked)
    BY <1>1, <1>2, <1>3, <1>4, <1>5, NewFits
  <1> QED
    BY <1>3, <1>6, ChangeKeeps

LEMMA MoveInContent ==
  ASSUME "former" \notin Kinds, ReadDirInvariant, ListingInv, NEW n \in Names,
         NEW origin \in BOOLEAN, MoveIn(n, origin)
  PROVE  ListingInv'
  <1>1. PICK r, bump : /\ r = FreshIno
                       /\ bump = VersionInc(origin \/ HasOrigin(TopNode(Layers, n)))
    OBVIOUS
  <1>2. PICK st : st = IF origin THEN r + 1 ELSE r
    OBVIOUS
  <1>3. PICK e : e = Obj(r, st)
    OBVIOUS
  <1>4. dir.hasUpper /\ ~CopyingUp /\ Changed(n, e, origin, bump, {}, {})
    BY <1>1, <1>2, <1>3 DEF MoveIn, MayChange
  <1>5. /\ bump \in {0, 1} /\ (Merge => bump = 1)
        /\ (bump = 0 => ~origin /\ ~HasOrigin(TopNode(Layers, n)))
    BY <1>1 DEF VersionInc
  <1>6. r \in Nat
    BY <1>1, InoAssumption DEF FreshIno, ReadDirInvariant, DirInv
  <1>7. st \in {r, r + 1} /\ (st # r <=> origin)
    BY <1>2, <1>6
  <1>8. ~Merge /\ bump = 0 => ~HasOrigin(dir.upper[n]) /\ st = r
    BY <1>4, <1>5, <1>7, FreeName
  <1>9. ChangeFits(n, e, origin, bump, {})
    BY <1>1, <1>3, <1>4, <1>5, <1>7, <1>8, NewFits
  <1> QED
    BY <1>4, <1>9, ChangeKeeps

\* The number of the topmost lower node is that of an object.
LEMMA LowerTop ==
  ASSUME ContentInv, DirInv, NEW n \in Names
  PROVE  /\ TopNode(Lower, n).kind # "object" => TopNode(Lower, n).st = 0
         /\ Lower = <<>> => TopNode(Lower, n) = Gone
         /\ ~HasOrigin(TopNode(Lower, n))
  <1>1. PICK low, top : low = Lower /\ top = TopNode(Lower, n)
    OBVIOUS
  <1>2. /\ DOMAIN low \subseteq Nat /\ (low = <<>> => DOMAIN low = {})
        /\ (\A i \in DOMAIN low : Node(low[i][n]) /\ ~HasOrigin(low[i][n]))
        /\ changes \in Nat /\ top = TopNode(low, n)
    <2>1. dir.kind \in Kinds /\ changes \in Nat
      BY DEF ContentInv, DirInv
    <2> QED
      BY <1>1, <2>1, LowerFacts
  <1>3. CASE \E j : First(low, n, j)
    <2>1. PICK j : First(low, n, j)
      BY <1>3
    <2>2. top = low[j][n] /\ j \in DOMAIN low
      BY <1>2, <2>1, TopFirst DEF First
    <2>3. Node(top) /\ ~HasOrigin(top) /\ low # <<>>
      BY <1>2, <2>2
    <2>4. top.kind # "object" => top.st = 0
      BY <1>2, <2>3, NodeFields
    <2> QED
      BY <1>1, <2>3, <2>4
  <1>4. CASE top = Gone
    BY <1>1, <1>4 DEF Gone, HasOrigin
  <1> QED
    BY <1>2, <1>3, <1>4, TopCases

\* ovl_do_remove: the name is gone, or a whiteout hides a lower one.
LEMMA UnlinkContent ==
  ASSUME "former" \notin Kinds, ReadDirInvariant, ListingInv, NEW n \in Names, Unlink(n)
  PROVE  ListingInv'
  <1>0. DirInv /\ ContentInv /\ changes \in Nat
    BY DEF ReadDirInvariant, ListingInv, DirInv
  <1>1. PICK a, b, low : /\ a = VersionInc(TRUE) /\ b = VersionInc(HasOrigin(dir.upper[n]))
                         /\ low = TopNode(Lower, n)
    OBVIOUS
  <1>2. /\ dir.hasUpper /\ ~CopyingUp /\ n \in Visible(Layers)
        /\ IF low.kind = "object" THEN Changed(n, Wh, FALSE, a, {}, {})
           ELSE Changed(n, Gone, FALSE, b, {}, {})
    BY <1>1 DEF Unlink, MayChange
  <1>3. StIno(Layers, n) # 0
    <2>1. PICK old : old = TopNode(Layers, n)
      OBVIOUS
    <2>2. Node(old) /\ old.kind = "object"
      BY <1>0, <1>2, <2>1, TopTyped DEF Visible
    <2> QED
      BY <1>0, <2>1, <2>2, NodeFields DEF StIno
  <1>4. a \in {0, 1} /\ b \in {0, 1} /\ (Merge => a = 1 /\ b = 1) /\ a # 0
        /\ (b = 0 => ~HasOrigin(dir.upper[n]))
    BY <1>1 DEF VersionInc
  <1>5. Node(Wh)' /\ Node(Gone)'
    BY DEF Node
  <1>6. ~HasOrigin(Wh) /\ ~HasOrigin(Gone) /\ Gone # Wh /\ Wh.kind # "no" /\ Wh.st = 0
        /\ Gone.kind = "no"
    BY DEF HasOrigin, Wh, Gone
  <1>7. CASE low.kind = "object"
    <2>1. Changed(n, Wh, FALSE, a, {}, {})
      BY <1>2, <1>7
    <2>2. Merge
      <3>1. Lower # <<>>
        BY <1>0, <1>1, <1>6, <1>7, LowerTop
      <3> QED
        BY <1>2, <3>1 DEF Merge
    <2>3. PICK wh : wh = Wh
      OBVIOUS
    <2>4. ChangeShows(n, wh)
      BY <1>2, <2>1, <2>3, ChangedFacts
    <2>5. StIno(Layers, n)' = 0
      BY <1>6, <2>3, <2>4 DEF ChangeShows, StIno
    <2>6. ChangeFits(n, wh, FALSE, a, {})
      BY <1>3, <1>4, <1>5, <1>6, <2>2, <2>3, <2>5, Zenon DEF ChangeFits
    <2> QED
      BY <1>2, <2>1, <2>3, <2>6, ChangeKeeps
  <1>8. CASE low.kind # "object"
    <2>1. Changed(n, Gone, FALSE, b, {}, {})
      BY <1>2, <1>8
    <2>2. PICK no : no = Gone
      OBVIOUS
    <2>3. ChangeShows(n, no)
      BY <1>2, <2>1, <2>2, ChangedFacts
    <2>4. TopNode(Layers, n)' = low
      BY <1>1, <1>6, <2>2, <2>3 DEF ChangeShows
    <2>5. low.st = 0
      BY <1>0, <1>1, <1>8, LowerTop
    <2>6. StIno(Layers, n)' = 0
      BY <2>4, <2>5 DEF StIno
    <2>7. ChangeFits(n, no, FALSE, b, {})
      BY <1>3, <1>4, <1>5, <1>6, <2>2, <2>6, Zenon DEF ChangeFits
    <2> QED
      BY <1>2, <2>1, <2>2, <2>7, ChangeKeeps
  <1> QED
    BY <1>7, <1>8

\* The upper copy shows with the number of its origin: what the caches and the listings say
\* stays right, though the version does not change.
LEMMA CopyUpChildContent ==
  ASSUME "former" \notin Kinds, ReadDirInvariant, ListingInv, NEW n \in Names, CopyUpChild(n)
  PROVE  ListingInv'
  <1>0. DirInv /\ ContentInv /\ changes \in Nat /\ CacheInv(Now) /\ CachesOk(Now)
    BY DEF ReadDirInvariant, ListingInv, DirInv
  <1>1. PICK r, st, old : r = FreshIno /\ st = StIno(Layers, n) /\ old = TopNode(Layers, n)
    OBVIOUS
  <1>2. PICK e : e = Obj(r, st)
    OBVIOUS
  <1>3. /\ dir.hasUpper /\ n \in Visible(Layers) /\ dir.upper[n].kind = "no"
        /\ Changed(n, e, TRUE, 0, {}, {n})
    BY <1>1, <1>2 DEF CopyUpChild
  <1>4. Node(old) /\ old.kind = "object" /\ st = old.st
    BY <1>0, <1>1, <1>3, TopTyped DEF Visible, StIno
  <1>5. r \in Nat /\ r > 0 /\ st \in Nat /\ st # 0 /\ st < r
    BY <1>0, <1>1, <1>4, NodeFields, InoAssumption DEF FreshIno
  <1>6. ChangeMade(n, e, TRUE, 0, {}, {n}) /\ ChangeShows(n, e)
    BY <1>3, ChangedFacts
  <1>7. e.kind = "object" /\ e.real = r /\ e.st = st /\ HasOrigin(e)
    BY <1>2, <1>5 DEF Obj, HasOrigin
  <1>8. Node(e)'
    <2>1. FreshIno' = r + 2
      BY <1>0, <1>1, <1>6, InoAssumption DEF FreshIno, ChangeMade
    <2>2. r \in 1 .. FreshIno' - 1 /\ st \in 1 .. FreshIno' - 1
      BY <1>5, <2>1
    <2> QED
      BY <1>2, <1>7, <2>2 DEF Node
  <1>9. Merge
    <2> SUFFICES ASSUME ~Merge PROVE FALSE
      OBVIOUS
    <2>1. old = dir.upper[n]
      BY <1>1, <1>3, FreeName
    <2> QED
      BY <1>3, <1>4, <2>1
  <1>10. ASSUME NEW k \in Names
         PROVE  /\ StIno(Layers, k)' = StIno(Layers, k)
                /\ TopNode(Layers, k)'.kind = TopNode(Layers, k).kind
                /\ k \in Visible(Layers)' <=> k \in Visible(Layers)
                /\ HasOrigin(TopNode(Layers, k)) => HasOrigin(TopNode(Layers, k)')
    <2>1. CASE k # n
      <3>1. TopNode(Layers, k)' = TopNode(Layers, k)
        BY <1>6, <2>1 DEF ChangeShows
      <3> QED
        BY <3>1 DEF StIno, Visible
    <2>2. CASE k = n
      <3>1. TopNode(Layers, k)' = e
        BY <1>6, <1>7, <2>2 DEF ChangeShows
      <3> QED
        BY <1>1, <1>4, <1>7, <2>2, <3>1 DEF StIno, Visible
    <2> QED
      BY <2>1, <2>2
  <1>11. LowerView
    BY <1>10 DEF LowerView
  <1>12. ContentInv'
    BY <1>0, <1>3, <1>6, <1>8, <1>9, <1>11, ChangeContentInv
  <1>13. SameShow
    BY <1>10 DEF SameShow
  <1>14. Visible(Layers)' = Visible(Layers)
    BY <1>10 DEF Visible
  <1>15. heap' = heap /\ dir'.version = dir.version + 0 /\ dir.version \in Nat
    BY <1>0, <1>6 DEF ChangeMade, DirInv
  <1>16. dir'.version = dir.version /\ Now'.heap = heap /\ Now.heap = heap
    BY <1>15, NowFields, NextFields
  <1>17. ASSUME NEW c \in CacheIds, heap[c].live PROVE CacheOk(heap[c])'
    <2>1. PICK cache, es : cache = heap[c] /\ es = cache.entries
      OBVIOUS
    <2>2. CacheOk(cache) /\ ~cache.impure
      <3>1. CacheOk(cache)
        BY <1>0, <1>16, <1>17, <2>1 DEF CachesOk
      <3>2. ~heap[c].impure
        BY <1>0, <1>9, <1>16, <1>17 DEF CacheInv, HeapOk
      <3> QED
        BY <2>1, <3>1, <3>2
    <2>3. /\ es \in Seq(EntryType) /\ Distinct(es)
          /\ cache.version \in 0 .. dir.version
          /\ cache.version = dir.version => MergedValid(es)
      BY <2>1, <2>2 DEF CacheOk, Valid
    <2>4. ASSUME MergedValid(es) PROVE MergedValid(es)'
      <3>1. ASSUME NEW k \in DOMAIN es, ~es[k].whiteout PROVE InoFits(es[k])'
        <4>1. PICK x : x = es[k]
          OBVIOUS
        <4>2. x \in EntryType
          BY <2>3, <4>1
        <4>3. x.name \in Names
          BY <4>2 DEF EntryType
        <4>4. InoFits(x)
          BY <2>4, <3>1, <4>1, <4>3 DEF MergedValid, InosFit
        <4>5. InoFits(x)'
          BY <1>10, <4>3, <4>4, InoKept
        <4> QED
          BY <4>1, <4>5
      <3>2. InosFit(es, Names)'
        BY <3>1, Zenon DEF InosFit
      <3> QED
        BY <1>14, <2>4, <3>2, Zenon DEF MergedValid
    <2>5. Valid(cache)' <=> MergedValid(es)'
      BY <2>1, <2>2, Zenon DEF Valid
    <2>6. CacheOk(cache)'
      BY <1>16, <2>1, <2>3, <2>4, <2>5, Zenon DEF CacheOk
    <2> QED
      BY <1>15, <2>1, <2>6
  <1>18. CachesOk(Now)'
    BY <1>15, <1>16, <1>17, Zenon DEF CachesOk
  <1>19. \A f \in Fds : FileOk(Now, f)' /\ ListingOk(Now, f, listing[f])'
    BY <1>3, <1>6, <1>9, <1>13, ChangedListing
  <1>20. listing' = [f \in Fds |-> listing'[f]]
    BY <1>6 DEF ChangeMade
  <1> QED
    BY <1>12, <1>18, <1>19, <1>20, Zenon DEF ListingInv

-----------------------------------------------------------------------------
(* The specification. *)

LEMMA ListingInit ==
  ASSUME "former" \notin Kinds, Init
  PROVE  ListingInv
  <1>1. PICK k \in Kinds :
          dir = [kind |-> k, hasUpper |-> k # "lower", upper |-> UpperDir[k],
                 whiteouts |-> \/ k \in {"merge", "former"}
                               \/ Len(LowerDir[k]) > 1,
                 impure |-> \E n \in Names : HasOrigin(UpperDir[k][n]),
                 version |-> 0, linking |-> {}, linked |-> {}]
    BY DEF Init
  <1>2. /\ oiCache = None /\ changes = 0
        /\ heap = [c \in CacheIds |-> FreeCache] /\ fd = [f \in Fds |-> Closed]
        /\ listing = [f \in Fds |-> NoListing]
    BY DEF Init
  <1>3. /\ dir.kind = k /\ dir.hasUpper = (k # "lower") /\ dir.upper = UpperDir[k]
        /\ dir.whiteouts = (k \in {"merge", "former"} \/ Len(LowerDir[k]) > 1)
        /\ dir.version = 0 /\ dir.linked = {} /\ dir.linking = {}
    BY <1>1
  <1>4. dir.impure = (\E n \in Names : HasOrigin(UpperDir[k][n]))
    BY <1>1
  <1>5. PICK up, low : up = UpperDir[k] /\ low = LowerDir[k]
    OBVIOUS
  <1>6. k \in {"lower", "merge", "upper"} /\ Lower = low
    BY <1>3, <1>5, ReadDirAssumption DEF AllKinds, Lower
  <1>7. /\ up \in [Names -> StartNodes] /\ (low = <<>> <=> k \in {"upper", "former"})
        /\ (k = "lower" => \A n \in Names : up[n] = Gone)
        /\ (k = "upper" => \A n \in Names : up[n] # Wh)
        /\ low \in Seq([Names -> StartNodes])
    BY <1>5, ReadDirAssumption
  <1>8. \A n \in Names : Node(up[n])
    BY <1>2, <1>7, StartNode
  <1>9. dir.whiteouts <=> Merge
    <2>1. Len(low) \in Nat /\ (low = <<>> => Len(low) = 0)
      BY <1>7
    <2> QED
      BY <1>3, <1>5, <1>6, <1>7, <2>1 DEF Merge
  <1>10. ContentInv
    <2>1. dir.upper = [n \in Names |-> dir.upper[n]] /\ \A n \in Names : Node(dir.upper[n])
      BY <1>3, <1>5, <1>7, <1>8
    <2>2. ~dir.hasUpper => dir.kind = "lower" /\ \A n \in Names : dir.upper[n] = Gone
      BY <1>3, <1>5, <1>7
    <2>3. dir.kind = "upper" => \A n \in Names : dir.upper[n] # Wh
      BY <1>3, <1>5, <1>7
    <2>4. ~dir.impure => \A n \in Names : ~HasOrigin(dir.upper[n])
      BY <1>3, <1>4, Zenon
    <2>5. ASSUME dir.kind = "lower", Len(Lower) = 1, NEW n \in Names
          PROVE  TopNode(Layers, n) = Lower[1][n]
      <3>1. Layers = <<>> \o low
        BY <1>3, <1>6, <2>5 DEF Layers
      <3>2. Layers = Lower
        BY <1>6, <1>7, <3>1
      <3>3. /\ DOMAIN Layers = 1 .. 1 /\ changes \in Nat
            /\ \A m \in Names : Node(Lower[1][m])
        BY <1>2, <1>3, <2>5, <3>2, LowerFacts
      <3> QED
        BY <3>2, <3>3, OneLayer
    <2>6. dir.kind = "lower" /\ Len(Lower) = 1 /\ ~dir.whiteouts =>
            \A n \in Names : /\ TopNode(Layers, n).kind = Lower[1][n].kind
                             /\ StIno(Layers, n) = Lower[1][n].st
      BY <2>5 DEF StIno
    <2> QED
      BY <1>3, <1>9, <2>1, <2>2, <2>3, <2>4, <2>6 DEF ContentInv
  <1>11. /\ \A c \in CacheIds : ~Now.heap[c].live
         /\ \A f \in Fds : Now.fd[f] = Closed
    BY <1>2, NowFields, FreeFields
  <1>12. CachesOk(Now)
    BY <1>11 DEF CachesOk
  <1>13. ASSUME NEW f \in Fds PROVE FileOk(Now, f) /\ ListingOk(Now, f, listing[f])
    <2>1. FileOk(Now, f)
      <3>1. /\ Closed.pos \in Nat /\ Closed.cache = None /\ ~Closed.open
        BY DEF Closed
      <3> QED
        BY <1>11, <3>1, Zenon DEF FileOk
    <2>2. listing[f] = NoListing
      BY <1>2
    <2> QED
      BY <2>1, <2>2, Unlisted
  <1>14. listing = [f \in Fds |-> listing[f]]
    BY <1>2
  <1> QED
    BY <1>10, <1>12, <1>13, <1>14 DEF ListingInv

\* The second steps of the copy-ups change flags only.
LEMMA FlagsContent ==
  ASSUME ListingInv, SameView, heap' = heap, fd' = fd, listing' = listing, ContentInv'
  PROVE  ListingInv'
  <1>1. Now'.heap = heap /\ Now'.fd = fd /\ Now.heap = heap /\ Now.fd = fd
    BY NowFields, NextFields
  <1>2. CachesOk(Now)'
    <2>1. ASSUME NEW c \in CacheIds, heap[c].live PROVE CacheOk(heap[c])'
      <3>1. PICK cache : cache = heap[c]
        OBVIOUS
      <3>2. CacheOk(cache)
        BY <1>1, <2>1, <3>1 DEF ListingInv, CachesOk
      <3>3. CacheOk(cache)'
        BY <3>2, SameCaches
      <3> QED
        BY <3>1, <3>3
    <2> QED
      BY <1>1, <2>1, Zenon DEF CachesOk
  <1>3. ASSUME NEW f \in Fds PROVE FileOk(Now, f)' /\ ListingOk(Now, f, listing[f])'
    <2>1. PICK s, l : s = Now /\ l = listing[f]
      OBVIOUS
    <2>2. FileOk(s, f)' /\ ListingOk(s, f, l)'
      BY <2>1, SameListings DEF ListingInv
    <2>3. Now'.heap = s.heap /\ Now'.fd = s.fd
      BY <1>1, <2>1
    <2> QED
      BY <2>1, <2>2, <2>3, Zenon DEF FileOk, ListingOk
  <1> QED
    BY <1>2, <1>3, Zenon DEF ListingInv

LEMMA CopyUpDirDoneContent ==
  ASSUME ReadDirInvariant, ListingInv, CopyUpDirDone
  PROVE  ListingInv'
  <1>1. /\ Merge /\ dir' = [dir EXCEPT !.whiteouts = TRUE]
        /\ heap' = heap /\ fd' = fd /\ listing' = listing /\ changes' = changes
    BY DEF CopyUpDirDone, CopyingUp
  <1>2. SameView /\ dir'.whiteouts = TRUE /\ dir'.linking = dir.linking /\ dir'.impure = dir.impure
    BY <1>1 DEF ReadDirInvariant, DirInv, SameView
  <1>3. ContentInv'
    <2>1. ContentInv /\ Lower' = Lower /\ FreshIno' = FreshIno /\ Merge'
      BY <1>1, <1>2, SameLayers DEF ListingInv, FreshIno
    <2>2. \A e : Node(e)' <=> Node(e)
      BY <2>1, Zenon DEF Node
    <2> QED
      BY <1>1, <1>2, <2>1, <2>2, Zenon DEF ContentInv, SameView
  <1> QED
    BY <1>1, <1>2, <1>3, FlagsContent

LEMMA CopyUpChildDoneContent ==
  ASSUME ReadDirInvariant, ListingInv, NEW n \in Names, CopyUpChildDone(n)
  PROVE  ListingInv'
  <1>1. /\ n \in dir.linking /\ dir' = [dir EXCEPT !.linking = @ \ {n}]
        /\ heap' = heap /\ fd' = fd /\ listing' = listing /\ changes' = changes
    BY DEF CopyUpChildDone
  <1>2. SameView /\ dir'.whiteouts = dir.whiteouts /\ dir'.impure = dir.impure
    BY <1>1 DEF ReadDirInvariant, DirInv, SameView
  <1>3. ContentInv'
    <2>1. /\ ContentInv /\ Lower' = Lower /\ FreshIno' = FreshIno /\ (Merge' <=> Merge)
          /\ Layers' = Layers
      BY <1>1, <1>2, SameLayers DEF ListingInv, FreshIno
    <2>2. \A e : Node(e)' <=> Node(e)
      BY <2>1, Zenon DEF Node
    <2>3. Merge
      BY <1>1, <2>1 DEF ContentInv
    <2>4. \A m : TopNode(Layers, m)' = TopNode(Layers, m) /\ StIno(Layers, m)' = StIno(Layers, m)
      BY <2>1, Zenon DEF StIno
    <2> QED
      BY <1>2, <2>1, <2>2, <2>3, <2>4, Zenon DEF ContentInv, SameView
  <1> QED
    BY <1>1, <1>2, <1>3, FlagsContent

\* Every step keeps the invariant.
LEMMA ListingNext ==
  ASSUME "former" \notin Kinds, ReadDirInvariant, ListingInv, [Next]_vars, ~mixed'
  PROVE  ListingInv'
  <1>1. CASE UNCHANGED vars \/ Undefined
    <2>1. /\ dir' = dir /\ oiCache' = oiCache /\ heap' = heap /\ fd' = fd
          /\ listing' = listing /\ changes' = changes
      BY <1>1 DEF vars, Undefined
    <2>2. SameView /\ Now' = Now
      BY <2>1 DEF SameView, Now
    <2>3. ContentInv'
      <3>1. Layers' = Layers /\ Lower' = Lower /\ (Merge' <=> Merge) /\ FreshIno' = FreshIno
        BY <2>1, <2>2, SameLayers DEF FreshIno
      <3>2. /\ \A e : Node(e)' <=> Node(e)
            /\ \A n : TopNode(Layers, n)' = TopNode(Layers, n) /\ StIno(Layers, n)' = StIno(Layers, n)
        BY <3>1, Zenon DEF Node, StIno
      <3>3. ContentInv
        BY DEF ListingInv
      <3> QED
        BY <2>1, <3>1, <3>2, <3>3, Zenon DEF ContentInv
    <2>4. CachesOk(Now)'
      <3>1. PICK s : s = Now
        OBVIOUS
      <3>2. CachesOk(s)'
        BY <2>2, <3>1, SameCaches DEF ListingInv, CachesOk
      <3> QED
        BY <2>2, <3>1, <3>2
    <2>5. ASSUME NEW f \in Fds PROVE FileOk(Now, f)' /\ ListingOk(Now, f, listing[f])'
      <3>1. PICK s, l : s = Now /\ l = listing[f]
        OBVIOUS
      <3>2. FileOk(s, f)' /\ ListingOk(s, f, l)'
        BY <2>2, <3>1, SameListings DEF ListingInv
      <3> QED
        BY <2>1, <2>2, <3>1, <3>2
    <2> QED
      BY <2>1, <2>3, <2>4, <2>5, Zenon DEF ListingInv
  <1>2. ASSUME NEW f \in Fds,
               \/ Open(f) \/ IterateReal(f) \/ IterateMerged(f) \/ ReadFails(f) \/ Release(f)
               \/ \E off \in SeekTo : Llseek(f, off)
        PROVE  ListingInv'
    BY <1>2, OpenContent, IterateRealContent, IterateMergedContent, ReadFailsContent,
       ReleaseContent, LlseekContent
  <1>3. CASE Evict \/ CopyUpDir \/ CopyUpDirDone
    BY <1>3, EvictContent, CopyUpDirContent, CopyUpDirDoneContent
  <1>4. ASSUME NEW n \in Names,
               \/ CopyUpChild(n) \/ CopyUpChildDone(n) \/ Create(n) \/ Link(n) \/ Unlink(n)
               \/ \E origin \in BOOLEAN : MoveIn(n, origin)
        PROVE  ListingInv'
    BY <1>4, CopyUpChildContent, CopyUpChildDoneContent, CreateContent, LinkContent,
       UnlinkContent, MoveInContent
  <1> QED
    BY <1>1, <1>2, <1>3, <1>4, Zenon DEF Next, Step

ListingSafe == MixedInv /\ (~mixed => ReadDirInvariant /\ ListingInv)

LEMMA ListingAlways ==
  ASSUME "former" \notin Kinds
  PROVE  Spec => []ListingSafe
  <1>1. Init => ListingSafe
    BY ReadDirInit, ListingInit DEF ListingSafe, MixedInv, Init
  <1>2. ListingSafe /\ [Next]_vars => ListingSafe'
    <2> SUFFICES ASSUME ListingSafe, [Next]_vars PROVE ListingSafe'
      OBVIOUS
    <2>1. MixedInv' /\ (mixed => mixed')
      BY MixedStep DEF ListingSafe
    <2>2. ASSUME ~mixed' PROVE ReadDirInvariant' /\ ListingInv'
      <3>1. ReadDirInvariant /\ ListingInv
        BY <2>1, <2>2 DEF ListingSafe
      <3> QED
        BY <2>2, <3>1, ReadDirNext, ListingNext
    <2> QED
      BY <2>1, <2>2 DEF ListingSafe
  <1> QED
    BY <1>1, <1>2, PTL DEF Spec

\* What the invariant says of a listing at its end.
LEMMA ListingsComplete == ListingSafe => ListingComplete
  <1> SUFFICES ASSUME ReadDirInvariant, ListingInv, NEW f \in Fds, NEW l, l = listing[f],
                      ~Astray(fd[f])
               PROVE  /\ l.got \subseteq l.may /\ ~l.twice
                      /\ l.eof => l.keep \subseteq l.got
                      /\ fd[f].cache # None =>
                           fd[f].cursor \in 0 .. Len(heap[fd[f].cache].entries) + 1
    BY DEF ListingComplete, ListingSafe
  <1>1. Now.heap = heap /\ Now.fd = fd
    BY NowFields
  <1>2. /\ FileOk(Now, f) /\ ListingOk(Now, f, l) /\ CachesOk(Now) /\ CacheInv(Now)
    BY DEF ListingInv, ReadDirInvariant
  <1>3. ASSUME fd[f].cache # None
        PROVE  heap[fd[f].cache].entries \in Seq(EntryType)
    <2>1. fd[f].cache \in CacheIds /\ heap[fd[f].cache].live
      BY <1>1, <1>2, <1>3 DEF CacheInv, Shape, HeapOk
    <2> QED
      BY <1>1, <1>2, <2>1 DEF CachesOk, CacheOk
  <1>4. ASSUME fd[f].cache # None
        PROVE  fd[f].cursor \in 0 .. Len(heap[fd[f].cache].entries) + 1
    <2>1. PICK es, pos : es = heap[fd[f].cache].entries /\ pos = fd[f].pos
      OBVIOUS
    <2>2. pos \in Nat /\ fd[f].cursor = SeekCursor(es, pos) /\ Len(es) \in Nat
      BY <1>1, <1>2, <1>3, <1>4, <2>1 DEF FileOk
    <2>3. SeekCursor(es, pos) \in 0 .. Len(es) + 1
      BY <2>2 DEF SeekCursor
    <2> QED
      BY <2>1, <2>2, <2>3
  <1>5. CASE ~l.on
    <2>1. l = NoListing
      BY <1>2, <1>5 DEF ListingOk
    <2>2. l.got = {} /\ l.twice = FALSE /\ l.eof = FALSE
      BY <2>1 DEF NoListing
    <2> QED
      BY <1>4, <2>2
  <1>6. CASE l.on /\ fd[f].isReal
    <2>1. ~l.twice /\ RealListing(l, RealLayer(fd[f]), fd[f].pos)
      BY <1>1, <1>2, <1>6 DEF ListingOk
    <2> QED
      BY <1>4, <2>1 DEF RealListing
  <1>7. CASE l.on /\ ~fd[f].isReal
    <2>1. PICK es, at : es = heap[fd[f].cache].entries /\ at = fd[f].cursor
      OBVIOUS
    <2>2. ~l.twice /\ fd[f].cache # None /\ MergedListing(l, es, at)
      BY <1>1, <1>2, <1>7, <2>1 DEF ListingOk
    <2>3. es \in Seq(EntryType) /\ at \in 0 .. Len(es) + 1
      BY <1>3, <1>4, <2>1, <2>2
    <2>4. ShownBelow(es, at) \subseteq Shown(es)
      <3>1. \A j \in DOMAIN es : j < at => j < Len(es) + 1
        BY <2>3
      <3> QED
        BY <3>1 DEF ShownBelow, Shown
    <2>5. ASSUME at > Len(es) PROVE ShownBelow(es, at) = Shown(es)
      <3>1. at = Len(es) + 1
        BY <2>3, <2>5
      <3> QED
        BY <3>1 DEF Shown
    <2> QED
      BY <1>4, <2>2, <2>4, <2>5 DEF MergedListing
  <1> QED
    BY <1>5, <1>6, <1>7

LEMMA ListingsConsistent == ListingSafe => InoConsistent
  <1> SUFFICES ASSUME ListingInv, NEW f \in Fds, NEW l, l = listing[f], ~Astray(fd[f])
               PROVE  ~l.badIno
    BY DEF InoConsistent, ListingSafe
  <1>1. ListingOk(Now, f, l) /\ ~Astray(Now.fd[f])
    BY NowFields DEF ListingInv
  <1>2. NoListing.badIno = FALSE
    BY DEF NoListing
  <1> QED
    BY <1>1, <1>2 DEF ListingOk

\* A reader that starts at position 0 and reads to the end gets every name that was there all
\* the time, none that was there at no time, and none twice, for any number of names, layers,
\* open files and changes, and its cursor stays in the list of its cache (readdir.c:
\* ovl_iterate, ovl_cache_get, ovl_dir_reset; util.c: ovl_dentry_version_inc).  Left out are
\* a reader that began on the upper directory between the two steps of its copy-up
\* (copy_up.c:603-605) and everyone once such a reader has used the impure cache (mixed), and
\* directories that were merged once and have no lower layer now: the run that has them
\* violates the property.
THEOREM ListingCompleteCorrect ==
  ASSUME "former" \notin Kinds
  PROVE  Spec => []ListingComplete
  BY ListingAlways, ListingsComplete, PTL

\* The d_ino of a listed entry that was one object since the listing began is the st_ino that
\* stat reports, from whichever cache the number comes and whatever is copied up, replaced or
\* removed meanwhile (readdir.c: ovl_cache_update_ino, ovl_fill_real, ovl_cache_get_impure).
\* The exceptions are those of InoConsistent: besides the ones above, an entry whose number
\* was filled in between the two steps of the object's copy-up (copy_up.c:643-653), and a
\* name linked into a directory that is not merged.
THEOREM InoConsistentCorrect ==
  ASSUME "former" \notin Kinds
  PROVE  Spec => []InoConsistent
  BY ListingAlways, ListingsConsistent, PTL

=============================================================================
