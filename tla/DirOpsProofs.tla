---------------------------- MODULE DirOpsProofs ----------------------------
(***************************************************************************)
(* Proofs about the directory operations: types, and the empty work        *)
(* directory.                                                              *)
(***************************************************************************)
EXTENDS DirOpsInv, FiniteSetTheorems, SequenceTheorems, WellFoundedInduction, TLAPS

-----------------------------------------------------------------------------
(* Induction, paths and trades. *)

\* A set of naturals has a least element.
LEMMA LeastNat ==
  ASSUME NEW T, T \subseteq Nat, T # {}
  PROVE  \E x \in T : \A y \in T : x <= y
  <1>1. PICK R : R = OpToRel(<, Nat)
    OBVIOUS
  <1>2. IsWellFoundedOn(R, Nat)
    BY <1>1, NatLessThanWellFounded
  <1>3. PICK x \in T : \A y \in T : ~(<<y, x>> \in R)
    BY <1>2, WFMin
  <1>4. \A y \in T : <<y, x>> \in R <=> y < x
    BY <1>1 DEF OpToRel
  <1>5. ASSUME NEW y \in T PROVE x <= y
    <2>1. x \in Nat /\ y \in Nat
      OBVIOUS
    <2>2. ~(y < x)
      BY <1>3, <1>4
    <2> QED
      BY <2>1, <2>2
  <1> QED
    BY <1>5

LEMMA PathShape ==
  ASSUME NEW x \in Paths
  PROVE  \/ \E n \in Top : x = <<n>>
         \/ \E n \in Top, m \in Sub : x = <<n, m>>
  BY DEF Paths

LEMMA OneSeq ==
  ASSUME NEW t, NEW m, t \in Seq({m}), Len(t) = 1
  PROVE  t = <<m>>
  <1>1. <<m>> \in Seq({m}) /\ Len(<<m>>) = 1
    OBVIOUS
  <1>2. \A i \in 1 .. Len(t) : t[i] = m /\ <<m>>[i] = m
    OBVIOUS
  <1> QED
    BY <1>1, <1>2, SeqEqual

\* The sequence of one element of another.
LEMMA OneOf ==
  ASSUME NEW s, NEW i \in Int, NEW m, s[i] = m
  PROVE  SubSeq(s, i, i) = <<m>>
  <1>1. \A j \in i .. i : s[j] \in {m}
    OBVIOUS
  <1>2. /\ SubSeq(s, i, i) \in Seq({m})
        /\ Len(SubSeq(s, i, i)) = IF i <= i THEN i - i + 1 ELSE 0
    BY <1>1, SubSeqProperties
  <1>3. (IF i <= i THEN i - i + 1 ELSE 0) = 1
    OBVIOUS
  <1> QED
    BY <1>2, <1>3, OneSeq

LEMMA Pairs ==
  ASSUME NEW n, NEW m
  PROVE  Append(<<n>>, m) = <<n, m>> /\ SubSeq(<<n, m>>, 1, 1) = <<n>>
  <1>1. /\ <<n>> \in Seq({n, m}) /\ <<n, m>> \in Seq({n, m})
        /\ Len(<<n>>) = 1 /\ Len(<<n, m>>) = 2 /\ <<n>>[1] = n
        /\ <<n, m>>[1] = n /\ <<n, m>>[2] = m
    OBVIOUS
  <1>2. PICK s \in Seq({n, m}) : s = Append(<<n>>, m)
    BY <1>1, AppendProperties
  <1>3. Len(s) = 2 /\ s[1] = n /\ s[2] = m
    BY <1>1, <1>2
  <1>4. s = <<n, m>>
    BY <1>1, <1>3, SeqEqual
  <1>5. PICK u : u = <<n, m>>
    OBVIOUS
  <1>6. u[1] = n
    BY <1>5
  <1>7. SubSeq(u, 1, 1) = <<n>>
    BY <1>6, OneOf
  <1> QED
    BY <1>2, <1>4, <1>5, <1>7

LEMMA PathSeq ==
  ASSUME NEW x \in Paths
  PROVE  x \in Seq(Top \cup Sub) /\ Len(x) \in {1, 2}
  <1>1. ASSUME NEW n \in Top, x = <<n>>
        PROVE  x \in Seq(Top \cup Sub) /\ Len(x) \in {1, 2}
    BY <1>1
  <1>2. ASSUME NEW n \in Top, NEW m \in Sub, x = <<n, m>>
        PROVE  x \in Seq(Top \cup Sub) /\ Len(x) \in {1, 2}
    BY <1>2
  <1> QED
    BY <1>1, <1>2, PathShape

LEMMA TopPath ==
  ASSUME NEW n \in Top
  PROVE  /\ <<n>> \in Paths /\ Len(<<n>>) = 1 /\ Parent(<<n>>) = <<>>
         /\ Kids(<<n>>) = {<<n, m>> : m \in Sub} /\ Append(Parent(<<n>>), Last(<<n>>)) = <<n>>
         /\ Last(<<n>>) = n
  <1>1. <<n>> \in Paths
    BY DEF Paths
  <1>2. Len(<<n>>) = 1 /\ Last(<<n>>) = n
    BY DEF Last
  <1>3. Parent(<<n>>) = <<>>
    BY DEF Parent, Front
  <1>4. \A m : Append(<<n>>, m) = <<n, m>>
    BY Pairs
  <1>5. Kids(<<n>>) = {<<n, m>> : m \in Sub}
    BY <1>2, <1>4, Zenon DEF Kids
  <1>6. Append(<<>>, n) = <<n>>
    OBVIOUS
  <1> QED
    BY <1>1, <1>2, <1>3, <1>5, <1>6, Zenon

LEMMA SubPath ==
  ASSUME NEW n \in Top, NEW m \in Sub
  PROVE  /\ <<n, m>> \in Paths /\ Len(<<n, m>>) = 2 /\ Parent(<<n, m>>) = <<n>>
         /\ Kids(<<n, m>>) = {}
         /\ Append(Parent(<<n, m>>), Last(<<n, m>>)) = <<n, m>> /\ Last(<<n, m>>) = m
  <1>1. <<n, m>> \in Paths
    BY DEF Paths
  <1>2. Len(<<n, m>>) = 2 /\ Last(<<n, m>>) = m
    BY DEF Last
  <1>3. Parent(<<n, m>>) = <<n>>
    <2>1. Len(<<n, m>>) - 1 = 1
      OBVIOUS
    <2> QED
      BY <2>1, Pairs, Zenon DEF Parent, Front
  <1>4. Append(<<n>>, m) = <<n, m>>
    BY Pairs
  <1>5. Kids(<<n, m>>) = {}
    BY <1>2 DEF Kids
  <1> QED
    BY <1>1, <1>2, <1>3, <1>4, <1>5, Zenon

LEMMA PathFacts ==
  ASSUME NEW x \in Paths
  PROVE  /\ x # <<>> /\ Parent(x) # x /\ x \notin Kids(x)
         /\ Append(Parent(x), Last(x)) = x /\ Last(x) \in Top \cup Sub
         /\ \/ Parent(x) = <<>>
            \/ /\ Parent(x) \in Paths /\ x \in Kids(Parent(x)) /\ Kids(x) = {}
               /\ Parent(Parent(x)) = <<>>
  <1>1. ASSUME NEW n \in Top, x = <<n>>
        PROVE  /\ x # <<>> /\ Parent(x) = <<>> /\ x \notin Kids(x)
               /\ Append(Parent(x), Last(x)) = x /\ Last(x) \in Top \cup Sub
    <2>1. x # <<>> /\ x \notin {<<n, m>> : m \in Sub}
      BY <1>1
    <2> QED
      BY <1>1, <2>1, TopPath, Zenon
  <1>2. ASSUME NEW n \in Top, NEW m \in Sub, x = <<n, m>>
        PROVE  /\ x # <<>> /\ Parent(x) = <<n>> /\ Kids(x) = {} /\ x \in Kids(<<n>>)
               /\ Append(Parent(x), Last(x)) = x /\ Last(x) \in Top \cup Sub
               /\ <<n>> \in Paths /\ Parent(<<n>>) = <<>> /\ x # <<n>>
    BY <1>2, SubPath, TopPath
  <1> QED
    BY <1>1, <1>2, PathShape

LEMMA KidFacts ==
  ASSUME NEW x \in Paths, NEW k \in Kids(x)
  PROVE  k \in Paths /\ Parent(k) = x /\ Parent(x) = <<>> /\ Kids(k) = {} /\ k # x
  <1>1. PICK n \in Top : x = <<n>>
    BY PathShape, SubPath
  <1>2. PICK m \in Sub : k = <<n, m>>
    BY <1>1, TopPath
  <1> QED
    BY <1>1, <1>2, TopPath, SubPath

\* Trading places maps families onto each other, as far as there are paths for them.
LEMMA TradeFacts ==
  ASSUME NEW p \in Paths, NEW q \in Paths, p # q, q \notin Kids(p), p \notin Kids(q)
  PROVE  /\ Trade(q, p, q) = p /\ Trade(p, p, q) = q
         /\ \A x \in Kids(q) : Trade(x, p, q) \in Paths => Trade(x, p, q) \in Kids(p)
         /\ \A x \in Kids(p) : Trade(x, p, q) \in Paths => Trade(x, p, q) \in Kids(q)
         /\ \A x : x \notin Family(p) /\ x \notin Family(q) => Trade(x, p, q) = x
  <1>1. ASSUME NEW x \in Paths, NEW y \in Paths
        PROVE  x \o SubSeq(y, Len(y) + 1, Len(y)) = x
    <2>1. Len(y) \in Nat /\ x \in Seq(Top \cup Sub)
      BY PathSeq
    <2>2. Len(y) + 1 \in Int /\ Len(y) \in Int /\ Len(y) < Len(y) + 1
      BY <2>1
    <2>3. SubSeq(y, Len(y) + 1, Len(y)) = <<>>
      BY <2>2, SubSeqEmpty
    <2> QED
      BY <2>1, <2>3, ConcatEmptySeq
  <1>2. ASSUME NEW x \in Paths, NEW y \in Paths, NEW k \in Kids(y),
               x \o SubSeq(k, Len(y) + 1, Len(k)) \in Paths
        PROVE  x \o SubSeq(k, Len(y) + 1, Len(k)) \in Kids(x)
    <2>1. PICK n \in Top : y = <<n>>
      BY PathShape, SubPath
    <2>2. PICK m \in Sub : k = <<n, m>>
      BY <2>1, TopPath
    <2>3. Len(y) + 1 = 2 /\ Len(k) = 2 /\ k[2] = m
      BY <2>1, <2>2
    <2>4. SubSeq(k, 2, 2) = <<m>>
      BY <2>3, OneOf
    <2>5. x \o SubSeq(k, Len(y) + 1, Len(k)) = x \o <<m>>
      BY <2>3, <2>4, Zenon
    <2>6. ASSUME NEW b \in Top, x = <<b>>
          PROVE  x \o <<m>> \in Kids(x)
      <3>1. x \o <<m>> = Append(x, m)
        BY <2>6
      <3>2. Append(x, m) = <<b, m>>
        BY <2>6, Pairs
      <3>3. <<b, m>> \in Kids(<<b>>)
        BY TopPath
      <3> QED
        BY <2>6, <3>1, <3>2, <3>3
    <2>7. ASSUME NEW b \in Top, NEW c \in Sub, x = <<b, c>>
          PROVE  x \o <<m>> \notin Paths
      <3>1. PICK z : z = x \o <<m>>
        OBVIOUS
      <3>2. Len(z) = 3
        BY <2>7, <3>1
      <3>3. ASSUME z \in Paths PROVE FALSE
        <4>1. Len(z) \in {1, 2}
          BY <3>3, PathSeq
        <4> QED
          BY <3>2, <4>1
      <3> QED
        BY <3>1, <3>3
    <2> QED
      BY <1>2, <2>5, <2>6, <2>7, PathShape
  <1>3. p \notin Family(q) /\ q \notin Family(p) /\ q \in Family(q) /\ p \in Family(p)
    BY DEF Family
  <1>4. \A x \in Kids(p) : x \notin Family(q) /\ x \in Family(p)
    BY KidFacts DEF Family
  <1>5. \A x \in Kids(q) : x \in Family(q)
    BY DEF Family
  <1> QED
    BY <1>1, <1>2, <1>3, <1>4, <1>5, Zenon DEF Trade

-----------------------------------------------------------------------------
(* Recursion.  F[i] maps one value of a recursive function to the next.       *)

Stays(S, a, n, F) == \A i \in a + 1 .. n : \A s \in S : F[i][s] \in S
IsRec(g, S, c, a, n, F) ==
  g \in [a .. n -> S] /\ g[a] = c /\ \A i \in a + 1 .. n : g[i] = F[i][g[i - 1]]

LEMMA RecExists ==
  ASSUME NEW S, NEW c, c \in S, NEW a \in Nat, NEW n \in Nat, a <= n, NEW F, Stays(S, a, n, F)
  PROVE  \E g : IsRec(g, S, c, a, n, F)
  <1> DEFINE P(m, g) == g[a] = c /\ \A i \in a + 1 .. m : g[i] = F[i][g[i - 1]]
             T == {m \in a .. n : ~\E g \in [a .. m -> S] : P(m, g)}
  <1>1. SUFFICES ASSUME T # {} PROVE FALSE
    <2>1. n \in a .. n
      OBVIOUS
    <2> QED
      BY <2>1 DEF IsRec
  <1>2. T \subseteq Nat
    OBVIOUS
  <1>3. PICK m \in T : \A y \in T : m <= y
    BY <1>1, <1>2, LeastNat
  <1>4. m \in a .. n /\ m \in Nat
    OBVIOUS
  <1>5. CASE m = a
    <2>1. PICK g : g = [i \in a .. a |-> c]
      OBVIOUS
    <2>2. g \in [a .. m -> S] /\ P(m, g)
      BY <1>5, <2>1
    <2> QED
      BY <2>2
  <1>6. CASE m # a
    <2>1. m - 1 \in a .. n /\ m - 1 \notin T
      BY <1>3, <1>4, <1>6
    <2>2. PICK g \in [a .. m - 1 -> S] : P(m - 1, g)
      BY <2>1
    <2>3. PICK h : h = [i \in a .. m |-> IF i = m THEN F[m][g[m - 1]] ELSE g[i]]
      OBVIOUS
    <2>4. g[m - 1] \in S /\ m \in a + 1 .. n
      BY <1>4, <1>6, <2>1
    <2>5. F[m][g[m - 1]] \in S
      BY <2>4 DEF Stays
    <2>6. h \in [a .. m -> S]
      <3>1. \A i \in a .. m : i # m => i \in a .. m - 1
        BY <1>4
      <3> QED
        BY <2>3, <2>5, <3>1
    <2>7. h[a] = c
      BY <1>4, <1>6, <2>2, <2>3
    <2>8. ASSUME NEW i \in a + 1 .. m PROVE h[i] = F[i][h[i - 1]]
      <3>1. i - 1 \in a .. m /\ i - 1 # m /\ i \in a .. m
        BY <1>4
      <3>2. h[i - 1] = g[i - 1]
        BY <2>3, <3>1
      <3>3. CASE i = m
        BY <2>3, <3>1, <3>2, <3>3
      <3>4. CASE i # m
        <4>1. i \in a + 1 .. m - 1
          BY <1>4, <3>4
        <4> QED
          BY <2>2, <2>3, <3>1, <3>2, <3>4, <4>1
      <3> QED
        BY <3>3, <3>4
    <2>9. P(m, h)
      BY <2>7, <2>8
    <2> QED
      BY <2>6, <2>9
  <1> QED
    BY <1>5, <1>6

LEMMA RecIn ==
  ASSUME NEW S, NEW a \in Nat, NEW n \in Nat, a <= n, NEW g, g[a] \in S,
         \A i \in a + 1 .. n : g[i - 1] \in S => g[i] \in S
  PROVE  \A i \in a .. n : g[i] \in S
  <1> DEFINE T == {m \in a .. n : g[m] \notin S}
  <1>1. SUFFICES ASSUME T # {} PROVE FALSE
    OBVIOUS
  <1>2. T \subseteq Nat
    OBVIOUS
  <1>3. PICK m \in T : \A y \in T : m <= y
    BY <1>1, <1>2, LeastNat
  <1>4. m \in a .. n /\ m # a /\ g[m] \notin S
    OBVIOUS
  <1>5. m \in a + 1 .. n /\ m - 1 \in a .. n /\ m - 1 \notin T
    BY <1>3, <1>4
  <1> QED
    BY <1>4, <1>5

-----------------------------------------------------------------------------
(* ovl_lookup. *)

\* A redirect is put between the components before and behind it.
LEMMA RedirectName ==
  ASSUME NEW r \in NameType, GoodName(r), r # <<>>,
         NEW pre \in NameType, NEW post \in NameType, Absolute(r) => pre = <<>>,
         NEW n, n = pre \o r \o post
  PROVE  n \in NameType /\ GoodName(n)
  <1> USE DEF NameType
  <1>1. n \in NameType /\ Len(n) = Len(pre) + Len(r) + Len(post)
    OBVIOUS
  <1>2. Len(r) > 0 /\ Len(r) \in Nat /\ Len(pre) \in Nat /\ Len(post) \in Nat
    OBVIOUS
  <1>3. CASE pre = <<>>
    <2>1. n # <<>> /\ Head(n) = Head(r)
      BY <1>2, <1>3
    <2> QED
      BY <1>1, <1>2, <1>3, <2>1 DEF GoodName, Absolute
  <1>4. CASE pre # <<>>
    BY <1>1, <1>2, <1>4 DEF GoodName
  <1> QED
    BY <1>1, <1>3, <1>4

LEMMA RedirectStep ==
  ASSUME NEW node \in NodeType, GoodName(node.redirect), NEW d \in GoodData,
         NEW pre \in NameType, NEW post \in NameType,
         NEW e, e = CheckRedirect(node, d, pre, post)
  PROVE  /\ e \in GoodData /\ e.isDir = d.isDir /\ e.opaque = d.opaque
         /\ e.redirected <=> d.redirected \/ node.redirect # NoRedirect
  <1>1. d \in DataType /\ GoodName(d.name) /\ node.redirect \in NameType
    BY DEF GoodData, NodeType
  <1>2. CASE node.redirect = NoRedirect
    BY <1>1, <1>2 DEF CheckRedirect, DataType
  <1>3. CASE node.redirect # NoRedirect
    <2>1. PICK b : b = (d.stop /\ ~Absolute(node.redirect))
      OBVIOUS
    <2>2. PICK f : f = IF Absolute(node.redirect) THEN <<>> ELSE pre
      OBVIOUS
    <2>3. PICK n : n = f \o node.redirect \o post
      OBVIOUS
    <2>4. f \in NameType /\ (Absolute(node.redirect) => f = <<>>)
      BY <2>2 DEF NameType
    <2>5. n \in NameType /\ GoodName(n)
      BY <1>1, <1>3, <2>3, <2>4, RedirectName DEF NoRedirect
    <2>6. b \in BOOLEAN
      BY <2>1
    <2>7. e = [d EXCEPT !.redirected = TRUE, !.stop = b, !.name = n]
      BY <1>3, <2>1, <2>2, <2>3 DEF CheckRedirect
    <2>8. e \in DataType
      BY <1>1, <2>5, <2>6, <2>7 DEF DataType
    <2>9. e.name = n /\ e.redirected = TRUE /\ e.isDir = d.isDir /\ e.opaque = d.opaque
      BY <1>1, <2>7 DEF DataType
    <2> QED
      BY <1>3, <2>5, <2>8, <2>9 DEF GoodData
  <1> QED
    BY <1>2, <1>3

\* What one component gives, in the four possible results.
LEMMA FoundRecord ==
  ASSUME NEW e \in GoodData, NEW a, a \in Paths \cup {Nowhere}, NEW r, r = [d |-> e, at |-> a]
  PROVE  r \in [d : GoodData, at : Paths \cup {Nowhere}] /\ r.d = e /\ r.at = a
  OBVIOUS

SingleFound(tree, post, d, r, at) ==
  /\ r.at # Nowhere => r.at = at /\ at \in Paths /\ tree[at].kind \in Objects
  /\ at \in Paths /\ tree[at].kind = "dir" => r.at = at
  /\ at \in Paths /\ tree[at].kind = "file" /\ ~d.isDir /\ post = <<>> => r.at = at
  /\ r.d.redirected /\ ~d.redirected => at \in Paths /\ tree[at].kind = "dir"

LEMMA SingleStep ==
  ASSUME NEW tree, LayerOk(tree), NEW last \in BOOLEAN, NEW base, NEW name,
         NEW pre \in NameType, NEW post \in NameType, NEW d \in GoodData,
         NEW r, r = LookupSingle(tree, last, base, name, pre, post, d),
         NEW at, at = Append(base, name)
  PROVE  r \in [d : GoodData, at : Paths \cup {Nowhere}] /\ SingleFound(tree, post, d, r, at)
  <1> DEFINE Goal == /\ r \in [d : GoodData, at : Paths \cup {Nowhere}]
                     /\ SingleFound(tree, post, d, r, at)
  <1> USE DEF SingleFound
  <1>1. PICK node : node = IF at \in Paths THEN tree[at] ELSE NoNode
    OBVIOUS
  <1>2. /\ node \in NodeType /\ GoodName(node.redirect)
        /\ node.kind # "no" => at \in Paths /\ node = tree[at]
        /\ at \in Paths => node = tree[at]
    BY <1>1 DEF LayerOk, NoNode, Node, NodeType, NoRedirect, NameType, GoodName, Absolute, NoId
  <1>3. /\ node.kind \in {"no", "whiteout", "file", "dir"} /\ node.opaque \in BOOLEAN
        /\ d \in DataType /\ GoodName(d.name)
        /\ d.isDir \in BOOLEAN /\ d.opaque \in BOOLEAN
    BY <1>2 DEF NodeType, GoodData, DataType
  <1>4. PICK end : end = (post = <<>>)
    OBVIOUS
  <1>5. PICK b : b = (d.isDir \/ end)
    OBVIOUS
  <1>6. PICK seen : seen = [d EXCEPT !.isDir = b]
    OBVIOUS
  <1>7. end \in BOOLEAN /\ b \in BOOLEAN
    BY <1>3, <1>4, <1>5
  <1>8. seen \in GoodData /\ seen.redirected = d.redirected /\ seen.opaque = d.opaque
    BY <1>3, <1>6, <1>7 DEF GoodData, DataType
  <1>9. r = CASE node.kind = "no" -> [d |-> d, at |-> Nowhere]
              [] node.kind = "whiteout" ->
                   [d |-> [d EXCEPT !.stop = TRUE, !.opaque = TRUE], at |-> Nowhere]
              [] node.kind = "file" ->
                   [d |-> [d EXCEPT !.stop = TRUE],
                    at |-> IF d.isDir \/ ~end THEN Nowhere ELSE at]
              [] node.kind = "dir" /\ last -> [d |-> seen, at |-> at]
              [] node.kind = "dir" /\ ~last /\ node.opaque ->
                   [d |-> [seen EXCEPT !.stop = TRUE, !.opaque = @ \/ end], at |-> at]
              [] node.kind = "dir" /\ ~last /\ ~node.opaque ->
                   [d |-> CheckRedirect(node, seen, pre, post), at |-> at]
    BY <1>1, <1>4, <1>5, <1>6 DEF LookupSingle
  <1>10. Nowhere \in Paths \cup {Nowhere}
    OBVIOUS
  <1>11. CASE node.kind = "no"
    <2>1. r = [d |-> d, at |-> Nowhere]
      BY <1>9, <1>11
    <2>2. r \in [d : GoodData, at : Paths \cup {Nowhere}] /\ r.d = d /\ r.at = Nowhere
      BY <1>10, <2>1, FoundRecord
    <2> QED
      BY <1>2, <1>11, <2>2, Zenon
  <1>12. CASE node.kind = "whiteout"
    <2>1. PICK e : e = [d EXCEPT !.stop = TRUE, !.opaque = TRUE]
      OBVIOUS
    <2>2. e \in DataType /\ e.redirected = d.redirected /\ e.name = d.name
      BY <1>3, <2>1 DEF DataType
    <2>3. e \in GoodData
      BY <1>3, <2>2 DEF GoodData
    <2>4. r = [d |-> e, at |-> Nowhere]
      BY <1>9, <1>12, <2>1
    <2>5. r \in [d : GoodData, at : Paths \cup {Nowhere}] /\ r.d = e /\ r.at = Nowhere
      BY <1>10, <2>3, <2>4, FoundRecord
    <2> QED
      BY <1>2, <1>12, <2>2, <2>5, Zenon
  <1>13. CASE node.kind = "file"
    <2>1. PICK e : e = [d EXCEPT !.stop = TRUE]
      OBVIOUS
    <2>2. e \in GoodData /\ e.redirected = d.redirected
      BY <1>3, <2>1 DEF GoodData, DataType
    <2>3. PICK a : a = IF d.isDir \/ ~end THEN Nowhere ELSE at
      OBVIOUS
    <2>4. r = [d |-> e, at |-> a]
      BY <1>9, <1>13, <2>1, <2>3
    <2>5. at \in Paths /\ tree[at].kind = "file" /\ "file" \in Objects
      BY <1>2, <1>13 DEF Objects
    <2>6. a \in Paths \cup {Nowhere} /\ (a # Nowhere => a = at)
      BY <2>3, <2>5
    <2>7. r \in [d : GoodData, at : Paths \cup {Nowhere}] /\ r.d = e /\ r.at = a
      BY <2>2, <2>4, <2>6, FoundRecord
    <2>8. ~d.isDir /\ post = <<>> => a = at
      BY <1>4, <2>3
    <2> QED
      BY <2>2, <2>5, <2>6, <2>7, <2>8
  <1>14. ASSUME NEW e \in GoodData, node.kind = "dir", r = [d |-> e, at |-> at] PROVE Goal
    <2>1. at \in Paths /\ tree[at].kind = "dir" /\ "dir" \in Objects
      BY <1>2, <1>14 DEF Objects
    <2>2. r \in [d : GoodData, at : Paths \cup {Nowhere}] /\ r.d = e /\ r.at = at
      BY <1>14, <2>1, FoundRecord
    <2> QED
      BY <2>1, <2>2, Zenon
  <1>15. CASE node.kind = "dir" /\ last
    <2>1. r = [d |-> seen, at |-> at]
      BY <1>9, <1>15
    <2> QED
      BY <1>8, <1>14, <1>15, <2>1
  <1>16. CASE node.kind = "dir" /\ ~last /\ node.opaque
    <2>1. PICK o : o = (seen.opaque \/ end)
      OBVIOUS
    <2>2. PICK e : e = [seen EXCEPT !.stop = TRUE, !.opaque = o]
      OBVIOUS
    <2>3. r = [d |-> e, at |-> at]
      BY <1>9, <1>16, <2>1, <2>2
    <2>4. o \in BOOLEAN /\ seen \in DataType /\ GoodName(seen.name)
      BY <1>8, <2>1 DEF GoodData
    <2>5. e \in DataType /\ e.name = seen.name
      BY <2>2, <2>4 DEF DataType
    <2>6. e \in GoodData
      BY <2>4, <2>5 DEF GoodData
    <2> QED
      BY <1>14, <1>16, <2>3, <2>6
  <1>17. CASE node.kind = "dir" /\ ~last /\ ~node.opaque
    <2>1. PICK e : e = CheckRedirect(node, seen, pre, post)
      OBVIOUS
    <2>2. r = [d |-> e, at |-> at]
      BY <1>9, <1>17, <2>1
    <2>3. e \in GoodData
      BY <1>2, <1>8, <2>1, RedirectStep
    <2> QED
      BY <1>14, <1>17, <2>2, <2>3
  <1> QED
    BY <1>3, <1>11, <1>12, <1>13, <1>15, <1>16, <1>17

LEMMA PartOfName ==
  ASSUME NEW n \in NameType, NEW i \in Nat, i > 0, NEW j \in Int, j <= Len(n)
  PROVE  SubSeq(n, i, j) \in NameType
  <1>1. \A k \in i .. j : n[k] \in Top \cup Sub \cup {"/"}
    BY DEF NameType
  <1> QED
    BY <1>1, SubSeqProperties DEF NameType

WalkType == [d : GoodData, at : Paths \cup {<<>>, Nowhere}]

LEMMA WalkStepIn ==
  ASSUME NEW tree, LayerOk(tree), NEW last \in BOOLEAN, NEW name \in NameType,
         NEW i \in 2 .. Len(name), NEW s \in WalkType,
         NEW r, r = WalkStep(tree, last, name, s, i)
  PROVE  r \in WalkType /\ r.at \in Paths \cup {Nowhere}
  <1>1. s.d \in GoodData /\ s.d.name \in NameType /\ Len(name) \in Nat
    BY DEF WalkType, GoodData, DataType, NameType
  <1>2. CASE s.at = Nowhere
    BY <1>2 DEF WalkStep
  <1>3. CASE s.at # Nowhere
    <2>1. PICK post : post = SubSeq(name, i + 1, Len(name))
      OBVIOUS
    <2>2. post \in NameType
      BY <1>1, <2>1, PartOfName
    <2>3. PICK pre : pre = SubSeq(s.d.name, 1, Len(s.d.name) - Len(post) - 1)
      OBVIOUS
    <2>4. pre \in NameType
      <3>1. Len(s.d.name) \in Nat /\ Len(post) \in Nat
        BY <1>1, <2>2 DEF NameType
      <3>2. /\ Len(s.d.name) - Len(post) - 1 \in Int
            /\ Len(s.d.name) - Len(post) - 1 <= Len(s.d.name)
        BY <3>1
      <3> QED
        BY <1>1, <2>3, <3>2, PartOfName
    <2>5. PICK at : at = Append(s.at, name[i])
      OBVIOUS
    <2>6. PICK d, base, n : d = s.d /\ base = s.at /\ n = name[i]
      OBVIOUS
    <2>7. r = LookupSingle(tree, last, base, n, pre, post, d) /\ at = Append(base, n)
      BY <1>3, <2>1, <2>3, <2>5, <2>6 DEF WalkStep
    <2>8. d \in GoodData
      BY <1>1, <2>6
    <2>9. r \in [d : GoodData, at : Paths \cup {Nowhere}]
      BY <2>2, <2>4, <2>7, <2>8, SingleStep
    <2> QED
      BY <2>9 DEF WalkType
  <1> QED
    BY <1>2, <1>3

\* The recursive function of ovl_lookup_layer is what its definition says.
LEMMA LayerUnfold ==
  ASSUME NEW tree, LayerOk(tree), NEW last \in BOOLEAN, NEW base, NEW d \in GoodData,
         Absolute(d.name)
  PROVE  \E w : /\ w[1] = [d |-> d, at |-> <<>>]
                /\ \A i \in 1 + 1 .. Len(d.name) :
                     w[i] = WalkStep(tree, last, d.name, w[i - 1], i)
                /\ LookupLayer(tree, last, base, d) = w[Len(d.name)]
  <1> DEFINE Rec(w) == [i \in 1 .. Len(d.name) |->
                         IF i = 1 THEN [d |-> d, at |-> <<>>]
                         ELSE With(w[i - 1], LAMBDA s : WalkStep(tree, last, d.name, s, i))]
  <1>0. PICK n : n = Len(d.name)
    OBVIOUS
  <1>1. /\ n \in Nat /\ n > 1 /\ 1 <= n /\ d.name \in NameType
    BY <1>0 DEF GoodData, DataType, NameType, GoodName
  <1>2. PICK c : c = [d |-> d, at |-> <<>>]
    OBVIOUS
  <1>3. PICK F : F = [i \in 2 .. n |-> [s \in WalkType |-> WalkStep(tree, last, d.name, s, i)]]
    OBVIOUS
  <1>4. c \in WalkType
    BY <1>2 DEF WalkType
  <1>5. ASSUME NEW i \in 1 + 1 .. n, NEW s \in WalkType
        PROVE  F[i][s] = WalkStep(tree, last, d.name, s, i) /\ F[i][s] \in WalkType
    <2>1. i \in 2 .. n
      BY <1>1
    <2>2. F[i][s] = WalkStep(tree, last, d.name, s, i)
      BY <1>3, <2>1
    <2>3. WalkStep(tree, last, d.name, s, i) \in WalkType
      BY <1>0, <1>1, <2>1, WalkStepIn
    <2> QED
      BY <2>2, <2>3
  <1>a. \A i \in 1 + 1 .. n : \A s \in WalkType : F[i][s] \in WalkType
    BY <1>5
  <1>b. PICK a : a = 1
    OBVIOUS
  <1>c. a \in Nat /\ a <= n /\ \A i \in a + 1 .. n : \A s \in WalkType : F[i][s] \in WalkType
    BY <1>1, <1>a, <1>b
  <1>d. \E g \in [a .. n -> WalkType] : g[a] = c /\ \A i \in a + 1 .. n : g[i] = F[i][g[i - 1]]
    <2>1. Stays(WalkType, a, n, F)
      BY <1>c DEF Stays
    <2>2. \E g : IsRec(g, WalkType, c, a, n, F)
      BY <1>1, <1>4, <1>c, <2>1, RecExists
    <2> QED
      BY <2>2 DEF IsRec
  <1>6. PICK g \in [1 .. n -> WalkType] : g[1] = c /\ \A i \in 1 + 1 .. n : g[i] = F[i][g[i - 1]]
    BY <1>b, <1>d
  <1>7. \A w, i : With(w[i - 1], LAMBDA s : WalkStep(tree, last, d.name, s, i))
                  = WalkStep(tree, last, d.name, w[i - 1], i)
    BY DEF With
  <1>8. ASSUME NEW i \in 1 .. n, i # 1
        PROVE  g[i] = With(g[i - 1], LAMBDA s : WalkStep(tree, last, d.name, s, i))
    <2>1. i \in 1 + 1 .. n /\ g[i - 1] \in WalkType
      BY <1>1, <1>8
    <2>2. g[i] = F[i][g[i - 1]]
      BY <1>6, <2>1
    <2>3. F[i][g[i - 1]] = WalkStep(tree, last, d.name, g[i - 1], i)
      BY <1>5, <2>1
    <2> QED
      BY <1>7, <2>2, <2>3, Zenon
  <1>9. g = Rec(g)
    BY <1>0, <1>2, <1>6, <1>8
  <1>10. PICK w : w = CHOOSE x : x = Rec(x)
    OBVIOUS
  <1>11. w = Rec(w)
    BY <1>9, <1>10, Zenon
  <1>12. LookupLayer(tree, last, base, d) = w[Len(d.name)]
    BY <1>10 DEF LookupLayer
  <1>13. w[1] = [d |-> d, at |-> <<>>]
    BY <1>0, <1>1, <1>11
  <1>14. ASSUME NEW i \in 1 + 1 .. Len(d.name)
         PROVE  w[i] = WalkStep(tree, last, d.name, w[i - 1], i)
    <2>1. i \in 1 .. Len(d.name) /\ i # 1
      BY <1>0, <1>1
    <2>2. w[i] = With(w[i - 1], LAMBDA s : WalkStep(tree, last, d.name, s, i))
      BY <1>11, <2>1
    <2> QED
      BY <1>7, <2>2
  <1> QED
    BY <1>12, <1>13, <1>14

LEMMA LayerStep ==
  ASSUME NEW tree, LayerOk(tree), NEW last \in BOOLEAN, NEW base, NEW d \in GoodData,
         NEW r, r = LookupLayer(tree, last, base, d)
  PROVE  r \in [d : GoodData, at : Paths \cup {Nowhere}]
  <1>1. CASE ~Absolute(d.name)
    <2>1. PICK n, at, e : n = d.name[1] /\ at = Append(base, n) /\ e = <<>>
      OBVIOUS
    <2>2. e \in NameType
      BY <2>1 DEF NameType
    <2>3. r = LookupSingle(tree, last, base, n, e, e, d)
      BY <1>1, <2>1 DEF LookupLayer
    <2> QED
      BY <2>1, <2>2, <2>3, SingleStep
  <1>2. CASE Absolute(d.name)
    <2>1. PICK w : /\ w[1] = [d |-> d, at |-> <<>>]
                   /\ \A i \in 1 + 1 .. Len(d.name) :
                        w[i] = WalkStep(tree, last, d.name, w[i - 1], i)
                   /\ LookupLayer(tree, last, base, d) = w[Len(d.name)]
      BY <1>2, LayerUnfold
    <2>2. PICK n, a : n = Len(d.name) /\ a = 1
      OBVIOUS
    <2>3. n \in Nat /\ n > 1 /\ a <= n /\ a \in Nat /\ d.name \in NameType
      BY <1>2, <2>2 DEF GoodData, DataType, NameType, GoodName
    <2>4. w[a] \in WalkType
      BY <2>1, <2>2 DEF WalkType
    <2>5. ASSUME NEW i \in a + 1 .. n, w[i - 1] \in WalkType
          PROVE  w[i] \in WalkType /\ w[i].at \in Paths \cup {Nowhere}
      <3>1. i \in 2 .. Len(d.name) /\ i \in 1 + 1 .. Len(d.name)
        BY <2>2, <2>3
      <3>2. PICK s, x, name : s = w[i - 1] /\ x = w[i] /\ name = d.name
        OBVIOUS
      <3>3. x = WalkStep(tree, last, name, s, i)
        BY <2>1, <3>1, <3>2
      <3>4. x \in WalkType /\ x.at \in Paths \cup {Nowhere}
        BY <2>3, <2>5, <3>1, <3>2, <3>3, WalkStepIn
      <3> QED
        BY <3>2, <3>4
    <2>6. \A i \in a .. n : w[i] \in WalkType
      <3>1. \A i \in a + 1 .. n : w[i - 1] \in WalkType => w[i] \in WalkType
        BY <2>5
      <3> QED
        BY <2>3, <2>4, <3>1, RecIn
    <2>7. n \in a + 1 .. n /\ n - 1 \in a .. n
      BY <2>2, <2>3
    <2>8. w[n] \in WalkType /\ w[n].at \in Paths \cup {Nowhere}
      BY <2>5, <2>6, <2>7
    <2>9. r = w[n]
      BY <2>1, <2>2
    <2> QED
      BY <2>8, <2>9 DEF WalkType
  <1> QED
    BY <1>1, <1>2

LEMMA NowhereFact == Nowhere \notin Paths /\ NoRedirect \in NameType /\ GoodName(NoRedirect)
  <1>1. ASSUME Nowhere \in Paths PROVE FALSE
    <2>1. ASSUME NEW n \in Top, NEW m \in Sub, <<"">> = <<n, m>> PROVE FALSE
      <3>1. Len(<<"">>) = 1 /\ Len(<<n, m>>) = 2
        OBVIOUS
      <3> QED
        BY <2>1, <3>1
    <2>2. PICK n \in Top : <<"">> = <<n>>
      BY <1>1, <2>1, PathShape DEF Nowhere
    <2>3. n = ""
      BY <2>2
    <2> QED
      BY <2>3, LookupAssumption
  <1> QED
    BY <1>1 DEF NoRedirect, NameType, GoodName, Absolute

\* The upper layer: it is found where the parent has an upper directory and there is an object.
LEMMA UpperFound ==
  ASSUME NEW tree, LayerOk(tree), NEW parent, NEW p \in Paths, NEW u,
         u = LookupUpper(tree, parent, p), parent.upper \in BOOLEAN,
         config.redirect_follow \in BOOLEAN
  PROVE  /\ u.d \in GoodData
         /\ u.at # Nowhere <=> parent.upper /\ tree[p].kind \in Objects
         /\ u.d.redirected => parent.upper /\ tree[p].kind = "dir"
  <1>1. PICK d : d = LookupData(<<Last(p)>>)
    OBVIOUS
  <1>2. Last(p) \in Top \cup Sub /\ Append(Parent(p), Last(p)) = p
    BY PathFacts
  <1>3. /\ d \in GoodData /\ d.name = <<Last(p)>> /\ ~Absolute(d.name) /\ d.name[1] = Last(p)
        /\ d.isDir = FALSE /\ d.redirected = FALSE
    <2>1. Last(p) # "/"
      BY <1>2, LookupAssumption
    <2>2. d.name = <<Last(p)>> /\ d.isDir = FALSE /\ d.redirected = FALSE /\ d \in DataType
      BY <1>1, <1>2 DEF LookupData, DataType, NameType
    <2> QED
      BY <2>1, <2>2 DEF Absolute, GoodData, GoodName
  <1>4. CASE ~parent.upper
    BY <1>1, <1>3, <1>4 DEF LookupUpper
  <1>5. CASE parent.upper
    <2>1. PICK last, e, n, base : /\ last = (~config.redirect_follow /\ parent.lower = <<>>)
                                  /\ e = <<>> /\ n = Last(p) /\ base = Parent(p)
      OBVIOUS
    <2>2. last \in BOOLEAN /\ e \in NameType
      BY <2>1 DEF NameType
    <2>3. u = LookupLayer(tree, last, base, d)
      BY <1>1, <1>5, <2>1 DEF LookupUpper
    <2>4. u = LookupSingle(tree, last, base, n, e, e, d)
      BY <1>3, <2>1, <2>3 DEF LookupLayer
    <2>5. p = Append(base, n)
      BY <1>2, <2>1
    <2>a. d \in GoodData
      BY <1>3
    <2>b. u \in [d : GoodData, at : Paths \cup {Nowhere}] /\ SingleFound(tree, e, d, u, p)
      BY <2>2, <2>4, <2>5, <2>a, SingleStep
    <2>6. /\ u \in [d : GoodData, at : Paths \cup {Nowhere}]
          /\ u.at # Nowhere => u.at = p /\ tree[p].kind \in Objects
          /\ tree[p].kind = "dir" => u.at = p
          /\ tree[p].kind = "file" /\ ~d.isDir /\ e = <<>> => u.at = p
          /\ u.d.redirected /\ ~d.redirected => tree[p].kind = "dir"
      BY <2>b, Zenon DEF SingleFound
    <2>7. u.d \in GoodData
      BY <2>6
    <2>8. p # Nowhere /\ (tree[p].kind \in Objects <=> tree[p].kind = "file" \/ tree[p].kind = "dir")
      BY NowhereFact DEF Objects
    <2> QED
      BY <1>3, <1>5, <2>1, <2>6, <2>7, <2>8, Zenon
  <1> QED
    BY <1>4, <1>5

StackType == Seq([layer : 1 .. Len(lower), path : Paths])
SearchType == [d : GoodData, stack : StackType, refused : BOOLEAN]

LayersOk == lower \in Seq([Paths -> NodeType]) /\ \A l \in 1 .. Len(lower) : LayerOk(lower[l])

LEMMA MountFacts ==
  ASSUME <<config, lower>> \in Mounts
  PROVE  LayersOk /\ config.redirect_follow \in BOOLEAN /\ config.redirect_dir \in BOOLEAN
  <1>1. PICK m : m = <<config, lower>>
    OBVIOUS
  <1>2. /\ m \in Mounts /\ m[1] = config /\ m[2] = lower
        /\ m \in [redirect_dir : BOOLEAN, redirect_follow : BOOLEAN] \X Seq([Paths -> NodeType])
    BY <1>1, DirOpsAssumption
  <1>3. /\ config \in [redirect_dir : BOOLEAN, redirect_follow : BOOLEAN]
        /\ lower \in Seq([Paths -> NodeType])
    BY <1>1, <1>2
  <1>4. \A l \in DOMAIN lower, p \in Paths :
          Absolute(lower[l][p].redirect) => Len(lower[l][p].redirect) > 1
    BY <1>2, DirOpsAssumption
  <1>5. DOMAIN lower = 1 .. Len(lower) /\ \A l \in 1 .. Len(lower) : lower[l] \in [Paths -> NodeType]
    BY <1>3
  <1>6. \A l \in 1 .. Len(lower) : LayerOk(lower[l])
    BY <1>4, <1>5 DEF LayerOk, GoodName
  <1> QED
    BY <1>3, <1>6 DEF LayersOk

LEMMA LowerStep ==
  ASSUME LayersOk, config.redirect_follow \in BOOLEAN, NEW parent, NEW s \in SearchType,
         NEW l \in 1 .. Len(lower), NEW r, r = LookupLower(lower, parent, s, l)
  PROVE  r \in SearchType
  <1>1. s.d \in GoodData /\ s.stack \in StackType /\ s.refused \in BOOLEAN
    BY DEF SearchType
  <1>2. PICK bases : bases = SelectSeq(parent.lower, LAMBDA x : x.layer = l)
    OBVIOUS
  <1>3. PICK last : last = IF config.redirect_follow THEN l = Len(lower)
                           ELSE l = parent.lower[Len(parent.lower)].layer
    OBVIOUS
  <1>4. PICK base : base = IF Absolute(s.d.name) THEN <<>> ELSE bases[1].path
    OBVIOUS
  <1>5. PICK d, tree : d = s.d /\ tree = lower[l]
    OBVIOUS
  <1>6. PICK f : f = LookupLayer(tree, last, base, d)
    OBVIOUS
  <1>7. f \in [d : GoodData, at : Paths \cup {Nowhere}]
    <2>1. last \in BOOLEAN
      BY <1>3
    <2>2. LayerOk(tree)
      BY <1>5 DEF LayersOk
    <2>3. d \in GoodData
      BY <1>1, <1>5
    <2> QED
      BY <1>6, <2>1, <2>2, <2>3, LayerStep
  <1>8. CASE s.d.stop \/ s.refused \/ (bases = <<>> /\ ~Absolute(s.d.name))
    <2>1. r = s
      BY <1>2, <1>8 DEF LookupLower
    <2> QED
      BY <2>1
  <1>9. CASE ~(s.d.stop \/ s.refused \/ (bases = <<>> /\ ~Absolute(s.d.name)))
    <2> DEFINE Found(v) ==
          IF v.at = Nowhere THEN [s EXCEPT !.d = v.d]
          ELSE [d |-> v.d, stack |-> Append(s.stack, [layer |-> l, path |-> v.at]),
                refused |-> v.d.redirected /\ ~config.redirect_follow]
    <2>1. r = With(LookupLayer(lower[l], last, base, s.d), Found)
      BY <1>2, <1>3, <1>4, <1>9 DEF LookupLower
    <2>2. r = Found(f)
      BY <1>5, <1>6, <2>1 DEF With
    <2>3. CASE f.at = Nowhere
      <3>1. PICK g : g = f.d
        OBVIOUS
      <3>2. r = [s EXCEPT !.d = g] /\ g \in GoodData
        BY <1>7, <2>2, <2>3, <3>1
      <3> QED
        BY <3>2 DEF SearchType
    <2>4. CASE f.at # Nowhere
      <3>1. PICK x, b : x = [layer |-> l, path |-> f.at] /\ b = (f.d.redirected /\ ~config.redirect_follow)
        OBVIOUS
      <3>2. PICK t : t = Append(s.stack, x)
        OBVIOUS
      <3>3. r = [d |-> f.d, stack |-> t, refused |-> b]
        BY <2>2, <2>4, <3>1, <3>2
      <3>4. x \in [layer : 1 .. Len(lower), path : Paths] /\ b \in BOOLEAN /\ f.d \in GoodData
        BY <1>7, <2>4, <3>1
      <3>5. t \in StackType
        BY <1>1, <3>2, <3>4 DEF StackType
      <3> QED
        BY <3>3, <3>4, <3>5 DEF SearchType
    <2> QED
      BY <2>3, <2>4
  <1> QED
    BY <1>8, <1>9

\* The loop over the lower layers ends with layers and paths that there are.
LEMMA StackFound ==
  ASSUME LayersOk, config.redirect_follow \in BOOLEAN, NEW parent, NEW d \in GoodData,
         NEW r, r = LookupStack(lower, parent, d)
  PROVE  r \in SearchType
  <1> DEFINE Rec(w) == [l \in 0 .. Len(lower) |->
                         IF l = 0 THEN [d |-> d, stack |-> <<>>, refused |-> FALSE]
                         ELSE With(w[l - 1], LAMBDA s : LookupLower(lower, parent, s, l))]
  <1>0. PICK n, a : n = Len(lower) /\ a = 0
    OBVIOUS
  <1>1. n \in Nat /\ a \in Nat /\ a <= n
    BY <1>0 DEF LayersOk
  <1>2. PICK c : c = [d |-> d, stack |-> <<>>, refused |-> FALSE]
    OBVIOUS
  <1>3. PICK F : F = [l \in 1 .. n |-> [s \in SearchType |-> LookupLower(lower, parent, s, l)]]
    OBVIOUS
  <1>4. c \in SearchType
    <2>1. <<>> \in StackType
      BY DEF StackType
    <2> QED
      BY <1>2, <2>1 DEF SearchType
  <1>5. ASSUME NEW l \in a + 1 .. n, NEW s \in SearchType
        PROVE  F[l][s] = LookupLower(lower, parent, s, l) /\ F[l][s] \in SearchType
    <2>1. l \in 1 .. n
      BY <1>0, <1>1
    <2>2. PICK x : x = LookupLower(lower, parent, s, l)
      OBVIOUS
    <2>3. x \in SearchType
      BY <1>0, <2>1, <2>2, LowerStep
    <2> QED
      BY <1>3, <2>1, <2>2, <2>3
  <1>6. PICK g : IsRec(g, SearchType, c, a, n, F)
    <2>1. Stays(SearchType, a, n, F)
      BY <1>5 DEF Stays
    <2> QED
      BY <1>1, <1>4, <2>1, RecExists
  <1>7. \A w, l : With(w[l - 1], LAMBDA s : LookupLower(lower, parent, s, l))
                  = LookupLower(lower, parent, w[l - 1], l)
    BY DEF With
  <1>8. g \in [a .. n -> SearchType] /\ g[a] = c /\ \A l \in a + 1 .. n : g[l] = F[l][g[l - 1]]
    BY <1>6 DEF IsRec
  <1>9. ASSUME NEW l \in 0 .. n, l # 0
        PROVE  g[l] = With(g[l - 1], LAMBDA s : LookupLower(lower, parent, s, l))
    <2>1. l \in a + 1 .. n /\ g[l - 1] \in SearchType
      BY <1>0, <1>1, <1>8, <1>9
    <2>2. g[l] = F[l][g[l - 1]]
      BY <1>8, <2>1
    <2>3. F[l][g[l - 1]] = LookupLower(lower, parent, g[l - 1], l)
      BY <1>5, <2>1
    <2> QED
      BY <1>7, <2>2, <2>3, Zenon
  <1>10. g = Rec(g)
    BY <1>0, <1>2, <1>8, <1>9
  <1>11. PICK w : w = CHOOSE x : x = Rec(x)
    OBVIOUS
  <1>12. w = Rec(w)
    BY <1>10, <1>11, Zenon
  <1>13. r = w[n]
    BY <1>0, <1>11 DEF LookupStack
  <1>14. w[a] \in SearchType
    BY <1>0, <1>1, <1>2, <1>4, <1>12
  <1>15. ASSUME NEW l \in a + 1 .. n, w[l - 1] \in SearchType PROVE w[l] \in SearchType
    <2>1. l \in 0 .. Len(lower) /\ l # 0
      BY <1>0, <1>1
    <2>2. w[l] = With(w[l - 1], LAMBDA s : LookupLower(lower, parent, s, l))
      BY <1>12, <2>1
    <2>3. w[l] = LookupLower(lower, parent, w[l - 1], l)
      BY <1>7, <2>2
    <2> QED
      BY <1>5, <1>15, <2>3
  <1>16. \A l \in a .. n : w[l] \in SearchType
    BY <1>1, <1>14, <1>15, RecIn
  <1>17. n \in a .. n
    BY <1>1
  <1> QED
    BY <1>13, <1>16, <1>17

\* What a lookup returns.
LEMMA LookupFacts ==
  ASSUME <<config, lower>> \in Mounts, LayerOk(up), NEW parent, parent.upper \in BOOLEAN,
         NEW p \in Paths, NEW e, e = Lookup(up, lower, parent, p)
  PROVE  /\ EntryInv(e) /\ (e.dir => e.hashed)
         /\ e.hashed => /\ e.upper <=> parent.upper /\ up[p].kind \in Objects
                        /\ e.upper => (e.dir <=> up[p].kind = "dir")
  <1>1. LayersOk /\ config.redirect_follow \in BOOLEAN
    BY MountFacts
  <1>2. PICK u : u = LookupUpper(up, parent, p)
    OBVIOUS
  <1>3. /\ u.d \in GoodData
        /\ u.at # Nowhere <=> parent.upper /\ up[p].kind \in Objects
        /\ u.d.redirected => parent.upper /\ up[p].kind = "dir"
    BY <1>1, <1>2, UpperFound
  <1>4. PICK d : d = u.d
    OBVIOUS
  <1>5. PICK all : all = LookupStack(lower, parent, d)
    OBVIOUS
  <1>6. all \in SearchType
    BY <1>1, <1>3, <1>4, <1>5, StackFound
  <1>7. e = LookupDone(up, lower, p, u, all)
    <2>1. \A x : With(LookupStack(lower, parent, x.d), LAMBDA y : LookupDone(up, lower, p, x, y))
                 = LookupDone(up, lower, p, x, LookupStack(lower, parent, x.d))
      BY DEF With
    <2>2. e = With(LookupStack(lower, parent, u.d), LAMBDA y : LookupDone(up, lower, p, u, y))
      BY <1>2 DEF Lookup, With
    <2> QED
      BY <1>4, <1>5, <2>1, <2>2, Zenon
  <1>8. CASE all.refused
    <2>1. e = NoEntry
      BY <1>7, <1>8 DEF LookupDone
    <2> QED
      BY <2>1, NowhereFact DEF NoEntry, EntryInv, EntryFields, NoId
  <1>9. CASE ~all.refused
    <2>1. PICK inUpper, low : inUpper = (u.at # Nowhere) /\ low = all.stack
      OBVIOUS
    <2>2. PICK real : real = IF inUpper THEN up[p]
                             ELSE IF low # <<>> THEN lower[low[1].layer][low[1].path] ELSE NoNode
      OBVIOUS
    <2>3. low \in StackType
      BY <1>6, <2>1 DEF SearchType
    <2>4. real \in NodeType /\ (real.kind = "dir" => inUpper \/ low # <<>>)
      <3>1. CASE inUpper
        BY <2>2, <3>1 DEF LayerOk
      <3>2. CASE ~inUpper /\ low # <<>>
        <4>0. PICK T : T = [layer : 1 .. Len(lower), path : Paths]
          OBVIOUS
        <4>a. low \in Seq(T) /\ low # <<>>
          BY <2>3, <3>2, <4>0 DEF StackType
        <4>b. low[1] \in T
          BY <4>a
        <4>1. low[1] \in [layer : 1 .. Len(lower), path : Paths]
          BY <4>0, <4>b
        <4>2. lower[low[1].layer] \in [Paths -> NodeType] /\ low[1].path \in Paths
          BY <1>1, <4>1 DEF LayersOk, LayerOk
        <4> QED
          BY <2>2, <3>2, <4>2
      <3>3. CASE ~inUpper /\ low = <<>>
        <4>1. real = NoNode
          BY <2>2, <3>3
        <4> QED
          BY <4>1, NowhereFact DEF NoNode, Node, NodeType, NoId
      <3> QED
        BY <3>1, <3>2, <3>3
    <2>5. PICK pos, dir : pos = (inUpper \/ low # <<>>) /\ dir = (real.kind = "dir")
      OBVIOUS
    <2>6. PICK red : red = IF u.d.redirected THEN u.d.name ELSE NoRedirect
      OBVIOUS
    <2>7. PICK wh : wh = (dir /\ ((inUpper /\ low # <<>>) \/ Len(low) > 1 \/ real.origin))
      OBVIOUS
    <2>8. e = [positive |-> pos, dir |-> dir, upper |-> inUpper,
               lower |-> low, opaque |-> u.d.opaque, redirect |-> red,
               whiteouts |-> wh, hashed |-> TRUE, id |-> real.id]
      BY <1>7, <1>9, <2>1, <2>2, <2>5, <2>6, <2>7 DEF LookupDone
    <2>9. /\ DOMAIN e = EntryFields /\ e.positive = pos /\ e.dir = dir /\ e.upper = inUpper
          /\ e.opaque = u.d.opaque /\ e.redirect = red /\ e.hashed = TRUE /\ e.id = real.id
      BY <2>8 DEF EntryFields
    <2>10. red \in NameType /\ GoodName(red) /\ u.d.opaque \in BOOLEAN
      BY <1>3, <2>6, NowhereFact DEF GoodData, DataType
    <2>11. real.id \in Nat /\ pos \in BOOLEAN /\ dir \in BOOLEAN /\ inUpper \in BOOLEAN
      BY <2>1, <2>4, <2>5 DEF NodeType
    <2>12. inUpper <=> parent.upper /\ up[p].kind \in Objects
      BY <1>3, <2>1, Zenon
    <2>13. inUpper => (dir <=> up[p].kind = "dir")
      BY <2>2, <2>5, Zenon
    <2>14. red = NoRedirect \/ dir
      <3>1. u.d.redirected => inUpper /\ up[p].kind = "dir"
        BY <1>3, <2>12 DEF Objects
      <3> QED
        BY <2>6, <2>13, <3>1, Zenon
    <2>15. dir \/ inUpper => pos
      BY <2>4, <2>5, Zenon
    <2>16. EntryInv(e)
      BY <2>9, <2>10, <2>11, <2>14, <2>15 DEF EntryInv
    <2> QED
      BY <2>9, <2>12, <2>13, <2>16, Zenon
  <1> QED
    BY <1>8, <1>9

-----------------------------------------------------------------------------
(* A fresh identity, and what has to be copied up. *)

\* There is an identity for a new object: the name it gets has none yet.
LEMMA FreshFacts ==
  ASSUME NEW p \in Paths, up[p].id = 0
  PROVE  FreshId \in Nat
  <1> DEFINE Used(i) == \E x \in Paths : up[x].id = i
             T == {i \in NewIds : ~Used(i)}
  <1>1. NewIds \subseteq Nat /\ 0 \notin NewIds
    BY DirOpsAssumption
  <1>2. T # {}
    <2>1. SUFFICES ASSUME \A i \in NewIds : Used(i) PROVE FALSE
      OBVIOUS
    <2>2. \A i \in NewIds : \E x \in Paths \ {p} : up[x].id = i
      BY <1>1, <2>1
    <2>3. PICK R : R = Paths \ {p}
      OBVIOUS
    <2>4. PICK f : f = [i \in NewIds |-> CHOOSE x \in R : up[x].id = i]
      OBVIOUS
    <2>5. \A i \in NewIds : f[i] \in R /\ up[f[i]].id = i
      BY <2>2, <2>3, <2>4
    <2>6. f \in [NewIds -> R]
      BY <2>4, <2>5
    <2>7. /\ IsFiniteSet(Paths) /\ IsFiniteSet(NewIds)
          /\ Cardinality(NewIds) >= Cardinality(Paths)
      BY DirOpsAssumption
    <2>8. IsFiniteSet(R) /\ Cardinality(R) = Cardinality(Paths) - 1
      BY <2>3, <2>7, FS_RemoveElement
    <2>9. Cardinality(R) < Cardinality(NewIds)
      <3>1. Cardinality(Paths) \in Nat /\ Cardinality(NewIds) \in Nat
        BY <2>7, FS_CardinalityType
      <3> QED
        BY <2>7, <2>8, <3>1
    <2>10. \E i, j \in NewIds : i # j /\ f[i] = f[j]
      BY <2>6, <2>7, <2>8, <2>9, FS_PigeonHole
    <2> QED
      BY <2>5, <2>10
  <1>3. PICK i \in T : \A j \in T : i <= j
    BY <1>1, <1>2, LeastNat
  <1>4. /\ i \in NewIds /\ \A x \in Paths : up[x].id # i
        /\ \A j \in NewIds : j < i => \E x \in Paths : up[x].id = j
    <2>1. ASSUME NEW j \in NewIds, j < i PROVE Used(j)
      BY <1>1, <1>3, <2>1
    <2> QED
      BY <2>1
  <1> QED
    BY <1>1, <1>4 DEF FreshId

InSeq(x, c) == \E i \in 1 .. Len(c) : c[i] = x
Rooted(c) == /\ c \in Seq(Paths)
             /\ \A i \in 1 .. Len(c) : \/ Parent(c[i]) = <<>>
                                       \/ \E j \in 1 .. i - 1 : c[j] = Parent(c[i])

LEMMA ChainFacts ==
  ASSUME NEW p \in Paths \cup {<<>>}, NEW c, c = Chain(p)
  PROVE  /\ Rooted(c)
         /\ \A x : InSeq(x, c) <=> x # <<>> /\ p # <<>> /\ (x = p \/ x = Parent(p))
  <1>1. CASE p = <<>>
    <2>1. c = <<>> /\ c \in Seq(Paths) /\ Len(c) = 0
      BY <1>1 DEF Chain
    <2> QED
      BY <1>1, <2>1 DEF Rooted, InSeq
  <1>2. CASE p # <<>> /\ Parent(p) = <<>>
    <2>1. c = <<p>>
      BY <1>2 DEF Chain
    <2>2. c \in Seq(Paths) /\ Len(c) = 1 /\ c[1] = p
      BY <1>2, <2>1
    <2>3. Rooted(c)
      BY <1>2, <2>2 DEF Rooted
    <2>4. \A x : InSeq(x, c) <=> x = p
      BY <2>2 DEF InSeq
    <2> QED
      BY <1>2, <2>3, <2>4, Zenon
  <1>3. CASE p # <<>> /\ Parent(p) # <<>>
    <2>1. c = <<Parent(p), p>>
      BY <1>3 DEF Chain
    <2>2. p \in Paths /\ Parent(p) \in Paths /\ Parent(Parent(p)) = <<>>
      BY <1>3, PathFacts
    <2>3. c \in Seq(Paths) /\ Len(c) = 2 /\ c[1] = Parent(p) /\ c[2] = p
      BY <2>1, <2>2
    <2>4. Rooted(c)
      BY <2>2, <2>3 DEF Rooted
    <2>5. \A x : InSeq(x, c) <=> x = p \/ x = Parent(p)
      BY <2>3 DEF InSeq
    <2> QED
      BY <1>3, <2>4, <2>5, Zenon
  <1> QED
    BY <1>1, <1>2, <1>3

LEMMA ChainJoin ==
  ASSUME NEW a, NEW b, Rooted(a), Rooted(b), NEW c, c = a \o b
  PROVE  Rooted(c) /\ \A x : InSeq(x, c) <=> InSeq(x, a) \/ InSeq(x, b)
  <1>1. a \in Seq(Paths) /\ b \in Seq(Paths)
    BY DEF Rooted
  <1>2. PICK m, n : m = Len(a) /\ n = Len(b)
    OBVIOUS
  <1>3. /\ c \in Seq(Paths) /\ Len(c) = m + n /\ m \in Nat /\ n \in Nat
        /\ \A i \in 1 .. m : c[i] = a[i]
        /\ \A i \in m + 1 .. m + n : c[i] = b[i - m]
    BY <1>1, <1>2
  <1>4. \A i \in 1 .. n : i + m \in m + 1 .. m + n /\ (i + m) - m = i
    BY <1>3
  <1>5. \A i \in 1 .. n : c[i + m] = b[i]
    BY <1>3, <1>4
  <1>6. ASSUME NEW i \in 1 .. Len(c)
        PROVE  Parent(c[i]) = <<>> \/ \E j \in 1 .. i - 1 : c[j] = Parent(c[i])
    <2>1. CASE i <= m
      <3>1. i \in 1 .. m
        BY <1>3, <2>1
      <3>2. ASSUME NEW j \in 1 .. i - 1 PROVE j \in 1 .. m
        BY <1>3, <3>1
      <3>3. Parent(a[i]) = <<>> \/ \E j \in 1 .. i - 1 : a[j] = Parent(a[i])
        BY <1>2, <3>1 DEF Rooted
      <3> QED
        BY <1>3, <3>1, <3>2, <3>3
    <2>2. CASE i > m
      <3>1. i - m \in 1 .. n /\ c[i] = b[i - m]
        BY <1>3, <2>2
      <3>2. Parent(b[i - m]) = <<>> \/ \E j \in 1 .. (i - m) - 1 : b[j] = Parent(b[i - m])
        BY <1>2, <3>1 DEF Rooted
      <3>3. ASSUME NEW j \in 1 .. (i - m) - 1 PROVE j \in 1 .. n /\ j + m \in 1 .. i - 1
        BY <1>3, <3>1
      <3>4. \A j \in 1 .. (i - m) - 1 : j + m \in 1 .. i - 1 /\ c[j + m] = b[j]
        BY <1>5, <3>3
      <3> QED
        BY <3>1, <3>2, <3>4
    <2> QED
      BY <1>3, <2>1, <2>2
  <1>7. ASSUME NEW x, InSeq(x, c) PROVE InSeq(x, a) \/ InSeq(x, b)
    <2>1. PICK i \in 1 .. Len(c) : c[i] = x
      BY <1>7 DEF InSeq
    <2>2. CASE i <= m
      BY <1>2, <1>3, <2>1, <2>2 DEF InSeq
    <2>3. CASE i > m
      <3>a. i \in m + 1 .. m + n /\ i - m \in 1 .. n
        BY <1>3, <2>1, <2>3
      <3>1. i - m \in 1 .. n /\ b[i - m] = x
        BY <1>3, <2>1, <3>a
      <3> QED
        BY <1>2, <3>1 DEF InSeq
    <2> QED
      BY <1>3, <2>1, <2>2, <2>3
  <1>8. ASSUME NEW x, InSeq(x, a) PROVE InSeq(x, c)
    <2>1. PICK i \in 1 .. m : a[i] = x
      BY <1>2, <1>8 DEF InSeq
    <2>2. i \in 1 .. Len(c) /\ c[i] = x
      BY <1>3, <2>1
    <2> QED
      BY <2>2 DEF InSeq
  <1>9. ASSUME NEW x, InSeq(x, b) PROVE InSeq(x, c)
    <2>1. PICK i \in 1 .. n : b[i] = x
      BY <1>2, <1>9 DEF InSeq
    <2>2. i + m \in 1 .. Len(c) /\ c[i + m] = x
      BY <1>3, <1>5, <2>1
    <2> QED
      BY <2>2 DEF InSeq
  <1> QED
    BY <1>3, <1>6, <1>7, <1>8, <1>9 DEF Rooted

\* The objects that ovl_copy_up is called for.
Wanted(x) ==
  /\ x # <<>>
  /\ \/ x = Parent(op.p)
     \/ Renaming /\ (x = op.p \/ x = Parent(op.q))
     \/ op.fn = "exchange" /\ x = op.q

LEMMA CopyList ==
  ASSUME op.fn \in AllFns, op.p \in Paths, Renaming => op.q \in Paths, NEW c, c = ToCopyUp
  PROVE  Rooted(c) /\ \A x : InSeq(x, c) <=> Wanted(x)
  <1>1. ASSUME NEW y \in Paths
        PROVE  /\ y # <<>> /\ Parent(y) \in Paths \cup {<<>>}
               /\ Parent(y) # <<>> => Parent(Parent(y)) = <<>>
    BY PathFacts
  <1>2. CASE op.fn = "rename"
    <2>1. Renaming /\ op.fn # "exchange" /\ op.q \in Paths
      BY <1>2 DEF Renaming
    <2>2. PICK a, b, z : a = Chain(op.p) /\ z = Parent(op.q) /\ b = Chain(z)
      OBVIOUS
    <2>3. c = a \o b
      BY <1>2, <2>2 DEF ToCopyUp
    <2>4. /\ Rooted(a)
          /\ \A x : InSeq(x, a) <=> x # <<>> /\ op.p # <<>> /\ (x = op.p \/ x = Parent(op.p))
      BY <2>2, ChainFacts
    <2>5. z \in Paths \cup {<<>>}
      BY <1>1, <2>1, <2>2
    <2>6. Rooted(b) /\ \A x : InSeq(x, b) <=> x # <<>> /\ z # <<>> /\ (x = z \/ x = Parent(z))
      BY <2>2, <2>5, ChainFacts
    <2>7. Rooted(c) /\ \A x : InSeq(x, c) <=> InSeq(x, a) \/ InSeq(x, b)
      BY <2>3, <2>4, <2>6, ChainJoin
    <2>8. z # <<>> => Parent(z) = <<>>
      BY <1>1, <2>1, <2>2
    <2> QED
      BY <1>1, <2>1, <2>2, <2>4, <2>6, <2>7, <2>8, Zenon DEF Wanted
  <1>3. CASE op.fn = "exchange"
    <2>1. Renaming /\ op.q \in Paths
      BY <1>3 DEF Renaming
    <2>2. PICK a, b, z : a = Chain(op.p) /\ z = op.q /\ b = Chain(z)
      OBVIOUS
    <2>3. c = a \o b
      BY <1>3, <2>2 DEF ToCopyUp
    <2>4. /\ Rooted(a)
          /\ \A x : InSeq(x, a) <=> x # <<>> /\ op.p # <<>> /\ (x = op.p \/ x = Parent(op.p))
      BY <2>2, ChainFacts
    <2>6. Rooted(b) /\ \A x : InSeq(x, b) <=> x # <<>> /\ z # <<>> /\ (x = z \/ x = Parent(z))
      BY <2>1, <2>2, ChainFacts
    <2>7. Rooted(c) /\ \A x : InSeq(x, c) <=> InSeq(x, a) \/ InSeq(x, b)
      BY <2>3, <2>4, <2>6, ChainJoin
    <2> QED
      BY <1>1, <1>3, <2>1, <2>2, <2>4, <2>6, <2>7, Zenon DEF Wanted
  <1>4. CASE op.fn \notin {"rename", "exchange"}
    <2>1. ~Renaming /\ op.fn # "exchange" /\ op.fn # "rename"
      BY <1>4 DEF Renaming
    <2>2. PICK z : z = Parent(op.p)
      OBVIOUS
    <2>3. c = Chain(z)
      BY <2>1, <2>2 DEF ToCopyUp
    <2>4. z \in Paths \cup {<<>>} /\ (z # <<>> => Parent(z) = <<>>)
      BY <1>1, <2>2
    <2>5. Rooted(c) /\ \A x : InSeq(x, c) <=> x # <<>> /\ z # <<>> /\ (x = z \/ x = Parent(z))
      BY <2>3, <2>4, ChainFacts
    <2> QED
      BY <2>1, <2>2, <2>4, <2>5, Zenon DEF Wanted
  <1> QED
    BY <1>2, <1>3, <1>4

\* Nothing is missing: all that was wanted is there.
LEMMA MissingNone ==
  ASSUME op.fn \in AllFns, op.p \in Paths, Renaming => op.q \in Paths, Missing = {}, NEW x, Wanted(x)
  PROVE  dc[x].upper
  <1>1. PICK c : c = ToCopyUp
    OBVIOUS
  <1>2. Rooted(c) /\ \A y : InSeq(y, c) <=> Wanted(y)
    BY <1>1, CopyList
  <1>3. PICK i \in 1 .. Len(c) : c[i] = x
    BY <1>2 DEF InSeq
  <1>4. DOMAIN c = 1 .. Len(c)
    BY <1>2 DEF Rooted
  <1> QED
    BY <1>1, <1>3, <1>4 DEF Missing

\* The first that is missing has its directory in the upper layer.
LEMMA MissingFirst ==
  ASSUME op.fn \in AllFns, op.p \in Paths, Renaming => op.q \in Paths, Missing # {},
         NEW x, x = ToCopyUp[Min(Missing)]
  PROVE  /\ x \in Paths /\ Wanted(x) /\ ~dc[x].upper
         /\ Parent(x) = <<>> \/ dc[Parent(x)].upper
  <1>1. PICK c : c = ToCopyUp
    OBVIOUS
  <1>2. Rooted(c) /\ \A y : InSeq(y, c) <=> Wanted(y)
    BY <1>1, CopyList
  <1>3. c \in Seq(Paths) /\ DOMAIN c = 1 .. Len(c) /\ Len(c) \in Nat
    BY <1>2 DEF Rooted
  <1>4. \A i : i \in Missing <=> i \in 1 .. Len(c) /\ ~dc[c[i]].upper
    BY <1>1, <1>3 DEF Missing
  <1>5. Missing \subseteq Nat
    BY <1>3, <1>4
  <1>6. \E i \in Missing : \A j \in Missing : i <= j
    BY <1>5, LeastNat
  <1>7. PICK i : i = Min(Missing)
    OBVIOUS
  <1>8. i \in Missing /\ \A j \in Missing : i <= j
    BY <1>6, <1>7 DEF Min
  <1>9. i \in 1 .. Len(c) /\ ~dc[c[i]].upper /\ x = c[i]
    BY <1>1, <1>4, <1>7, <1>8
  <1>10. x \in Paths
    BY <1>3, <1>9
  <1>11. Wanted(x)
    BY <1>2, <1>9 DEF InSeq
  <1>12. ASSUME Parent(x) # <<>> PROVE dc[Parent(x)].upper
    <2>1. PICK j \in 1 .. i - 1 : c[j] = Parent(x)
      BY <1>2, <1>9, <1>12 DEF Rooted
    <2>2. j \in 1 .. Len(c) /\ j < i /\ j \in Nat /\ i \in Nat
      BY <1>3, <1>9
    <2>3. j \notin Missing
      BY <1>8, <2>2
    <2> QED
      BY <1>4, <2>1, <2>2, <2>3
  <1> QED
    BY <1>9, <1>10, <1>11, <1>12

-----------------------------------------------------------------------------
(* What a step leaves as it is. *)

\* The call in progress goes on.
KeepCall == /\ DOMAIN op' = OpFields /\ op'.fn = op.fn /\ op'.p = op.p /\ op'.q = op.q
            /\ op'.flags = op.flags /\ op'.sweep = op.sweep /\ op'.lowerPos = op.lowerPos

\* No object of the upper layer appears, goes or changes its kind.
SameKinds == \A x \in Paths : up'[x].kind = up[x].kind

\* No dentry changes its place in the cache or its upper part.
SameFlags == \A x \in Paths : /\ dc'[x].hashed <=> dc[x].hashed
                              /\ dc'[x].dir <=> dc[x].dir
                              /\ dc'[x].upper <=> dc[x].upper
                              /\ dc'[x].positive <=> dc[x].positive

\* The upper directories of the names of the call.
UpAbove == UpDir(Parent(op.p)) /\ (Renaming => UpDir(Parent(op.q)))

UpTyped == up = [x \in Paths |-> up[x]] /\ \A x \in Paths : NodeInv(up[x])
DcTyped == dc = [x \in Paths |-> dc[x]] /\ \A x \in Paths : EntryInv(dc[x])
WorkTyped == work \in [node : NodeType, kids : SUBSET Paths] /\ GoodName(work.node.redirect)
OpTyped == DOMAIN op = OpFields /\ op.sweep \in BOOLEAN /\ op.lowerPos \in BOOLEAN
UsedTyped == /\ used \in [calls : 0 .. MaxCalls, faults : Nat, crashes : Nat]
             /\ used.faults + used.crashes <= MaxTroubles

LEMMA ShapeParts ==
  Shape <=> <<config, lower>> \in Mounts /\ UpTyped /\ DcTyped /\ WorkTyped /\ OpTyped /\ UsedTyped
  BY Zenon DEF Shape, UpTyped, DcTyped, WorkTyped, OpTyped, UsedTyped

LEMMA NoWorkTyped ==
  NoWork \in [node : NodeType, kids : SUBSET Paths] /\ GoodName(NoWork.node.redirect)
  BY NowhereFact DEF NoWork, NoNode, Node, NodeType, NoId

LEMMA NoNodeInv == NodeInv(NoNode) /\ NodeInv(Whiteout) /\ NoNode.kind = "no"
                   /\ Whiteout.kind = "whiteout"
  BY NowhereFact DEF NodeInv, NoNode, Whiteout, Node, NodeType, NoId

LEMMA NoIds ==
  ASSUME NEW n, NodeInv(n), n.kind = "no" \/ n.kind = "whiteout"
  PROVE  n.id = 0
  <1>1. NoNode.id = 0
    BY DEF NoNode, Node, NoId
  <1> QED
    BY <1>1 DEF NodeInv, NoId

LEMMA WorkNone ==
  ASSUME work' = NoWork
  PROVE  WorkInv'
  <1>1. NoWork.kids = {}
    BY DEF NoWork
  <1> QED
    BY <1>1 DEF WorkInv

LEMMA NoEntryInv == EntryInv(NoEntry) /\ ~NoEntry.hashed /\ ~NoEntry.dir /\ ~NoEntry.upper
                    /\ ~NoEntry.positive
  BY NowhereFact DEF NoEntry, EntryInv, EntryFields, NoId

LEMMA FaultTyped ==
  ASSUME UsedTyped, Fault
  PROVE  UsedTyped'
  <1>1. MaxTroubles \in Nat
    BY DirOpsAssumption
  <1> QED
    BY <1>1 DEF UsedTyped, Fault

LEMMA UsedKept ==
  ASSUME UsedTyped, UNCHANGED used
  PROVE  UsedTyped'
  BY DEF UsedTyped

LEMMA GotoFacts ==
  ASSUME OpTyped, NEW pc, Goto(pc)
  PROVE  KeepCall /\ OpTyped' /\ op'.pc = pc /\ op'.err = op.err /\ op'.list = op.list
  BY DEF OpTyped, OpFields, Goto, KeepCall

LEMMA FinishFacts ==
  ASSUME OpTyped, Finish
  PROVE  KeepCall /\ OpTyped' /\ op'.pc = "ret" /\ op'.err = op.err /\ op'.list = op.list
  BY DEF OpTyped, OpFields, Finish, KeepCall

LEMMA FailFacts ==
  ASSUME OpTyped, NEW e, Fail(e)
  PROVE  KeepCall /\ OpTyped' /\ op'.pc = "ret" /\ op'.err = e /\ op'.list = op.list
  BY DEF OpTyped, OpFields, Fail, KeepCall

LEMMA AboveFacts ==
  ASSUME NEW x \in Paths
  PROVE  Parent(x) = <<>> \/ (Parent(x) # <<>> /\ Parent(x) \in Paths /\ x \in Kids(Parent(x)))
  BY PathFacts

LEMMA TreeKept ==
  ASSUME Tree, SameKinds
  PROVE  Tree'
  <1>1. SUFFICES ASSUME NEW x \in Paths, up'[x].kind # "no"
                 PROVE  Parent(x) = <<>> \/ up'[Parent(x)].kind = "dir"
    BY Zenon DEF Tree, UpDir
  <1>2. Parent(x) = <<>> \/ up[Parent(x)].kind = "dir"
    BY <1>1 DEF Tree, UpDir, SameKinds
  <1> QED
    BY <1>2, AboveFacts DEF SameKinds

LEMMA AnchoredKept ==
  ASSUME SameFlags, NEW x \in Paths, Anchored(x)
  PROVE  Parent(x) = <<>> \/ (dc'[Parent(x)].hashed /\ dc'[Parent(x)].dir)
  BY AboveFacts DEF SameFlags, Anchored

LEMMA CacheKept ==
  ASSUME CacheTree, SameFlags, op'.pc # "idle" \/ op.pc = "idle"
  PROVE  CacheTree'
  <1>1. ASSUME NEW x \in Paths, dc'[x].hashed
        PROVE  Parent(x) = <<>> \/ (dc'[Parent(x)].hashed /\ dc'[Parent(x)].dir)
    <2>1. Anchored(x)
      BY <1>1 DEF CacheTree, SameFlags
    <2> QED
      BY <2>1, AnchoredKept
  <1>2. ASSUME op'.pc = "idle", NEW x \in Paths, dc'[x].dir PROVE dc'[x].hashed
    BY <1>2 DEF CacheTree, SameFlags
  <1> QED
    BY <1>1, <1>2, Zenon DEF CacheTree, Anchored

LEMMA SettledKept ==
  ASSUME Settled, SameFlags, SameKinds, op.pc \notin {"sweep", "ret"}, op'.pc \notin {"sweep", "ret"},
         Unsettled \subseteq Unsettled'
  PROVE  Settled'
  <1>1. SUFFICES ASSUME NEW x \in Paths, x \notin Unsettled', dc'[x].hashed
                 PROVE  Agrees(dc'[x], up'[x])
    BY Zenon DEF Settled, Seen
  <1>2. dc[x].hashed => Agrees(dc[x], up[x])
    BY <1>1, Zenon DEF Settled, Seen
  <1> QED
    BY <1>1, <1>2 DEF Agrees, SameFlags, SameKinds

LEMMA NamesKept ==
  ASSUME Names, KeepCall, SameFlags, op.pc # "idle", op'.pc # "ret" => op'.err = "",
         op'.pc \notin {"body", "ret"} => UpAbove'
  PROVE  Names'
  <1>1. /\ op.fn \in AllFns /\ op.p \in Paths /\ Anchored(op.p)
        /\ Renaming => /\ op.q \in Paths /\ Anchored(op.q)
                       /\ op.p # op.q /\ op.p \notin Kids(op.q) /\ op.q \notin Kids(op.p)
    BY DEF Names
  <1>2. Parent(op.p) = <<>> \/ (dc'[Parent(op.p)].hashed /\ dc'[Parent(op.p)].dir)
    BY <1>1, AnchoredKept
  <1>3. Renaming => Parent(op.q) = <<>> \/ (dc'[Parent(op.q)].hashed /\ dc'[Parent(op.q)].dir)
    BY <1>1, AnchoredKept
  <1>4. op'.fn = op.fn /\ op'.p = op.p /\ op'.q = op.q /\ (Renaming' <=> Renaming)
    BY DEF KeepCall, Renaming
  <1> QED
    BY <1>1, <1>2, <1>3, <1>4 DEF Names, Anchored, UpAbove

LEMMA UpAboveKept ==
  ASSUME UpAbove, SameKinds, KeepCall, op.p \in Paths, Renaming => op.q \in Paths
  PROVE  UpAbove'
  <1>1. ASSUME NEW x \in Paths, Parent(x) = <<>> \/ up[Parent(x)].kind = "dir"
        PROVE  Parent(x) = <<>> \/ up'[Parent(x)].kind = "dir"
    BY <1>1, AboveFacts DEF SameKinds
  <1> QED
    BY <1>1 DEF UpAbove, UpDir, KeepCall, Renaming

LEMMA UpAboveReady ==
  ASSUME Names, Settled, DcTyped, op.pc = "body", Missing = {}
  PROVE  UpAbove
  <1>1. /\ op.fn \in AllFns /\ op.p \in Paths /\ Anchored(op.p)
        /\ Renaming => op.q \in Paths /\ Anchored(op.q)
    BY DEF Names
  <1>2. ASSUME NEW x \in Paths, Anchored(x), Wanted(Parent(x)) \/ Parent(x) = <<>>
        PROVE  UpDir(Parent(x))
    <2>1. SUFFICES ASSUME Parent(x) # <<>> PROVE up[Parent(x)].kind = "dir"
      BY DEF UpDir
    <2>2. PICK y : y = Parent(x)
      OBVIOUS
    <2>3. y \in Paths /\ dc[y].hashed /\ dc[y].dir /\ Wanted(y)
      BY <1>2, <2>1, <2>2, AboveFacts DEF Anchored
    <2>4. dc[y].upper
      BY <1>1, <2>3, MissingNone
    <2>5. y \notin Unsettled /\ Seen(y) = dc[y]
      BY DEF Unsettled, Seen
    <2> QED
      BY <2>2, <2>3, <2>4, <2>5 DEF Settled, Agrees
  <1>3. UpDir(Parent(op.p))
    BY <1>1, <1>2 DEF Wanted
  <1>4. Renaming => UpDir(Parent(op.q))
    BY <1>1, <1>2 DEF Wanted
  <1> QED
    BY <1>3, <1>4 DEF UpAbove

\* The cache c when d_drop has taken p, and what is below it, out of it.
Dropped(c, p) ==
  /\ c = [x \in Paths |-> c[x]] /\ \A x \in Paths : EntryInv(c[x])
  /\ \A x \in Paths : c[x].hashed => x \notin Family(p)
  /\ \A x \in Paths : x \notin Family(p) => c[x] = dc[x]
  /\ \A x \in Paths : x \notin Kids(p) => Parent(x) = <<>> \/ c[Parent(x)] = dc[Parent(x)]
  /\ c[p].positive = dc[p].positive /\ c[p].upper = dc[p].upper /\ c[p].dir = dc[p].dir

LEMMA DropFacts ==
  ASSUME DcTyped, NEW p \in Paths, NEW c, c = Drop(p, dc)
  PROVE  Dropped(c, p)
  <1>1. c = [x \in Paths |-> IF x = p THEN [dc[x] EXCEPT !.hashed = FALSE]
                             ELSE IF x \in Kids(p) THEN NoEntry ELSE dc[x]]
    BY DEF Drop
  <1>2. c = [x \in Paths |-> c[x]]
    BY <1>1
  <1>3. EntryInv(dc[p])
    BY DEF DcTyped
  <1>4. PICK d : d = [dc[p] EXCEPT !.hashed = FALSE]
    OBVIOUS
  <1>5. EntryInv(d) /\ ~d.hashed /\ d.positive = dc[p].positive /\ d.upper = dc[p].upper
        /\ d.dir = dc[p].dir
    BY <1>3, <1>4 DEF EntryInv, EntryFields
  <1>6. c[p] = d
    BY <1>1, <1>4
  <1>7. p \notin Kids(p) /\ \A x \in Kids(p) : x \in Paths
    BY KidFacts, PathFacts
  <1>8. \A x \in Paths : /\ x \in Kids(p) => c[x] = NoEntry
                         /\ x \notin Family(p) => c[x] = dc[x]
    BY <1>1, <1>7 DEF Family
  <1>9. \A x \in Paths : x \notin Kids(p) => Parent(x) = <<>> \/ c[Parent(x)] = dc[Parent(x)]
    <2>1. SUFFICES ASSUME NEW x \in Paths, x \notin Kids(p), Parent(x) # <<>>
                   PROVE  c[Parent(x)] = dc[Parent(x)]
      OBVIOUS
    <2>2. Parent(x) \in Paths /\ x \in Kids(Parent(x)) /\ Parent(Parent(x)) = <<>>
      BY <2>1, PathFacts
    <2>3. Parent(x) # p
      BY <2>1, <2>2
    <2>4. Parent(x) \notin Kids(p)
      <3>1. ASSUME Parent(x) \in Kids(p) PROVE FALSE
        <4>1. Parent(Parent(x)) = p
          BY <3>1, KidFacts
        <4> QED
          BY <2>2, <4>1, PathFacts
      <3> QED
        BY <3>1
    <2> QED
      BY <1>8, <2>2, <2>3, <2>4 DEF Family
  <1>10. \A x \in Paths : EntryInv(c[x])
    BY <1>5, <1>6, <1>8, NoEntryInv DEF DcTyped, Family
  <1>11. \A x \in Paths : c[x].hashed => x \notin Family(p)
    BY <1>5, <1>6, <1>8, NoEntryInv DEF Family
  <1> QED
    BY <1>2, <1>5, <1>6, <1>8, <1>9, <1>10, <1>11 DEF Dropped

\* A call into the upper layer fails: what was made in the work directory is removed.
LEMMA FailStep ==
  ASSUME DirInv, UNCHANGED <<layers, up, dc>>, KeepCall, OpTyped', op'.pc = "ret", op'.err # "",
         op'.list = op.list, UsedTyped', work' = NoWork, op.pc \notin {"idle", "ret", "sweep"},
         Unsettled = {}
  PROVE  DirInv'
  <1>1. /\ Shape /\ Tree /\ CacheTree /\ Settled /\ Names /\ RenameInv /\ ClearInv
        /\ up' = up /\ dc' = dc /\ config' = config /\ lower' = lower
    BY DEF DirInv, layers
  <1>2. SameKinds /\ SameFlags
    BY <1>1 DEF SameKinds, SameFlags
  <1>3. Shape'
    <2>1. UpTyped' /\ DcTyped' /\ <<config, lower>>' \in Mounts
      BY <1>1, ShapeParts DEF UpTyped, DcTyped
    <2>2. WorkTyped'
      BY NoWorkTyped DEF WorkTyped
    <2> QED
      BY <2>1, <2>2 DEF Shape, UpTyped, DcTyped, WorkTyped, OpTyped, UsedTyped
  <1>4. Tree' /\ CacheTree' /\ Names'
    BY <1>1, <1>2, TreeKept, CacheKept, NamesKept
  <1>5. Settled'
    <2>1. \A x \in Paths : Seen(x) = dc[x]
      BY DEF Seen
    <2>2. \A x \in Paths : Seen(x)' = dc[x]
      BY <1>1, Zenon DEF Seen, Renamed
    <2> QED
      BY <1>1, <2>1, <2>2, Zenon DEF Settled
  <1>6. MakeInv' /\ RemoveInv'
    BY DEF MakeInv, RemoveInv
  <1>7. ClearInv' /\ RenameInv'
    BY <1>1 DEF ClearInv, RenameInv, KeepCall
  <1>8. WorkInv'
    BY DEF WorkInv, NoWork
  <1> QED
    BY <1>3, <1>4, <1>5, <1>6, <1>7, <1>8, Zenon DEF DirInv

\* The same, where ovl_do_remove also drops the dentry.
LEMMA FailDropStep ==
  ASSUME DirInv, UNCHANGED <<layers, up>>, dc' = Drop(op.p, dc), Removing,
         KeepCall, OpTyped', op'.pc = "ret", op'.err # "",
         op'.list = op.list, UsedTyped', work' = NoWork, op.pc \notin {"idle", "ret", "sweep"},
         Unsettled = {}
  PROVE  DirInv'
  <1>1. /\ Shape /\ Tree /\ CacheTree /\ Settled /\ Names /\ RenameInv /\ ClearInv
        /\ up' = up /\ config' = config /\ lower' = lower
    BY DEF DirInv, layers
  <1>2. op.p \in Paths /\ op.fn \in AllFns /\ Anchored(op.p) /\ ~Renaming
    BY <1>1 DEF Names, Removing, Renaming
  <1>3. DcTyped
    BY <1>1, ShapeParts
  <1>4. /\ dc' = [x \in Paths |-> dc'[x]] /\ \A x \in Paths : EntryInv(dc'[x])
        /\ \A x \in Paths : dc'[x].hashed => x \notin Family(op.p)
        /\ \A x \in Paths : x \notin Family(op.p) => dc'[x] = dc[x]
        /\ \A x \in Paths : x \notin Kids(op.p) =>
                              Parent(x) = <<>> \/ dc'[Parent(x)] = dc[Parent(x)]
    <2>1. Dropped(dc', op.p)
      BY <1>2, <1>3, DropFacts
    <2> QED
      BY <2>1 DEF Dropped
  <1>5. Shape'
    <2>1. UpTyped' /\ DcTyped' /\ <<config, lower>>' \in Mounts
      BY <1>1, <1>4, ShapeParts DEF UpTyped, DcTyped
    <2>2. WorkTyped'
      BY NoWorkTyped DEF WorkTyped
    <2> QED
      BY <2>1, <2>2 DEF Shape, UpTyped, DcTyped, WorkTyped, OpTyped, UsedTyped
  <1>6. Tree'
    BY <1>1 DEF Tree, UpDir
  <1>7. ASSUME NEW x \in Paths, Anchored(x), x \notin Kids(op.p)
        PROVE  Parent(x) = <<>> \/ (dc'[Parent(x)].hashed /\ dc'[Parent(x)].dir)
    BY <1>4, <1>7, Zenon DEF Anchored
  <1>8. CacheTree'
    <2>1. ASSUME NEW x \in Paths, dc'[x].hashed
          PROVE  Parent(x) = <<>> \/ (dc'[Parent(x)].hashed /\ dc'[Parent(x)].dir)
      <3>1. x \notin Family(op.p) /\ dc[x].hashed
        BY <1>4, <2>1
      <3>2. Anchored(x) /\ x \notin Kids(op.p)
        BY <1>1, <3>1 DEF CacheTree, Family
      <3> QED
        BY <1>7, <3>2
    <2> QED
      BY <2>1 DEF CacheTree, Anchored
  <1>9. Names'
    <2>1. op.p \notin Kids(op.p)
      BY <1>2, PathFacts
    <2>2. Parent(op.p) = <<>> \/ (dc'[Parent(op.p)].hashed /\ dc'[Parent(op.p)].dir)
      BY <1>2, <1>7, <2>1
    <2> QED
      BY <1>2, <2>2 DEF Names, Anchored, KeepCall, Renaming
  <1>10. Settled'
    <2>1. \A x \in Paths : Seen(x) = dc[x]
      BY DEF Seen
    <2>2. \A x \in Paths : Seen(x)' = dc'[x]
      BY Zenon DEF Seen, Renamed
    <2>3. SUFFICES ASSUME NEW x \in Paths, dc'[x].hashed PROVE Agrees(dc'[x], up[x])
      BY <1>1, <2>2, Zenon DEF Settled
    <2>4. dc'[x] = dc[x]
      BY <1>4, <2>3
    <2>5. dc[x].hashed => Agrees(dc[x], up[x])
      BY <1>1, <2>1 DEF Settled
    <2> QED
      BY <2>3, <2>4, <2>5, Zenon
  <1>11. MakeInv' /\ RemoveInv'
    BY DEF MakeInv, RemoveInv
  <1>12. ClearInv' /\ RenameInv'
    BY <1>1 DEF ClearInv, RenameInv, KeepCall
  <1>13. WorkInv'
    BY DEF WorkInv, NoWork
  <1> QED
    BY <1>5, <1>6, <1>8, <1>9, <1>10, <1>11, <1>12, <1>13, Zenon DEF DirInv

\* A step within a call that changes no kind and no flag.
LEMMA QuietStep ==
  ASSUME DirInv, KeepCall, SameKinds, SameFlags, op'.err = op.err,
         op.pc \notin {"idle", "ret", "sweep"}, op'.pc \notin {"idle", "ret", "sweep"},
         op.pc = "body" => Missing = {}, Unsettled \subseteq Unsettled'
  PROVE  Tree' /\ CacheTree' /\ Settled' /\ Names'
  <1>1. Shape /\ Tree /\ CacheTree /\ Settled /\ Names
    BY DEF DirInv
  <1>2. DcTyped
    BY <1>1, ShapeParts
  <1>3. UpAbove
    <2>1. CASE op.pc = "body"
      BY <1>1, <1>2, <2>1, UpAboveReady
    <2>2. CASE op.pc # "body"
      BY <1>1, <2>2 DEF Names, UpAbove
    <2> QED
      BY <2>1, <2>2
  <1>4. op.p \in Paths /\ (Renaming => op.q \in Paths) /\ op.err = ""
    BY <1>1 DEF Names
  <1>5. UpAbove'
    BY <1>3, <1>4, UpAboveKept
  <1>6. Names'
    BY <1>1, <1>4, <1>5, NamesKept
  <1> QED
    BY <1>1, <1>6, TreeKept, CacheKept, SettledKept

LEMMA KidKinds ==
  ASSUME SameKinds, NEW p \in Paths
  PROVE  \A k \in Kids(p) : up'[k].kind = up[k].kind
  BY KidFacts DEF SameKinds

\* The victim of the call keeps its place too.
LEMMA CallKept ==
  ASSUME KeepCall
  PROVE  /\ (Making' <=> Making) /\ (Removing' <=> Removing) /\ (Renaming' <=> Renaming)
         /\ Victim' = Victim /\ NewKind' = NewKind
  BY DEF KeepCall, Making, Removing, Renaming, Victim, NewKind

LEMMA CallFacts ==
  ASSUME Names, op.pc # "idle"
  PROVE  op.p \in Paths /\ Victim \in Paths /\ op.fn \in AllFns
         /\ ~(Making /\ Removing) /\ ~(Making /\ Renaming) /\ ~(Removing /\ Renaming)
         /\ (Making \/ Removing \/ Renaming)
  BY DEF Names, Victim, Renaming, Removing, Making, AllFns

LEMMA NodeOpaque ==
  ASSUME NEW n, NodeInv(n), n.kind # "no", NEW b \in BOOLEAN, NEW m, m = [n EXCEPT !.opaque = b]
  PROVE  NodeInv(m) /\ m.kind = n.kind
  <1>1. m \in NodeType /\ m.kind = n.kind /\ m.redirect = n.redirect /\ m.id = n.id
    BY DEF NodeInv, NodeType
  <1> QED
    BY <1>1 DEF NodeInv

LEMMA NodeRedirect ==
  ASSUME NEW n, NodeInv(n), n.kind # "no", NEW r \in NameType, GoodName(r),
         NEW m, m = [n EXCEPT !.redirect = r]
  PROVE  NodeInv(m) /\ m.kind = n.kind
  <1>1. m \in NodeType /\ m.kind = n.kind /\ m.redirect = r /\ m.id = n.id
    BY DEF NodeInv, NodeType
  <1> QED
    BY <1>1 DEF NodeInv

LEMMA EntryOpaque ==
  ASSUME NEW e, EntryInv(e), NEW b \in BOOLEAN, NEW f, f = [e EXCEPT !.opaque = b]
  PROVE  EntryInv(f) /\ f.positive = e.positive /\ f.dir = e.dir /\ f.upper = e.upper
         /\ f.hashed = e.hashed /\ f.redirect = e.redirect /\ f.opaque = b
  BY DEF EntryInv, EntryFields

LEMMA EntryRedirect ==
  ASSUME NEW e, EntryInv(e), NEW r \in NameType, GoodName(r), e.dir, NEW f, f = [e EXCEPT !.redirect = r]
  PROVE  EntryInv(f) /\ f.positive = e.positive /\ f.dir = e.dir /\ f.upper = e.upper
         /\ f.hashed = e.hashed
  BY DEF EntryInv, EntryFields

\* One node, one dentry is replaced.
LEMMA UpSet ==
  ASSUME UpTyped, NEW p \in Paths, NEW n, NodeInv(n), up' = [up EXCEPT ![p] = n]
  PROVE  UpTyped' /\ up'[p] = n /\ \A x \in Paths : x # p => up'[x] = up[x]
  <1>1. up'[p] = n /\ \A x \in Paths : x # p => up'[x] = up[x]
    BY DEF UpTyped
  <1>2. \A x \in Paths : NodeInv(up'[x])
    BY <1>1 DEF UpTyped
  <1>3. up' = [x \in Paths |-> up'[x]]
    BY DEF UpTyped
  <1> QED
    BY <1>1, <1>2, <1>3 DEF UpTyped

LEMMA DcSet ==
  ASSUME DcTyped, NEW p \in Paths, NEW e, EntryInv(e), dc' = [dc EXCEPT ![p] = e]
  PROVE  DcTyped' /\ dc'[p] = e /\ \A x \in Paths : x # p => dc'[x] = dc[x]
  <1>1. dc'[p] = e /\ \A x \in Paths : x # p => dc'[x] = dc[x]
    BY DEF DcTyped
  <1>2. \A x \in Paths : EntryInv(dc'[x])
    BY <1>1 DEF DcTyped
  <1>3. dc' = [x \in Paths |-> dc'[x]]
    BY DEF DcTyped
  <1> QED
    BY <1>1, <1>2, <1>3 DEF DcTyped

LEMMA ShapeNext ==
  ASSUME Shape, UNCHANGED layers, UpTyped', DcTyped', WorkTyped', OpTyped', UsedTyped'
  PROVE  Shape'
  <1>1. <<config, lower>>' \in Mounts
    BY ShapeParts DEF layers
  <1> QED
    BY <1>1 DEF Shape, UpTyped, DcTyped, WorkTyped, OpTyped, UsedTyped

\* One node is replaced, and the tree stays a tree.
LEMMA TreeSet ==
  ASSUME Tree, NEW p \in Paths, \A x \in Paths : x # p => up'[x].kind = up[x].kind,
         up'[p].kind # "no" => UpDir(Parent(p)), up'[p].kind = "dir" \/ Bare(p)
  PROVE  Tree'
  <1>1. SUFFICES ASSUME NEW x \in Paths, up'[x].kind # "no", Parent(x) # <<>>
                 PROVE  up'[Parent(x)].kind = "dir"
    BY Zenon DEF Tree, UpDir
  <1>2. Parent(x) \in Paths /\ x \in Kids(Parent(x)) /\ Parent(x) # x
    BY <1>1, PathFacts
  <1>3. CASE x = p
    BY <1>1, <1>2, <1>3 DEF UpDir
  <1>4. CASE x # p /\ Parent(x) = p
    BY <1>1, <1>2, <1>4 DEF Bare
  <1>5. CASE x # p /\ Parent(x) # p
    BY <1>1, <1>2, <1>5 DEF Tree, UpDir
  <1> QED
    BY <1>3, <1>4, <1>5

\* What one path has to show for the dentries and the upper layer to agree there.
LEMMA SettledNext ==
  ASSUME Settled, op.pc \notin {"sweep", "ret"}, op'.pc \notin {"sweep", "ret"},
         \A x \in Paths :
           \/ x \in Unsettled' \/ ~dc'[x].hashed \/ Agrees(dc'[x], up'[x])
           \/ x \notin Unsettled /\ up'[x].kind = up[x].kind /\ dc'[x] = dc[x]
  PROVE  Settled'
  <1>1. SUFFICES ASSUME NEW x \in Paths, x \notin Unsettled', dc'[x].hashed
                 PROVE  Agrees(dc'[x], up'[x])
    BY Zenon DEF Settled, Seen
  <1>2. x \notin Unsettled /\ dc[x].hashed => Agrees(dc[x], up[x])
    BY <1>1, Zenon DEF Settled, Seen
  <1> QED
    BY <1>1, <1>2 DEF Agrees

\* The same at the end of a call that moves no dentry.
LEMMA SettledLast ==
  ASSUME Settled, op.pc \notin {"sweep", "ret"}, op'.pc = "ret", ~Renaming' \/ op'.err # "",
         \A x \in Paths :
           \/ ~dc'[x].hashed \/ Agrees(dc'[x], up'[x])
           \/ x \notin Unsettled /\ up'[x].kind = up[x].kind /\ dc'[x] = dc[x]
  PROVE  Settled'
  <1>1. \A x \in Paths : Seen(x)' = dc'[x]
    BY Zenon DEF Seen, Renamed
  <1>2. SUFFICES ASSUME NEW x \in Paths, dc'[x].hashed
                 PROVE  Agrees(dc'[x], up'[x])
    BY <1>1, Zenon DEF Settled
  <1>3. x \notin Unsettled /\ dc[x].hashed => Agrees(dc[x], up[x])
    BY <1>2, Zenon DEF Settled, Seen
  <1> QED
    BY <1>2, <1>3 DEF Agrees

LEMMA NamesNext ==
  ASSUME Names, KeepCall, op.pc # "idle", op'.pc # "ret" => op'.err = "",
         Anchored(op.p)', Renaming => Anchored(op.q)',
         op'.pc \notin {"body", "ret"} => UpAbove'
  PROVE  Names'
  <1>1. /\ op.fn \in AllFns /\ op.p \in Paths
        /\ Renaming => /\ op.q \in Paths
                       /\ op.p # op.q /\ op.p \notin Kids(op.q) /\ op.q \notin Kids(op.p)
    BY DEF Names
  <1>2. op'.fn = op.fn /\ op'.p = op.p /\ op'.q = op.q /\ (Renaming' <=> Renaming)
    BY DEF KeepCall, Renaming
  <1> QED
    BY <1>1, <1>2 DEF Names, UpAbove

\* The names of the call are not among what is below them.
LEMMA UpAboveSet ==
  ASSUME UpAbove, KeepCall, op.p \in Paths, Renaming => op.q \in Paths,
         NEW v \in Paths, op.p \notin Kids(v), Renaming => op.q \notin Kids(v),
         \A x \in Paths : x \notin Family(v) => up'[x].kind = up[x].kind
  PROVE  UpAbove'
  <1>1. ASSUME NEW x \in Paths, x \notin Kids(v), Parent(x) = <<>> \/ up[Parent(x)].kind = "dir"
        PROVE  Parent(x) = <<>> \/ up'[Parent(x)].kind = "dir"
    <2>1. SUFFICES ASSUME Parent(x) # <<>> PROVE up'[Parent(x)].kind = "dir"
      OBVIOUS
    <2>2. Parent(x) \in Paths /\ x \in Kids(Parent(x)) /\ Parent(Parent(x)) = <<>>
      BY <2>1, PathFacts
    <2>3. Parent(x) \notin Kids(v)
      <3>1. ASSUME Parent(x) \in Kids(v) PROVE FALSE
        BY <2>2, <3>1, KidFacts, PathFacts
      <3> QED
        BY <3>1
    <2> QED
      BY <1>1, <2>1, <2>2, <2>3 DEF Family
  <1> QED
    BY <1>1 DEF UpAbove, UpDir, KeepCall, Renaming

LEMMA NewFacts ==
  ASSUME NEW p \in Paths, up[p].id = 0, NEW fn
  PROVE  /\ NodeInv(New(fn)) /\ New(fn).kind = IF fn = "mkdir" THEN "dir" ELSE "file"
         /\ Temp(New(fn)) \in [node : NodeType, kids : SUBSET Paths]
         /\ GoodName(Temp(New(fn)).node.redirect) /\ Temp(New(fn)).kids = {}
         /\ Temp(New(fn)).node = New(fn)
  <1>1. FreshId \in Nat
    BY FreshFacts
  <1>2. New(fn) \in NodeType /\ New(fn).redirect = NoRedirect
        /\ New(fn).kind = IF fn = "mkdir" THEN "dir" ELSE "file"
    BY <1>1, NowhereFact DEF New, Node, NodeType
  <1>3. NodeInv(New(fn))
    BY <1>2, NowhereFact DEF NodeInv
  <1> QED
    BY <1>2, <1>3, NowhereFact DEF Temp

-----------------------------------------------------------------------------
(* create and mkdir. *)

LEMMA MarkNewOpaqueStep ==
  ASSUME DirInv, MarkNewOpaque
  PROVE  DirInv'
  <1>1. /\ Shape /\ Tree /\ CacheTree /\ Settled /\ Names /\ MakeInv /\ RemoveInv /\ ClearInv
        /\ RenameInv /\ WorkInv /\ UpTyped /\ DcTyped /\ WorkTyped /\ OpTyped /\ UsedTyped
    BY ShapeParts DEF DirInv
  <1>2. op.pc = "opaque" /\ Goto("instantiate") /\ UNCHANGED <<layers, work>>
    BY DEF MarkNewOpaque
  <1>3. KeepCall /\ OpTyped' /\ op'.pc = "instantiate" /\ op'.err = op.err /\ op'.list = op.list
    BY <1>1, <1>2, GotoFacts
  <1>4. /\ op.p \in Paths /\ up[op.p].kind = NewKind /\ Making /\ NewKind # "no"
        /\ ~dc[op.p].positive /\ dc[op.p].hashed /\ Bare(op.p)
    BY <1>1, <1>2 DEF Names, MakeInv, NewKind
  <1>5. UpTyped' /\ DcTyped' /\ SameKinds /\ SameFlags /\ UsedTyped'
    <2>1. CASE up' = [up EXCEPT ![op.p].opaque = TRUE] /\ dc' = [dc EXCEPT ![op.p].opaque = TRUE]
               /\ UNCHANGED used
      <3>1. PICK n, e : n = [up[op.p] EXCEPT !.opaque = TRUE] /\ e = [dc[op.p] EXCEPT !.opaque = TRUE]
        OBVIOUS
      <3>2. NodeInv(n) /\ n.kind = up[op.p].kind
        BY <1>1, <1>4, <3>1, NodeOpaque DEF UpTyped
      <3>3. EntryInv(e) /\ e.positive = dc[op.p].positive /\ e.dir = dc[op.p].dir
            /\ e.upper = dc[op.p].upper /\ e.hashed = dc[op.p].hashed
        BY <1>1, <1>4, <3>1, EntryOpaque DEF DcTyped
      <3>4. up' = [up EXCEPT ![op.p] = n] /\ dc' = [dc EXCEPT ![op.p] = e]
        BY <2>1, <3>1
      <3>5. UpTyped' /\ up'[op.p] = n /\ \A x \in Paths : x # op.p => up'[x] = up[x]
        BY <1>1, <1>4, <3>2, <3>4, UpSet
      <3>6. DcTyped' /\ dc'[op.p] = e /\ \A x \in Paths : x # op.p => dc'[x] = dc[x]
        BY <1>1, <1>4, <3>3, <3>4, DcSet
      <3>7. UsedTyped'
        BY <1>1, <2>1, UsedKept
      <3> QED
        BY <3>2, <3>3, <3>5, <3>6, <3>7 DEF SameKinds, SameFlags
    <2>2. CASE Fault /\ UNCHANGED <<up, dc>>
      <3>1. UsedTyped'
        BY <1>1, <2>2, FaultTyped
      <3> QED
        BY <1>1, <2>2, <3>1 DEF SameKinds, SameFlags, UpTyped, DcTyped
    <2> QED
      BY <2>1, <2>2 DEF MarkNewOpaque
  <1>6. Shape'
    BY <1>1, <1>2, <1>3, <1>5, ShapeNext DEF WorkTyped
  <1>7. Unsettled \subseteq Unsettled'
    BY <1>2, <1>3 DEF Unsettled, KeepCall
  <1>8. Tree' /\ CacheTree' /\ Settled' /\ Names'
    BY <1>2, <1>3, <1>5, <1>7, QuietStep
  <1>9. MakeInv'
    <2>1. Bare(op.p)'
      BY <1>3, <1>4, <1>5, KidKinds DEF Bare, KeepCall
    <2>2. Making' /\ NewKind' = NewKind /\ op'.p = op.p
      BY <1>3, <1>4, CallKept DEF KeepCall
    <2>3. up'[op.p].kind = NewKind /\ ~dc'[op.p].positive /\ dc'[op.p].hashed
      BY <1>4, <1>5 DEF SameKinds, SameFlags
    <2> QED
      BY <1>3, <2>1, <2>2, <2>3 DEF MakeInv
  <1>10. RemoveInv' /\ ClearInv' /\ RenameInv'
    <2>1. ~Removing' /\ ~Renaming' /\ op'.fn # "rename" /\ op'.fn # "exchange" /\ op'.fn # "rmdir"
      BY <1>3, <1>4 DEF KeepCall, Making, Removing, Renaming
    <2> QED
      BY <1>1, <1>2, <1>3, <2>1 DEF RemoveInv, ClearInv, RenameInv, KeepCall
  <1>11. WorkInv'
    BY <1>1, <1>2, <1>3 DEF WorkInv
  <1> QED
    BY <1>6, <1>8, <1>9, <1>10, <1>11, Zenon DEF DirInv

\* A create or mkdir has nothing to do with the other calls.
LEMMA MakingOnly ==
  ASSUME Making, KeepCall, op'.list = op.list, ClearInv, RenameInv, op.pc # "idle",
         op'.pc \in {"opaque", "instantiate", "over_attr", "over_rename", "over_cleanup", "ret"}
  PROVE  RemoveInv' /\ ClearInv' /\ RenameInv'
  <1>1. ~Removing' /\ ~Renaming' /\ op'.fn # "rename" /\ op'.fn # "exchange" /\ op'.fn # "rmdir"
    BY DEF KeepCall, Making, Removing, Renaming
  <1>2. op'.list = {}
    BY DEF ClearInv, Making
  <1>3. ~op'.sweep
    BY DEF RenameInv, KeepCall, Making
  <1> QED
    BY <1>1, <1>2, <1>3 DEF RemoveInv, ClearInv, RenameInv

LEMMA CreateUpperStep ==
  ASSUME DirInv, CreateUpper
  PROVE  DirInv'
  <1>1. /\ Shape /\ Tree /\ CacheTree /\ Settled /\ Names /\ MakeInv /\ RemoveInv /\ ClearInv
        /\ RenameInv /\ WorkInv /\ UpTyped /\ DcTyped /\ WorkTyped /\ OpTyped /\ UsedTyped
    BY ShapeParts DEF DirInv
  <1>2. /\ op.pc = "body" /\ Missing = {} /\ Making /\ UNCHANGED <<layers, work, dc>>
        /\ config' = config /\ lower' = lower /\ work' = work /\ dc' = dc
    BY DEF CreateUpper, UpToDate, layers
  <1>3. /\ op.p \in Paths /\ op.fn \in AllFns /\ op.err = "" /\ ~Renaming
        /\ ~dc[op.p].positive /\ dc[op.p].hashed /\ Bare(op.p) /\ work = NoWork
    BY <1>1, <1>2, CallFacts DEF Names, MakeInv, WorkInv
  <1>4. Unsettled = {}
    BY <1>2 DEF Unsettled
  <1>5. UpAbove
    BY <1>1, <1>2, UpAboveReady
  <1>6. ASSUME NEW e, e # "", Fail(e), UsedTyped', UNCHANGED up PROVE DirInv'
    <2>1. KeepCall /\ OpTyped' /\ op'.pc = "ret" /\ op'.err = e /\ op'.list = op.list
      BY <1>1, <1>6, FailFacts
    <2> QED
      BY <1>2, <1>3, <1>4, <1>6, <2>1, FailStep
  <1>7. CASE up[op.p].kind # "no"
    <2>1. Fail("ESTALE") /\ UNCHANGED <<up, used>>
      BY <1>7 DEF CreateUpper
    <2> QED
      BY <1>1, <1>6, <2>1, UsedKept
  <1>8. CASE Fault /\ Fail("EIO") /\ UNCHANGED up
    BY <1>1, <1>6, <1>8, FaultTyped
  <1>9. CASE /\ up[op.p].kind = "no" /\ up' = [up EXCEPT ![op.p] = New(op.fn)]
             /\ op' = [op EXCEPT
                         !.done = TRUE,
                         !.pc = IF op.fn = "mkdir" /\ TypeMerge(D(Parent(op.p)))
                                THEN "opaque" ELSE "instantiate"]
             /\ UNCHANGED used
    <2>1. up[op.p].id = 0
      BY <1>1, <1>3, <1>9, NoIds DEF UpTyped
    <2>2. PICK n : n = New(op.fn)
      OBVIOUS
    <2>3. NodeInv(n) /\ n.kind = NewKind
      BY <1>3, <2>1, <2>2, NewFacts DEF NewKind
    <2>4. UpTyped' /\ up'[op.p] = n /\ \A x \in Paths : x # op.p => up'[x] = up[x]
      BY <1>1, <1>3, <1>9, <2>2, <2>3, UpSet
    <2>5. PICK pc : pc = IF op.fn = "mkdir" /\ TypeMerge(D(Parent(op.p)))
                         THEN "opaque" ELSE "instantiate"
      OBVIOUS
    <2>6. op' = [op EXCEPT !.done = TRUE, !.pc = pc] /\ pc \in {"opaque", "instantiate"}
      BY <1>9, <2>5
    <2>7. KeepCall /\ OpTyped' /\ op'.pc = pc /\ op'.err = op.err /\ op'.list = op.list
      BY <1>1, <2>6 DEF OpTyped, OpFields, KeepCall
    <2>8. UsedTyped'
      BY <1>1, <1>9, UsedKept
    <2>9. Shape'
      BY <1>1, <1>2, <2>4, <2>7, <2>8, ShapeNext DEF WorkTyped, DcTyped
    <2>10. Tree'
      BY <1>1, <1>3, <1>5, <2>4, TreeSet DEF UpAbove
    <2>11. SameFlags
      BY <1>2 DEF SameFlags
    <2>12. CacheTree'
      BY <1>1, <2>6, <2>7, <2>11, CacheKept
    <2>13. UpAbove'
      <3>1. op.p \notin Kids(op.p)
        BY <1>3, PathFacts
      <3>2. \A x \in Paths : x \notin Family(op.p) => up'[x].kind = up[x].kind
        BY <2>4 DEF Family
      <3> QED
        BY <1>3, <1>5, <2>7, <3>1, <3>2, UpAboveSet
    <2>14. Names'
      BY <1>1, <1>2, <1>3, <2>6, <2>7, <2>11, <2>13, NamesKept
    <2>15. Unsettled' = {op.p}
      BY <2>6, <2>7 DEF Unsettled, KeepCall
    <2>16. Settled'
      BY <1>1, <1>2, <1>4, <2>4, <2>6, <2>7, <2>15, SettledNext
    <2>17. MakeInv'
      <3>1. Bare(op.p)'
        <4>1. \A k \in Kids(op.p) : k \in Paths /\ k # op.p
          BY <1>3, KidFacts
        <4> QED
          BY <1>3, <2>4, <2>7, <4>1 DEF Bare, KeepCall
      <3>2. Making' /\ NewKind' = NewKind /\ op'.p = op.p
        BY <1>2, <2>7, CallKept DEF KeepCall
      <3> QED
        BY <1>2, <1>3, <2>3, <2>4, <2>6, <2>7, <3>1, <3>2 DEF MakeInv
    <2>18. RemoveInv' /\ ClearInv' /\ RenameInv'
      BY <1>1, <1>2, <2>6, <2>7, MakingOnly
    <2>19. WorkInv'
      BY <1>2, <1>3, WorkNone
    <2> QED
      BY <2>9, <2>10, <2>12, <2>14, <2>16, <2>17, <2>18, <2>19, Zenon DEF DirInv
  <1> QED
    BY <1>7, <1>8, <1>9 DEF CreateUpper

LEMMA InstantiateStep ==
  ASSUME DirInv, Instantiate
  PROVE  DirInv'
  <1>1. /\ Shape /\ Tree /\ CacheTree /\ Settled /\ Names /\ MakeInv /\ RemoveInv /\ ClearInv
        /\ RenameInv /\ WorkInv /\ UpTyped /\ DcTyped /\ WorkTyped /\ OpTyped /\ UsedTyped
    BY ShapeParts DEF DirInv
  <1>2. /\ op.pc = "instantiate" /\ Finish /\ UNCHANGED <<layers, up, work, used>>
        /\ up' = up /\ work' = work
    BY DEF Instantiate
  <1>3. KeepCall /\ OpTyped' /\ op'.pc = "ret" /\ op'.err = op.err /\ op'.list = op.list
    BY <1>1, <1>2, FinishFacts
  <1>4. /\ op.p \in Paths /\ Making /\ ~Renaming /\ op.err = "" /\ Anchored(op.p)
        /\ ~dc[op.p].positive /\ dc[op.p].hashed /\ up[op.p].kind = NewKind /\ work = NoWork
    BY <1>1, <1>2, CallFacts DEF Names, MakeInv, WorkInv
  <1>5. PICK b : b = (op.fn = "mkdir")
    OBVIOUS
  <1>6. PICK e : e = [NoEntry EXCEPT !.positive = TRUE, !.dir = b, !.upper = TRUE,
                        !.hashed = TRUE, !.opaque = dc[op.p].opaque, !.id = up[op.p].id]
    OBVIOUS
  <1>7. dc' = [dc EXCEPT ![op.p] = e]
    BY <1>5, <1>6 DEF Instantiate
  <1>8. EntryInv(e) /\ e.upper /\ e.hashed /\ (e.dir <=> b)
    <2>1. dc[op.p].opaque \in BOOLEAN /\ up[op.p].id \in Nat /\ b \in BOOLEAN
      BY <1>1, <1>4, <1>5 DEF DcTyped, EntryInv, UpTyped, NodeInv, NodeType
    <2> QED
      BY <1>6, <2>1, NowhereFact DEF NoEntry, EntryInv, EntryFields
  <1>9. DcTyped' /\ dc'[op.p] = e /\ \A x \in Paths : x # op.p => dc'[x] = dc[x]
    BY <1>1, <1>4, <1>7, <1>8, DcSet
  <1>10. Shape'
    BY <1>1, <1>2, <1>3, <1>9, ShapeNext, UsedKept DEF WorkTyped, UpTyped
  <1>11. Tree'
    BY <1>1, <1>2 DEF Tree, UpDir
  <1>12. ~dc[op.p].dir
    BY <1>1, <1>4 DEF DcTyped, EntryInv
  <1>13. ASSUME NEW x \in Paths, Anchored(x)
         PROVE  Parent(x) = <<>> \/ (dc'[Parent(x)].hashed /\ dc'[Parent(x)].dir)
    BY <1>9, <1>12, <1>13, AboveFacts DEF Anchored
  <1>14. CacheTree'
    <2>1. ASSUME NEW x \in Paths, dc'[x].hashed PROVE Anchored(x)
      BY <1>1, <1>4, <1>9, <2>1 DEF CacheTree
    <2> QED
      BY <1>3, <1>13, <2>1 DEF CacheTree, Anchored
  <1>15. Names'
    <2>1. Anchored(op.p)'
      BY <1>3, <1>4, <1>13 DEF Anchored, KeepCall
    <2> QED
      BY <1>1, <1>2, <1>3, <1>4, <2>1, NamesNext
  <1>16. Settled'
    <2>1. Agrees(e, up[op.p])
      BY <1>4, <1>5, <1>8 DEF Agrees, NewKind, Objects
    <2>2. Unsettled = {op.p}
      BY <1>2 DEF Unsettled
    <2>3. ~Renaming'
      BY <1>3, <1>4, CallKept
    <2> QED
      BY <1>1, <1>2, <1>3, <1>9, <2>1, <2>2, <2>3, SettledLast
  <1>17. MakeInv'
    BY <1>3 DEF MakeInv
  <1>18. RemoveInv' /\ ClearInv' /\ RenameInv'
    BY <1>1, <1>2, <1>3, <1>4, MakingOnly
  <1>19. WorkInv'
    BY <1>2, <1>4, WorkNone
  <1> QED
    BY <1>10, <1>11, <1>14, <1>15, <1>16, <1>17, <1>18, <1>19, Zenon DEF DirInv

LEMMA InstantiateFailsStep ==
  ASSUME DirInv, InstantiateFails
  PROVE  DirInv'
  <1>1. /\ Shape /\ Tree /\ CacheTree /\ Settled /\ Names /\ MakeInv /\ RemoveInv /\ ClearInv
        /\ RenameInv /\ WorkInv /\ UpTyped /\ DcTyped /\ WorkTyped /\ OpTyped /\ UsedTyped
    BY ShapeParts DEF DirInv
  <1>2. /\ op.pc = "instantiate" /\ Fault /\ UNCHANGED <<layers, work, dc>>
        /\ work' = work /\ dc' = dc /\ up' = [up EXCEPT ![op.p] = NoNode]
    BY DEF InstantiateFails
  <1>3. KeepCall /\ OpTyped' /\ op'.pc = "ret" /\ op'.err = "EIO" /\ op'.list = op.list
    BY <1>1 DEF InstantiateFails, OpTyped, OpFields, KeepCall
  <1>4. /\ op.p \in Paths /\ Making /\ ~Renaming /\ op.err = ""
        /\ ~dc[op.p].positive /\ dc[op.p].hashed /\ Bare(op.p) /\ work = NoWork
    BY <1>1, <1>2, CallFacts DEF Names, MakeInv, WorkInv
  <1>5. UpTyped' /\ up'[op.p] = NoNode /\ \A x \in Paths : x # op.p => up'[x] = up[x]
    BY <1>1, <1>2, <1>4, UpSet, NoNodeInv
  <1>6. Shape'
    BY <1>1, <1>2, <1>3, <1>5, ShapeNext, FaultTyped DEF WorkTyped, DcTyped
  <1>7. Tree'
    BY <1>1, <1>4, <1>5, TreeSet, NoNodeInv
  <1>8. SameFlags
    BY <1>2 DEF SameFlags
  <1>9. CacheTree' /\ Names'
    BY <1>1, <1>2, <1>3, <1>8, CacheKept, NamesKept
  <1>10. Settled'
    <2>1. Agrees(dc[op.p], NoNode)
      BY <1>1, <1>4, NoNodeInv DEF Agrees, DcTyped, EntryInv, Objects
    <2>2. Unsettled = {op.p}
      BY <1>2 DEF Unsettled
    <2> QED
      BY <1>1, <1>2, <1>3, <1>5, <2>1, <2>2, SettledLast
  <1>11. MakeInv'
    BY <1>3 DEF MakeInv
  <1>12. RemoveInv' /\ ClearInv' /\ RenameInv'
    BY <1>1, <1>2, <1>3, <1>4, MakingOnly
  <1>13. WorkInv'
    BY <1>2, <1>4, WorkNone
  <1> QED
    BY <1>6, <1>7, <1>9, <1>10, <1>11, <1>12, <1>13, Zenon DEF DirInv

\* The temporary object becomes opaque, or not.
LEMMA WorkOpaque ==
  ASSUME WorkTyped, NEW b \in BOOLEAN, work' = [work EXCEPT !.node.opaque = b]
  PROVE  WorkTyped' /\ work'.kids = work.kids /\ work'.node.kind = work.node.kind
  <1>1. PICK n : n = [work.node EXCEPT !.opaque = b]
    OBVIOUS
  <1>2. work.node \in NodeType /\ work.kids \in SUBSET Paths
    BY DEF WorkTyped
  <1>3. n \in NodeType /\ n.kind = work.node.kind /\ n.redirect = work.node.redirect
    BY <1>1, <1>2 DEF NodeType
  <1>4. work' = [work EXCEPT !.node = n]
    BY <1>1
  <1>5. work'.node = n /\ work'.kids = work.kids
        /\ work' \in [node : NodeType, kids : SUBSET Paths]
    BY <1>2, <1>3, <1>4 DEF WorkTyped
  <1> QED
    BY <1>3, <1>5 DEF WorkTyped

LEMMA OverTempStep ==
  ASSUME DirInv, OverTemp
  PROVE  DirInv'
  <1>1. /\ Shape /\ Tree /\ CacheTree /\ Settled /\ Names /\ MakeInv /\ RemoveInv /\ ClearInv
        /\ RenameInv /\ WorkInv /\ UpTyped /\ DcTyped /\ WorkTyped /\ OpTyped /\ UsedTyped
    BY ShapeParts DEF DirInv
  <1>2. /\ op.pc = "body" /\ Missing = {} /\ Making /\ UNCHANGED <<layers, up, dc>>
        /\ up' = up /\ dc' = dc
    BY DEF OverTemp, UpToDate
  <1>3. /\ op.p \in Paths /\ op.fn \in AllFns /\ op.err = "" /\ ~Renaming
        /\ ~dc[op.p].positive /\ dc[op.p].hashed /\ Bare(op.p) /\ work = NoWork
    BY <1>1, <1>2, CallFacts DEF Names, MakeInv, WorkInv
  <1>4. Unsettled = {}
    BY <1>2 DEF Unsettled
  <1>5. ASSUME NEW e, e # "", Fail(e), UsedTyped', UNCHANGED work PROVE DirInv'
    <2>1. KeepCall /\ OpTyped' /\ op'.pc = "ret" /\ op'.err = e /\ op'.list = op.list
      BY <1>1, <1>5, FailFacts
    <2> QED
      BY <1>2, <1>3, <1>4, <1>5, <2>1, FailStep
  <1>6. CASE up[op.p].kind # "whiteout"
    <2>1. Fail("ESTALE") /\ UNCHANGED <<work, used>>
      BY <1>6 DEF OverTemp
    <2> QED
      BY <1>1, <1>5, <2>1, UsedKept
  <1>7. CASE Fault /\ Fail("EIO") /\ UNCHANGED work
    BY <1>1, <1>5, <1>7, FaultTyped
  <1>8. CASE /\ up[op.p].kind = "whiteout" /\ work' = Temp(New(op.fn))
             /\ op' = [op EXCEPT !.over = TRUE, !.pc = "over_attr"] /\ UNCHANGED used
    <2>1. up[op.p].id = 0
      BY <1>1, <1>3, <1>8, NoIds DEF UpTyped
    <2>2. WorkTyped' /\ work'.kids = {} /\ work'.node.kind = NewKind
      <3>1. /\ New(op.fn).kind = IF op.fn = "mkdir" THEN "dir" ELSE "file"
            /\ work' \in [node : NodeType, kids : SUBSET Paths]
            /\ GoodName(work'.node.redirect) /\ work'.kids = {} /\ work'.node = New(op.fn)
        BY <1>3, <1>8, <2>1, NewFacts
      <3> QED
        BY <3>1 DEF WorkTyped, NewKind
    <2>3. KeepCall /\ OpTyped' /\ op'.pc = "over_attr" /\ op'.err = op.err /\ op'.list = op.list
      BY <1>1, <1>8 DEF OpTyped, OpFields, KeepCall
    <2>4. Shape'
      BY <1>1, <1>2, <1>8, <2>2, <2>3, ShapeNext, UsedKept DEF UpTyped, DcTyped
    <2>5. SameKinds /\ SameFlags
      BY <1>2 DEF SameKinds, SameFlags
    <2>6. Tree' /\ CacheTree' /\ Settled' /\ Names'
      BY <1>2, <1>4, <2>3, <2>5, QuietStep
    <2>7. MakeInv'
      <3>1. Bare(op.p)' /\ op'.p = op.p
        BY <1>2, <1>3, <2>3 DEF Bare, KeepCall
      <3>2. Making' /\ NewKind' = NewKind
        BY <1>2, <2>3, CallKept
      <3> QED
        BY <1>2, <1>3, <1>8, <2>2, <2>3, <3>1, <3>2 DEF MakeInv
    <2>8. RemoveInv' /\ ClearInv' /\ RenameInv'
      BY <1>1, <1>2, <2>3, MakingOnly
    <2>9. WorkInv'
      BY <2>2, <2>3 DEF WorkInv
    <2> QED
      BY <2>4, <2>6, <2>7, <2>8, <2>9, Zenon DEF DirInv
  <1> QED
    BY <1>6, <1>7, <1>8 DEF OverTemp

LEMMA OverAttrStep ==
  ASSUME DirInv, OverAttr
  PROVE  DirInv'
  <1>1. /\ Shape /\ Tree /\ CacheTree /\ Settled /\ Names /\ MakeInv /\ RemoveInv /\ ClearInv
        /\ RenameInv /\ WorkInv /\ UpTyped /\ DcTyped /\ WorkTyped /\ OpTyped /\ UsedTyped
    BY ShapeParts DEF DirInv
  <1>2. /\ op.pc = "over_attr" /\ UNCHANGED <<layers, up, dc>> /\ up' = up /\ dc' = dc
    BY DEF OverAttr
  <1>3. /\ op.p \in Paths /\ Making /\ op.err = ""
        /\ ~dc[op.p].positive /\ dc[op.p].hashed /\ Bare(op.p)
        /\ up[op.p].kind = "whiteout" /\ work.node.kind = NewKind /\ work.kids = {}
    BY <1>1, <1>2, CallFacts DEF Names, MakeInv, WorkInv
  <1>4. Unsettled = {}
    BY <1>2 DEF Unsettled
  <1>5. CASE Fault /\ work' = NoWork /\ Fail("EIO")
    <2>1. KeepCall /\ OpTyped' /\ op'.pc = "ret" /\ op'.err = "EIO" /\ op'.list = op.list
      BY <1>1, <1>5, FailFacts
    <2> QED
      BY <1>1, <1>2, <1>4, <1>5, <2>1, FailStep, FaultTyped
  <1>6. CASE /\ work' = [work EXCEPT !.node.opaque = op.fn = "mkdir"]
             /\ Goto("over_rename") /\ UNCHANGED used
    <2>1. KeepCall /\ OpTyped' /\ op'.pc = "over_rename" /\ op'.err = op.err /\ op'.list = op.list
      BY <1>1, <1>6, GotoFacts
    <2>2. PICK b : b = (op.fn = "mkdir")
      OBVIOUS
    <2>3. work' = [work EXCEPT !.node.opaque = b] /\ b \in BOOLEAN
      BY <1>6, <2>2
    <2>4. WorkTyped' /\ work'.kids = {} /\ work'.node.kind = NewKind
      BY <1>1, <1>3, <2>3, WorkOpaque
    <2>5. Shape'
      BY <1>1, <1>2, <1>6, <2>1, <2>4, ShapeNext, UsedKept DEF UpTyped, DcTyped
    <2>6. SameKinds /\ SameFlags
      BY <1>2 DEF SameKinds, SameFlags
    <2>7. Tree' /\ CacheTree' /\ Settled' /\ Names'
      BY <1>2, <1>4, <2>1, <2>6, QuietStep
    <2>8. MakeInv'
      <3>1. Bare(op.p)' /\ op'.p = op.p
        BY <1>2, <1>3, <2>1 DEF Bare, KeepCall
      <3>2. Making' /\ NewKind' = NewKind
        BY <1>3, <2>1, CallKept
      <3> QED
        BY <1>2, <1>3, <2>1, <2>4, <3>1, <3>2 DEF MakeInv
    <2>9. RemoveInv' /\ ClearInv' /\ RenameInv'
      BY <1>1, <1>2, <1>3, <2>1, MakingOnly
    <2>10. WorkInv'
      BY <2>1, <2>4 DEF WorkInv
    <2> QED
      BY <2>5, <2>7, <2>8, <2>9, <2>10, Zenon DEF DirInv
  <1> QED
    BY <1>5, <1>6 DEF OverAttr

LEMMA OverRenameStep ==
  ASSUME DirInv, OverRename
  PROVE  DirInv'
  <1>1. /\ Shape /\ Tree /\ CacheTree /\ Settled /\ Names /\ MakeInv /\ RemoveInv /\ ClearInv
        /\ RenameInv /\ WorkInv /\ UpTyped /\ DcTyped /\ WorkTyped /\ OpTyped /\ UsedTyped
    BY ShapeParts DEF DirInv
  <1>2. /\ op.pc = "over_rename" /\ UNCHANGED <<layers, dc>> /\ dc' = dc
    BY DEF OverRename
  <1>3. /\ op.p \in Paths /\ Making /\ ~Renaming /\ op.err = ""
        /\ ~dc[op.p].positive /\ dc[op.p].hashed /\ Bare(op.p)
        /\ up[op.p].kind = "whiteout" /\ work.node.kind = NewKind /\ work.kids = {}
        /\ UpAbove
    BY <1>1, <1>2, CallFacts DEF Names, MakeInv, WorkInv, UpAbove
  <1>4. Unsettled = {}
    BY <1>2 DEF Unsettled
  <1>5. CASE Fault /\ work' = NoWork /\ Fail("EIO") /\ UNCHANGED up
    <2>1. KeepCall /\ OpTyped' /\ op'.pc = "ret" /\ op'.err = "EIO" /\ op'.list = op.list
      BY <1>1, <1>5, FailFacts
    <2> QED
      BY <1>1, <1>2, <1>4, <1>5, <2>1, FailStep, FaultTyped
  <1>6. CASE /\ up' = [up EXCEPT ![op.p] = work.node]
             /\ work' = IF op.fn = "mkdir" THEN Temp(up[op.p]) ELSE NoWork
             /\ op' = [op EXCEPT !.done = TRUE,
                         !.pc = IF op.fn = "mkdir" THEN "over_cleanup" ELSE "instantiate"]
             /\ UNCHANGED used
    <2>1. PICK pc : pc = IF op.fn = "mkdir" THEN "over_cleanup" ELSE "instantiate"
      OBVIOUS
    <2>2. op' = [op EXCEPT !.done = TRUE, !.pc = pc] /\ pc \in {"over_cleanup", "instantiate"}
      BY <1>6, <2>1
    <2>3. KeepCall /\ OpTyped' /\ op'.pc = pc /\ op'.err = op.err /\ op'.list = op.list
      BY <1>1, <2>2 DEF OpTyped, OpFields, KeepCall
    <2>4. NodeInv(work.node)
      BY <1>1, <1>3 DEF WorkTyped, NodeInv, NewKind
    <2>5. UpTyped' /\ up'[op.p] = work.node /\ \A x \in Paths : x # op.p => up'[x] = up[x]
      BY <1>1, <1>3, <1>6, <2>4, UpSet
    <2>6. WorkTyped' /\ work'.kids = {} /\ (pc = "instantiate" => work' = NoWork)
      <3>1. CASE op.fn = "mkdir"
        <4>1. work' = Temp(up[op.p]) /\ pc # "instantiate"
          BY <1>6, <2>1, <3>1
        <4>2. NodeInv(up[op.p])
          BY <1>1, <1>3 DEF UpTyped
        <4> QED
          BY <4>1, <4>2 DEF WorkTyped, Temp, NodeInv
      <3>2. CASE op.fn # "mkdir"
        <4>1. work' = NoWork
          BY <1>6, <3>2
        <4>2. NoWork.kids = {}
          BY DEF NoWork
        <4> QED
          BY <4>1, <4>2, NoWorkTyped DEF WorkTyped
      <3> QED
        BY <3>1, <3>2
    <2>7. UsedTyped'
      BY <1>1, <1>6, UsedKept
    <2>9. Shape'
      BY <1>1, <1>2, <2>3, <2>5, <2>6, <2>7, ShapeNext DEF DcTyped
    <2>10. Tree'
      BY <1>1, <1>3, <2>5, TreeSet DEF UpAbove
    <2>11. SameFlags
      BY <1>2 DEF SameFlags
    <2>12. CacheTree'
      BY <1>1, <2>2, <2>3, <2>11, CacheKept
    <2>13. UpAbove'
      <3>1. op.p \notin Kids(op.p)
        BY <1>3, PathFacts
      <3>2. \A x \in Paths : x \notin Family(op.p) => up'[x].kind = up[x].kind
        BY <2>5 DEF Family
      <3> QED
        BY <1>3, <2>3, <3>1, <3>2, UpAboveSet
    <2>14. Names'
      BY <1>1, <1>2, <1>3, <2>2, <2>3, <2>11, <2>13, NamesKept
    <2>15. Unsettled' = {op.p}
      BY <2>2, <2>3 DEF Unsettled, KeepCall
    <2>16. Settled'
      BY <1>1, <1>2, <1>4, <2>2, <2>3, <2>5, <2>15, SettledNext
    <2>17. MakeInv'
      <3>1. Bare(op.p)'
        <4>1. \A k \in Kids(op.p) : k \in Paths /\ k # op.p
          BY <1>3, KidFacts
        <4> QED
          BY <1>3, <2>3, <2>5, <4>1 DEF Bare, KeepCall
      <3>2. Making' /\ NewKind' = NewKind /\ op'.p = op.p
        BY <1>3, <2>3, CallKept DEF KeepCall
      <3> QED
        BY <1>2, <1>3, <2>2, <2>3, <2>5, <3>1, <3>2 DEF MakeInv
    <2>18. RemoveInv' /\ ClearInv' /\ RenameInv'
      BY <1>1, <1>2, <1>3, <2>2, <2>3, MakingOnly
    <2>19. WorkInv'
      BY <2>2, <2>3, <2>6 DEF WorkInv
    <2> QED
      BY <2>9, <2>10, <2>12, <2>14, <2>16, <2>17, <2>18, <2>19, Zenon DEF DirInv
  <1> QED
    BY <1>5, <1>6 DEF OverRename

LEMMA OverCleanupStep ==
  ASSUME DirInv, OverCleanup
  PROVE  DirInv'
  <1>1. /\ Shape /\ Tree /\ CacheTree /\ Settled /\ Names /\ MakeInv /\ RemoveInv /\ ClearInv
        /\ RenameInv /\ WorkInv /\ UpTyped /\ DcTyped /\ WorkTyped /\ OpTyped /\ UsedTyped
    BY ShapeParts DEF DirInv
  <1>2. /\ op.pc = "over_cleanup" /\ UNCHANGED <<layers, up, dc, used>> /\ up' = up /\ dc' = dc
        /\ work' = NoWork /\ Goto("instantiate")
    BY DEF OverCleanup
  <1>3. /\ op.p \in Paths /\ Making /\ op.err = ""
        /\ ~dc[op.p].positive /\ dc[op.p].hashed /\ Bare(op.p) /\ up[op.p].kind = NewKind
    BY <1>1, <1>2, CallFacts DEF Names, MakeInv
  <1>4. KeepCall /\ OpTyped' /\ op'.pc = "instantiate" /\ op'.err = op.err /\ op'.list = op.list
    BY <1>1, <1>2, GotoFacts
  <1>5. Unsettled \subseteq Unsettled'
    BY <1>2, <1>4 DEF Unsettled, KeepCall
  <1>6. WorkTyped'
    BY <1>2, NoWorkTyped DEF WorkTyped
  <1>7. Shape'
    BY <1>1, <1>2, <1>4, <1>6, ShapeNext, UsedKept DEF UpTyped, DcTyped
  <1>8. SameKinds /\ SameFlags
    BY <1>2 DEF SameKinds, SameFlags
  <1>9. Tree' /\ CacheTree' /\ Settled' /\ Names'
    BY <1>2, <1>4, <1>5, <1>8, QuietStep
  <1>10. MakeInv'
    <2>1. Bare(op.p)' /\ op'.p = op.p
      BY <1>2, <1>3, <1>4 DEF Bare, KeepCall
    <2>2. Making' /\ NewKind' = NewKind
      BY <1>3, <1>4, CallKept
    <2> QED
      BY <1>2, <1>3, <1>4, <2>1, <2>2 DEF MakeInv
  <1>11. RemoveInv' /\ ClearInv' /\ RenameInv'
    BY <1>1, <1>2, <1>3, <1>4, MakingOnly
  <1>12. WorkInv'
    BY <1>2, WorkNone
  <1> QED
    BY <1>7, <1>9, <1>10, <1>11, <1>12, Zenon DEF DirInv

-----------------------------------------------------------------------------
(* ovl_clear_empty. *)

LEMMA DropAnchored ==
  ASSUME NEW p \in Paths, Dropped(dc', p), NEW x \in Paths, x \notin Kids(p), Anchored(x)
  PROVE  Parent(x) = <<>> \/ (dc'[Parent(x)].hashed /\ dc'[Parent(x)].dir)
  <1>1. Parent(x) = <<>> \/ dc'[Parent(x)] = dc[Parent(x)]
    BY DEF Dropped
  <1> QED
    BY <1>1, Zenon DEF Anchored

LEMMA DropCache ==
  ASSUME CacheTree, NEW p \in Paths, Dropped(dc', p), op'.pc # "idle"
  PROVE  CacheTree'
  <1>1. ASSUME NEW x \in Paths, dc'[x].hashed
        PROVE  Parent(x) = <<>> \/ (dc'[Parent(x)].hashed /\ dc'[Parent(x)].dir)
    <2>1. x \notin Family(p) /\ dc'[x] = dc[x]
      BY <1>1 DEF Dropped
    <2>2. Anchored(x) /\ x \notin Kids(p)
      BY <1>1, <2>1 DEF CacheTree, Family
    <2> QED
      BY <2>2, DropAnchored
  <1> QED
    BY <1>1, Zenon DEF CacheTree, Anchored

\* The directory that is cleared, and the call that clears it.
LEMMA VictimFacts ==
  ASSUME Names, ClearInv, op.pc # "idle", op.list # {}
  PROVE  /\ op.fn \in {"rmdir", "rename"} /\ ~Making /\ op.fn # "exchange"
         /\ Victim \in Paths /\ Victim = (IF Renaming THEN op.q ELSE op.p)
         /\ Anchored(Victim)
         /\ op.p \in Paths /\ op.p \notin Kids(Victim)
         /\ Renaming => op.q \in Paths /\ op.q \notin Kids(Victim) /\ op.p \notin Family(Victim)
  <1>1. op.fn \in {"rmdir", "rename"} /\ (Renaming <=> op.fn = "rename")
    BY DEF ClearInv, Renaming
  <1>2. ~Making /\ op.fn # "exchange" /\ Victim = (IF Renaming THEN op.q ELSE op.p)
    BY <1>1 DEF Making, Victim
  <1>3. /\ op.p \in Paths /\ Anchored(op.p)
        /\ Renaming => /\ op.q \in Paths /\ Anchored(op.q)
                       /\ op.p # op.q /\ op.p \notin Kids(op.q) /\ op.q \notin Kids(op.p)
    BY DEF Names
  <1>4. op.p \notin Kids(op.p) /\ (Renaming => op.q \notin Kids(op.q))
    BY <1>3, PathFacts
  <1> QED
    BY <1>1, <1>2, <1>3, <1>4 DEF Family

\* What the other calls need while a directory is cleared.
LEMMA ClearingOnly ==
  ASSUME Names, ClearInv, RenameInv, op.pc \notin {"idle", "ret", "sweep"}, op.list # {}, KeepCall,
         op'.list = op.list, SameFlags,
         op'.pc \in {"clear_opaque", "clear_swap", "clear_whiteouts", "clear_cleanup"}
  PROVE  MakeInv' /\ RemoveInv' /\ RenameInv'
  <1>1. op.fn \in {"rmdir", "rename"} /\ op.p \in Paths
    BY VictimFacts
  <1>2. op'.fn = op.fn /\ op'.p = op.p /\ op'.fn # "exchange" /\ ~Making' /\ (Renaming' <=> Renaming)
        /\ op'.sweep = op.sweep /\ op'.flags = op.flags
    BY <1>1, CallKept DEF KeepCall, Making
  <1>3. MakeInv' /\ RemoveInv'
    BY <1>2 DEF MakeInv, RemoveInv
  <1>4. ~op.sweep
    BY DEF RenameInv
  <1>5. Renaming => dc'[op.p].hashed /\ dc'[op.p].positive
    BY <1>1 DEF RenameInv, SameFlags
  <1>6. RenameInv'
    BY <1>2, <1>4, <1>5 DEF RenameInv
  <1> QED
    BY <1>3, <1>6

LEMMA ClearTempStep ==
  ASSUME DirInv, ClearTemp
  PROVE  DirInv'
  <1>1. /\ Shape /\ Tree /\ CacheTree /\ Settled /\ Names /\ MakeInv /\ RemoveInv /\ ClearInv
        /\ RenameInv /\ WorkInv /\ UpTyped /\ DcTyped /\ WorkTyped /\ OpTyped /\ UsedTyped
    BY ShapeParts DEF DirInv
  <1>2. /\ op.pc = "body" /\ Missing = {} /\ op.list # {} /\ UNCHANGED <<layers, up, dc>>
        /\ up' = up /\ dc' = dc
    BY DEF ClearTemp, UpToDate
  <1>3. Victim \in Paths /\ op.err = "" /\ work = NoWork /\ Covers(Victim)
    BY <1>1, <1>2, VictimFacts DEF Names, WorkInv, ClearInv
  <1>4. Unsettled = {}
    BY <1>2 DEF Unsettled
  <1>5. CASE Fault /\ Fail("EIO") /\ UNCHANGED work
    <2>1. KeepCall /\ OpTyped' /\ op'.pc = "ret" /\ op'.err = "EIO" /\ op'.list = op.list
      BY <1>1, <1>5, FailFacts
    <2>2. work' = NoWork
      BY <1>3, <1>5
    <2> QED
      BY <1>1, <1>2, <1>4, <1>5, <2>1, <2>2, FailStep, FaultTyped
  <1>6. CASE /\ work' = Temp(Node("dir", FALSE, NoRedirect, FALSE, up[Victim].id))
             /\ Goto("clear_opaque") /\ UNCHANGED used
    <2>1. KeepCall /\ OpTyped' /\ op'.pc = "clear_opaque" /\ op'.err = op.err /\ op'.list = op.list
      BY <1>1, <1>6, GotoFacts
    <2>2. WorkTyped' /\ work'.kids = {} /\ work'.node.kind = "dir"
      <3>1. up[Victim].id \in Nat
        BY <1>1, <1>3 DEF UpTyped, NodeInv, NodeType
      <3>2. PICK n : n = Node("dir", FALSE, NoRedirect, FALSE, up[Victim].id)
        OBVIOUS
      <3>3. n \in NodeType /\ n.kind = "dir" /\ n.redirect = NoRedirect
        BY <3>1, <3>2, NowhereFact DEF Node, NodeType
      <3> QED
        BY <1>6, <3>2, <3>3, NowhereFact DEF WorkTyped, Temp
    <2>3. Shape'
      BY <1>1, <1>2, <1>6, <2>1, <2>2, ShapeNext, UsedKept DEF UpTyped, DcTyped
    <2>4. SameKinds /\ SameFlags
      BY <1>2 DEF SameKinds, SameFlags
    <2>5. Tree' /\ CacheTree' /\ Settled' /\ Names'
      BY <1>2, <1>4, <2>1, <2>4, QuietStep
    <2>6. MakeInv' /\ RemoveInv' /\ RenameInv'
      BY <1>1, <1>2, <2>1, <2>4, ClearingOnly
    <2>7. ClearInv'
      <3>1. Covers(Victim)' /\ op'.fn = op.fn
        BY <1>2, <1>3, <2>1, CallKept DEF Covers, KeepCall
      <3> QED
        BY <1>1, <1>2, <2>1, <2>2, <3>1 DEF ClearInv
    <2>8. WorkInv'
      BY <2>1, <2>2 DEF WorkInv
    <2> QED
      BY <2>3, <2>5, <2>6, <2>7, <2>8, Zenon DEF DirInv
  <1> QED
    BY <1>5, <1>6 DEF ClearTemp

LEMMA ClearOpaqueStep ==
  ASSUME DirInv, ClearOpaque
  PROVE  DirInv'
  <1>1. /\ Shape /\ Tree /\ CacheTree /\ Settled /\ Names /\ MakeInv /\ RemoveInv /\ ClearInv
        /\ RenameInv /\ WorkInv /\ UpTyped /\ DcTyped /\ WorkTyped /\ OpTyped /\ UsedTyped
    BY ShapeParts DEF DirInv
  <1>2. op.pc = "clear_opaque" /\ UNCHANGED <<layers, up>> /\ up' = up
    BY DEF ClearOpaque
  <1>3. /\ op.list # {} /\ Covers(Victim) /\ work.node.kind = "dir" /\ work.kids = {}
        /\ Victim \in Paths
    BY <1>1, <1>2, VictimFacts DEF WorkInv, ClearInv
  <1>4. Unsettled = {}
    BY <1>2 DEF Unsettled
  <1>5. CASE Fault /\ work' = NoWork /\ Fail("EIO") /\ UNCHANGED dc
    <2>1. KeepCall /\ OpTyped' /\ op'.pc = "ret" /\ op'.err = "EIO" /\ op'.list = op.list
      BY <1>1, <1>5, FailFacts
    <2> QED
      BY <1>1, <1>2, <1>4, <1>5, <2>1, FailStep, FaultTyped
  <1>6. CASE /\ work' = [work EXCEPT !.node.opaque = TRUE]
             /\ dc' = [dc EXCEPT ![Victim].opaque = TRUE]
             /\ Goto("clear_swap") /\ UNCHANGED used
    <2>1. KeepCall /\ OpTyped' /\ op'.pc = "clear_swap" /\ op'.err = op.err /\ op'.list = op.list
      BY <1>1, <1>6, GotoFacts
    <2>2. WorkTyped' /\ work'.kids = {} /\ work'.node.kind = "dir"
      BY <1>1, <1>3, <1>6, WorkOpaque
    <2>3. PICK e : e = [dc[Victim] EXCEPT !.opaque = TRUE]
      OBVIOUS
    <2>4. EntryInv(e) /\ e.positive = dc[Victim].positive /\ e.dir = dc[Victim].dir
          /\ e.upper = dc[Victim].upper /\ e.hashed = dc[Victim].hashed
      BY <1>1, <1>3, <2>3, EntryOpaque DEF DcTyped
    <2>5. dc' = [dc EXCEPT ![Victim] = e]
      BY <1>6, <2>3
    <2>6. DcTyped' /\ dc'[Victim] = e /\ \A x \in Paths : x # Victim => dc'[x] = dc[x]
      BY <1>1, <1>3, <2>4, <2>5, DcSet
    <2>7. Shape'
      BY <1>1, <1>2, <1>6, <2>1, <2>2, <2>6, ShapeNext, UsedKept DEF UpTyped
    <2>8. SameKinds /\ SameFlags
      BY <1>2, <2>4, <2>6 DEF SameKinds, SameFlags
    <2>9. Tree' /\ CacheTree' /\ Settled' /\ Names'
      BY <1>2, <1>4, <2>1, <2>8, QuietStep
    <2>10. MakeInv' /\ RemoveInv' /\ RenameInv'
      BY <1>1, <1>2, <1>3, <2>1, <2>8, ClearingOnly
    <2>11. ClearInv'
      <3>1. Covers(Victim)' /\ op'.fn = op.fn
        BY <1>2, <1>3, <2>1, CallKept DEF Covers, KeepCall
      <3> QED
        BY <1>1, <1>2, <1>3, <2>1, <2>2, <3>1 DEF ClearInv
    <2>12. WorkInv'
      BY <2>1, <2>2 DEF WorkInv
    <2> QED
      BY <2>7, <2>9, <2>10, <2>11, <2>12, Zenon DEF DirInv
  <1> QED
    BY <1>5, <1>6 DEF ClearOpaque

\* An object and what is in it are replaced by one node.
LEMMA UpReplace ==
  ASSUME UpTyped, NEW v \in Paths, NEW n, NodeInv(n),
         up' = [x \in Paths |-> IF x = v THEN n ELSE IF x \in Kids(v) THEN NoNode ELSE up[x]]
  PROVE  /\ UpTyped' /\ up'[v] = n /\ \A x \in Paths : x \notin Family(v) => up'[x] = up[x]
         /\ \A k \in Kids(v) : up'[k] = NoNode
  <1>1. v \notin Kids(v) /\ \A k \in Kids(v) : k \in Paths /\ k # v
    BY KidFacts, PathFacts
  <1>2. /\ up'[v] = n /\ \A x \in Paths : x \notin Family(v) => up'[x] = up[x]
        /\ \A k \in Kids(v) : up'[k] = NoNode
    BY <1>1 DEF Family
  <1>3. \A x \in Paths : NodeInv(up'[x])
    BY <1>2, NoNodeInv DEF UpTyped, Family
  <1>4. up' = [x \in Paths |-> up'[x]]
    OBVIOUS
  <1> QED
    BY <1>2, <1>3, <1>4 DEF UpTyped

LEMMA TreeReplace ==
  ASSUME Tree, NEW v \in Paths, \A x \in Paths : x \notin Family(v) => up'[x] = up[x],
         \A k \in Kids(v) : up'[k] = NoNode, up'[v].kind # "no" => UpDir(Parent(v))
  PROVE  Tree'
  <1>1. SUFFICES ASSUME NEW x \in Paths, up'[x].kind # "no", Parent(x) # <<>>
                 PROVE  up'[Parent(x)].kind = "dir"
    BY Zenon DEF Tree, UpDir
  <1>2. Parent(x) \in Paths /\ x \in Kids(Parent(x)) /\ Parent(x) # x
        /\ Parent(Parent(x)) = <<>>
    BY <1>1, PathFacts
  <1>3. x \notin Kids(v)
    BY <1>1, NoNodeInv
  <1>4. Parent(x) \notin Family(v)
    <2>1. Parent(x) # v
      BY <1>2, <1>3
    <2>2. ASSUME Parent(x) \in Kids(v) PROVE FALSE
      BY <1>2, <2>2, KidFacts, PathFacts
    <2> QED
      BY <2>1, <2>2 DEF Family
  <1>5. CASE x = v
    BY <1>1, <1>2, <1>4, <1>5 DEF UpDir
  <1>6. CASE x # v
    BY <1>1, <1>2, <1>3, <1>4, <1>6 DEF Tree, UpDir, Family
  <1> QED
    BY <1>5, <1>6

LEMMA ClearSwapStep ==
  ASSUME DirInv, ClearSwap
  PROVE  DirInv'
  <1>1. /\ Shape /\ Tree /\ CacheTree /\ Settled /\ Names /\ MakeInv /\ RemoveInv /\ ClearInv
        /\ RenameInv /\ WorkInv /\ UpTyped /\ DcTyped /\ WorkTyped /\ OpTyped /\ UsedTyped
    BY ShapeParts DEF DirInv
  <1>2. op.pc = "clear_swap" /\ UNCHANGED <<layers, dc>> /\ dc' = dc
    BY DEF ClearSwap
  <1>3. /\ op.list # {} /\ Covers(Victim) /\ work.node.kind = "dir" /\ work.kids = {}
        /\ op.err = "" /\ UpAbove
    BY <1>1, <1>2 DEF WorkInv, ClearInv, Names, UpAbove
  <1>4. /\ Victim \in Paths /\ Victim = (IF Renaming THEN op.q ELSE op.p)
        /\ op.p \in Paths /\ op.p \notin Kids(Victim)
        /\ Renaming => op.q \in Paths /\ op.q \notin Kids(Victim)
    BY <1>1, <1>2, <1>3, VictimFacts
  <1>5. Unsettled = {}
    BY <1>2 DEF Unsettled
  <1>6. CASE Fault /\ work' = NoWork /\ Fail("EIO") /\ UNCHANGED up
    <2>1. KeepCall /\ OpTyped' /\ op'.pc = "ret" /\ op'.err = "EIO" /\ op'.list = op.list
      BY <1>1, <1>6, FailFacts
    <2> QED
      BY <1>1, <1>2, <1>5, <1>6, <2>1, FailStep, FaultTyped
  <1>7. CASE /\ up' = [x \in Paths |-> IF x = Victim THEN work.node
                                       ELSE IF x \in Kids(Victim) THEN NoNode ELSE up[x]]
             /\ work' = [node |-> up[Victim], kids |-> {k \in Kids(Victim) : up[k] # NoNode}]
             /\ Goto("clear_whiteouts") /\ UNCHANGED used
    <2>1. KeepCall /\ OpTyped' /\ op'.pc = "clear_whiteouts" /\ op'.err = op.err
          /\ op'.list = op.list
      BY <1>1, <1>7, GotoFacts
    <2>2. NodeInv(work.node)
      BY <1>1, <1>3 DEF WorkTyped, NodeInv
    <2>3. /\ UpTyped' /\ up'[Victim] = work.node
          /\ \A x \in Paths : x \notin Family(Victim) => up'[x] = up[x]
          /\ \A k \in Kids(Victim) : up'[k] = NoNode
      BY <1>1, <1>4, <1>7, <2>2, UpReplace
    <2>4. WorkTyped' /\ work'.kids \subseteq op.list
      <3>1. PICK K : K = {k \in Kids(Victim) : up[k] # NoNode}
        OBVIOUS
      <3>2. work' = [node |-> up[Victim], kids |-> K]
        BY <1>7, <3>1
      <3>3. \A k \in Kids(Victim) : k \in Paths
        BY <1>4, KidFacts
      <3>4. K \subseteq Paths /\ K \subseteq op.list
        BY <1>1, <1>3, <3>1, <3>3 DEF Covers, UpTyped, NodeInv
      <3>5. NodeInv(up[Victim])
        BY <1>1, <1>4 DEF UpTyped
      <3> QED
        BY <3>2, <3>4, <3>5 DEF WorkTyped, NodeInv
    <2>5. Shape'
      BY <1>1, <1>2, <1>7, <2>1, <2>3, <2>4, ShapeNext, UsedKept DEF DcTyped
    <2>6. UpDir(Parent(Victim))
      BY <1>3, <1>4 DEF UpAbove
    <2>7. Tree'
      BY <1>1, <1>4, <2>3, <2>6, TreeReplace
    <2>8. SameFlags
      BY <1>2 DEF SameFlags
    <2>9. CacheTree'
      BY <1>1, <2>1, <2>8, CacheKept
    <2>10. UpAbove'
      BY <1>3, <1>4, <2>1, <2>3, UpAboveSet
    <2>11. Names'
      BY <1>1, <1>2, <1>3, <2>1, <2>8, <2>10, NamesKept
    <2>12. Unsettled' = Family(Victim)
      <3>1. Victim' = Victim
        BY <2>1, CallKept
      <3> QED
        BY <2>1, <3>1 DEF Unsettled
    <2>13. Settled'
      BY <1>1, <1>2, <1>5, <2>1, <2>3, <2>12, SettledNext
    <2>14. MakeInv' /\ RemoveInv' /\ RenameInv'
      BY <1>1, <1>2, <1>3, <2>1, <2>8, ClearingOnly
    <2>15. ClearInv'
      <3>1. Victim' = Victim /\ op'.fn = op.fn
        BY <2>1, CallKept DEF KeepCall
      <3>2. Bare(Victim)'
        BY <2>3, <3>1, NoNodeInv DEF Bare
      <3> QED
        BY <1>1, <1>2, <1>3, <2>1, <2>3, <3>1, <3>2 DEF ClearInv
    <2>16. WorkInv'
      BY <2>1, <2>4 DEF WorkInv
    <2> QED
      BY <2>5, <2>7, <2>9, <2>11, <2>13, <2>14, <2>15, <2>16, Zenon DEF DirInv
  <1> QED
    BY <1>6, <1>7 DEF ClearSwap

LEMMA ClearWhiteoutsStep ==
  ASSUME DirInv, ClearWhiteouts
  PROVE  DirInv'
  <1>1. /\ Shape /\ Tree /\ CacheTree /\ Settled /\ Names /\ MakeInv /\ RemoveInv /\ ClearInv
        /\ RenameInv /\ WorkInv /\ UpTyped /\ DcTyped /\ WorkTyped /\ OpTyped /\ UsedTyped
    BY ShapeParts DEF DirInv
  <1>2. /\ op.pc = "clear_whiteouts" /\ UNCHANGED <<layers, up, dc, used>> /\ up' = up /\ dc' = dc
        /\ Goto("clear_cleanup") /\ work' = [work EXCEPT !.kids = @ \ op.list]
    BY DEF ClearWhiteouts
  <1>3. /\ op.list # {} /\ up[Victim].kind = "dir" /\ Bare(Victim) /\ work.kids \subseteq op.list
        /\ Victim \in Paths
    BY <1>1, <1>2, VictimFacts DEF WorkInv, ClearInv
  <1>4. KeepCall /\ OpTyped' /\ op'.pc = "clear_cleanup" /\ op'.err = op.err /\ op'.list = op.list
    BY <1>1, <1>2, GotoFacts
  <1>5. WorkTyped' /\ work'.kids = {}
    <2>1. PICK K : K = work.kids \ op.list
      OBVIOUS
    <2>2. K = {}
      BY <1>3, <2>1
    <2>3. work' = [work EXCEPT !.kids = K]
      BY <1>2, <2>1
    <2> QED
      BY <1>1, <2>2, <2>3 DEF WorkTyped
  <1>6. Victim' = Victim
    BY <1>4, CallKept
  <1>7. Unsettled \subseteq Unsettled'
    BY <1>2, <1>4, <1>6 DEF Unsettled
  <1>8. Shape'
    BY <1>1, <1>2, <1>4, <1>5, ShapeNext, UsedKept DEF UpTyped, DcTyped
  <1>9. SameKinds /\ SameFlags
    BY <1>2 DEF SameKinds, SameFlags
  <1>10. Tree' /\ CacheTree' /\ Settled' /\ Names'
    BY <1>2, <1>4, <1>7, <1>9, QuietStep
  <1>11. MakeInv' /\ RemoveInv' /\ RenameInv'
    BY <1>1, <1>2, <1>3, <1>4, <1>9, ClearingOnly
  <1>12. ClearInv'
    <2>1. Bare(Victim)' /\ op'.fn = op.fn
      BY <1>2, <1>3, <1>4, <1>6 DEF Bare, KeepCall
    <2> QED
      BY <1>1, <1>2, <1>3, <1>4, <1>6, <2>1 DEF ClearInv
  <1>13. WorkInv'
    BY <1>4, <1>5 DEF WorkInv
  <1> QED
    BY <1>8, <1>10, <1>11, <1>12, <1>13, Zenon DEF DirInv

LEMMA ClearCleanupStep ==
  ASSUME DirInv, ClearCleanup
  PROVE  DirInv'
  <1>1. /\ Shape /\ Tree /\ CacheTree /\ Settled /\ Names /\ MakeInv /\ RemoveInv /\ ClearInv
        /\ RenameInv /\ WorkInv /\ UpTyped /\ DcTyped /\ WorkTyped /\ OpTyped /\ UsedTyped
    BY ShapeParts DEF DirInv
  <1>2. /\ op.pc = "clear_cleanup" /\ UNCHANGED <<layers, up, used>> /\ up' = up
        /\ work' = CleanupTemp /\ dc' = Drop(Victim, dc)
    BY DEF ClearCleanup
  <1>3. /\ op.list # {} /\ up[Victim].kind = "dir" /\ Bare(Victim) /\ work.kids = {}
        /\ op.err = ""
    BY <1>1, <1>2 DEF WorkInv, ClearInv, Names
  <1>4. /\ op.fn \in {"rmdir", "rename"} /\ ~Making /\ op.fn # "exchange"
        /\ Victim \in Paths /\ Victim = (IF Renaming THEN op.q ELSE op.p)
        /\ op.p \in Paths /\ op.p \notin Kids(Victim)
        /\ Renaming => op.q \in Paths /\ op.q \notin Kids(Victim) /\ op.p \notin Family(Victim)
    BY <1>1, <1>2, <1>3, VictimFacts
  <1>5. work' = NoWork
    BY <1>2, <1>3 DEF CleanupTemp
  <1>6. KeepCall /\ OpTyped' /\ op'.pc = "body" /\ op'.err = op.err /\ op'.list = {}
    BY <1>1 DEF ClearCleanup, OpTyped, OpFields, KeepCall
  <1>7. Dropped(dc', Victim)
    BY <1>1, <1>2, <1>4, DropFacts
  <1>8. DcTyped'
    BY <1>7 DEF Dropped, DcTyped
  <1>9. WorkTyped'
    BY <1>5, NoWorkTyped DEF WorkTyped
  <1>10. Shape'
    BY <1>1, <1>2, <1>6, <1>8, <1>9, ShapeNext, UsedKept DEF UpTyped
  <1>11. Tree'
    BY <1>1, <1>2 DEF Tree, UpDir
  <1>12. CacheTree'
    BY <1>1, <1>4, <1>6, <1>7, DropCache
  <1>13. Names'
    <2>1. Anchored(op.p) /\ (Renaming => Anchored(op.q))
      BY <1>1, <1>2 DEF Names
    <2>2. Parent(op.p) = <<>> \/ (dc'[Parent(op.p)].hashed /\ dc'[Parent(op.p)].dir)
      BY <1>4, <1>7, <2>1, DropAnchored
    <2>3. Renaming => Parent(op.q) = <<>> \/ (dc'[Parent(op.q)].hashed /\ dc'[Parent(op.q)].dir)
      BY <1>4, <1>7, <2>1, DropAnchored
    <2>4. Anchored(op.p)' /\ (Renaming => Anchored(op.q)')
      BY <1>6, <2>2, <2>3 DEF Anchored, KeepCall
    <2> QED
      BY <1>1, <1>2, <1>3, <1>6, <2>4, NamesNext
  <1>14. Settled'
    <2>1. Unsettled = Family(Victim)
      BY <1>2 DEF Unsettled
    <2>2. \A x \in Paths : \/ ~dc'[x].hashed
                           \/ x \notin Unsettled /\ up'[x].kind = up[x].kind /\ dc'[x] = dc[x]
      BY <1>2, <1>7, <2>1 DEF Dropped
    <2> QED
      BY <1>1, <1>2, <1>6, <2>2, SettledNext
  <1>15. (Making' <=> Making) /\ (Removing' <=> Removing) /\ (Renaming' <=> Renaming)
         /\ op'.p = op.p /\ op'.q = op.q /\ op'.fn = op.fn /\ op'.sweep = op.sweep
         /\ Victim' = Victim
    BY <1>6, CallKept DEF KeepCall
  <1>16. MakeInv'
    BY <1>4, <1>6, <1>15 DEF MakeInv
  <1>17. RemoveInv'
    <2>1. Removing => Victim = op.p
      BY <1>4 DEF Removing, Renaming
    <2>2. Removing => Covers(op.p)'
      BY <1>2, <1>3, <1>15, <2>1 DEF Covers, Bare
    <2> QED
      BY <1>6, <1>15, <2>2 DEF RemoveInv
  <1>18. ClearInv'
    BY <1>6 DEF ClearInv
  <1>19. RenameInv'
    <2>1. ~op.sweep
      BY <1>1, <1>2, <1>3 DEF RenameInv
    <2>2. Renaming => dc'[op.p].hashed /\ dc'[op.p].positive
      <3>1. Renaming => dc[op.p].hashed /\ dc[op.p].positive /\ dc'[op.p] = dc[op.p]
        BY <1>1, <1>2, <1>4, <1>7 DEF RenameInv, Dropped
      <3> QED
        BY <3>1, Zenon
    <2> QED
      BY <1>4, <1>6, <1>15, <2>1, <2>2 DEF RenameInv
  <1>20. WorkInv'
    BY <1>5, WorkNone
  <1> QED
    BY <1>10, <1>11, <1>12, <1>13, <1>14, <1>16, <1>17, <1>18, <1>19, <1>20, Zenon DEF DirInv

-----------------------------------------------------------------------------
(* unlink and rmdir. *)

\* An unlink or rmdir has nothing to do with the other calls.
LEMMA RemovingOnly ==
  ASSUME Removing, KeepCall, op'.list = op.list, ClearInv, RenameInv, op.pc # "idle",
         op'.pc \in {"whiteout_rename", "whiteout_cleanup", "ret"}
  PROVE  MakeInv' /\ ClearInv' /\ RenameInv'
  <1>1. ~Making' /\ ~Renaming' /\ op'.fn # "rename" /\ op'.fn # "exchange" /\ op'.fn = op.fn
    BY DEF KeepCall, Making, Removing, Renaming
  <1>2. ~op'.sweep
    BY DEF RenameInv, KeepCall, Removing
  <1> QED
    BY <1>1, <1>2 DEF MakeInv, ClearInv, RenameInv

\* The end of ovl_do_remove: the dentry is dropped.
LEMMA RemovedStep ==
  ASSUME DirInv, Removing, op.pc \notin {"idle", "ret", "sweep"}, UNCHANGED layers,
         dc' = Drop(op.p, dc), KeepCall, OpTyped', op'.pc = "ret", op'.list = op.list,
         UpTyped', UsedTyped', work' = NoWork, Tree', Unsettled \subseteq Family(op.p),
         \A x \in Paths : x \notin Family(op.p) => up'[x] = up[x]
  PROVE  DirInv'
  <1>1. /\ Shape /\ Tree /\ CacheTree /\ Settled /\ Names /\ MakeInv /\ RemoveInv /\ ClearInv
        /\ RenameInv /\ WorkInv /\ UpTyped /\ DcTyped /\ WorkTyped /\ OpTyped /\ UsedTyped
    BY ShapeParts DEF DirInv
  <1>2. op.p \in Paths /\ ~Renaming /\ Anchored(op.p) /\ op.p \notin Kids(op.p)
    BY <1>1, CallFacts, PathFacts DEF Names
  <1>3. Dropped(dc', op.p)
    BY <1>1, <1>2, DropFacts
  <1>4. DcTyped'
    BY <1>3 DEF Dropped, DcTyped
  <1>5. WorkTyped'
    BY NoWorkTyped DEF WorkTyped
  <1>6. Shape'
    BY <1>1, <1>4, <1>5, ShapeNext
  <1>7. CacheTree'
    BY <1>1, <1>2, <1>3, DropCache
  <1>8. Names'
    <2>1. Parent(op.p) = <<>> \/ (dc'[Parent(op.p)].hashed /\ dc'[Parent(op.p)].dir)
      BY <1>2, <1>3, DropAnchored
    <2>2. Anchored(op.p)'
      BY <2>1 DEF Anchored, KeepCall
    <2> QED
      BY <1>1, <1>2, <2>2, NamesNext
  <1>9. Settled'
    <2>1. \A x \in Paths : \/ ~dc'[x].hashed
                           \/ x \notin Unsettled /\ up'[x].kind = up[x].kind /\ dc'[x] = dc[x]
      BY <1>3 DEF Dropped
    <2>2. ~Renaming'
      BY <1>2, CallKept
    <2> QED
      BY <1>1, <2>1, <2>2, SettledLast
  <1>10. MakeInv' /\ ClearInv' /\ RenameInv'
    BY <1>1, RemovingOnly
  <1>11. RemoveInv'
    BY DEF RemoveInv
  <1>12. WorkInv'
    BY WorkNone
  <1> QED
    BY <1>6, <1>7, <1>8, <1>9, <1>10, <1>11, <1>12, Zenon DEF DirInv

LEMMA RemoveUpperStep ==
  ASSUME DirInv, RemoveUpper
  PROVE  DirInv'
  <1>1. /\ Shape /\ Tree /\ CacheTree /\ Settled /\ Names /\ MakeInv /\ RemoveInv /\ ClearInv
        /\ RenameInv /\ WorkInv /\ UpTyped /\ DcTyped /\ WorkTyped /\ OpTyped /\ UsedTyped
    BY ShapeParts DEF DirInv
  <1>2. /\ op.pc = "body" /\ Missing = {} /\ Removing /\ UNCHANGED <<layers, work>> /\ work' = work
    BY DEF RemoveUpper, Ready, UpToDate
  <1>3. op.p \in Paths /\ work = NoWork
    BY <1>1, <1>2, CallFacts DEF WorkInv
  <1>4. Unsettled = {}
    BY <1>2 DEF Unsettled
  <1>5. ASSUME NEW e, e # "", Fail(e), UsedTyped', UNCHANGED <<up, dc>> PROVE DirInv'
    <2>1. KeepCall /\ OpTyped' /\ op'.pc = "ret" /\ op'.err = e /\ op'.list = op.list
      BY <1>1, <1>5, FailFacts
    <2> QED
      BY <1>2, <1>3, <1>4, <1>5, <2>1, FailStep
  <1>6. CASE KidNodes(op.p) # {}
    <2>1. Fail("ENOTEMPTY") /\ UNCHANGED <<up, dc, used>>
      BY <1>6 DEF RemoveUpper
    <2> QED
      BY <1>1, <1>5, <2>1, UsedKept
  <1>7. CASE Fault /\ Fail("EIO") /\ UNCHANGED <<up, dc>>
    BY <1>1, <1>5, <1>7, FaultTyped
  <1>8. CASE /\ KidNodes(op.p) = {} /\ up' = [up EXCEPT ![op.p] = NoNode]
             /\ dc' = Drop(op.p, dc) /\ op' = [op EXCEPT !.done = TRUE, !.pc = "ret"]
             /\ UNCHANGED used
    <2>1. KeepCall /\ OpTyped' /\ op'.pc = "ret" /\ op'.list = op.list
      BY <1>1, <1>8 DEF OpTyped, OpFields, KeepCall
    <2>2. UpTyped' /\ up'[op.p] = NoNode /\ \A x \in Paths : x # op.p => up'[x] = up[x]
      BY <1>1, <1>3, <1>8, UpSet, NoNodeInv
    <2>3. Bare(op.p)
      BY <1>8, NoNodeInv DEF KidNodes, Bare
    <2>4. Tree'
      BY <1>1, <1>3, <2>2, <2>3, TreeSet, NoNodeInv
    <2>5. \A x \in Paths : x \notin Family(op.p) => up'[x] = up[x]
      BY <2>2 DEF Family
    <2> QED
      BY <1>1, <1>2, <1>3, <1>4, <1>8, <2>1, <2>2, <2>4, <2>5, RemovedStep, UsedKept
  <1> QED
    BY <1>6, <1>7, <1>8 DEF RemoveUpper

LEMMA WhiteoutTempStep ==
  ASSUME DirInv, WhiteoutTemp
  PROVE  DirInv'
  <1>1. /\ Shape /\ Tree /\ CacheTree /\ Settled /\ Names /\ MakeInv /\ RemoveInv /\ ClearInv
        /\ RenameInv /\ WorkInv /\ UpTyped /\ DcTyped /\ WorkTyped /\ OpTyped /\ UsedTyped
    BY ShapeParts DEF DirInv
  <1>2. /\ op.pc = "body" /\ Missing = {} /\ op.list = {} /\ Removing /\ op.lowerPos
        /\ UNCHANGED <<layers, up>> /\ up' = up
    BY DEF WhiteoutTemp, Ready, UpToDate
  <1>3. op.p \in Paths /\ work = NoWork /\ Covers(op.p)
    BY <1>1, <1>2, CallFacts DEF WorkInv, RemoveInv
  <1>4. Unsettled = {} /\ Bare(op.p)
    BY <1>2, <1>3 DEF Unsettled, Covers, Bare
  <1>5. CASE Fault /\ Fail("EIO") /\ dc' = Drop(op.p, dc) /\ UNCHANGED work
    <2>1. KeepCall /\ OpTyped' /\ op'.pc = "ret" /\ op'.err = "EIO" /\ op'.list = op.list
      BY <1>1, <1>5, FailFacts
    <2>2. work' = NoWork
      BY <1>3, <1>5
    <2> QED
      BY <1>1, <1>2, <1>4, <1>5, <2>1, <2>2, FailDropStep, FaultTyped
  <1>6. CASE work' = Temp(Whiteout) /\ Goto("whiteout_rename") /\ UNCHANGED <<dc, used>>
    <2>1. KeepCall /\ OpTyped' /\ op'.pc = "whiteout_rename" /\ op'.err = op.err
          /\ op'.list = op.list
      BY <1>1, <1>6, GotoFacts
    <2>2. WorkTyped' /\ work'.kids = {} /\ work'.node = Whiteout
      BY <1>6, NoNodeInv DEF WorkTyped, Temp, NodeInv
    <2>3. Shape'
      BY <1>1, <1>2, <1>6, <2>1, <2>2, ShapeNext, UsedKept DEF UpTyped, DcTyped
    <2>4. SameKinds /\ SameFlags
      BY <1>2, <1>6 DEF SameKinds, SameFlags
    <2>5. Tree' /\ CacheTree' /\ Settled' /\ Names'
      BY <1>2, <1>4, <2>1, <2>4, QuietStep
    <2>6. MakeInv' /\ ClearInv' /\ RenameInv'
      BY <1>1, <1>2, <2>1, RemovingOnly
    <2>7. RemoveInv'
      <3>1. Bare(op.p)' /\ Removing'
        BY <1>2, <1>4, <2>1, CallKept DEF Bare, KeepCall
      <3> QED
        BY <2>1, <2>2, <3>1 DEF RemoveInv
    <2>8. WorkInv'
      BY <2>1, <2>2 DEF WorkInv
    <2> QED
      BY <2>3, <2>5, <2>6, <2>7, <2>8, Zenon DEF DirInv
  <1> QED
    BY <1>5, <1>6 DEF WhiteoutTemp

LEMMA WhiteoutRenameStep ==
  ASSUME DirInv, WhiteoutRename
  PROVE  DirInv'
  <1>1. /\ Shape /\ Tree /\ CacheTree /\ Settled /\ Names /\ MakeInv /\ RemoveInv /\ ClearInv
        /\ RenameInv /\ WorkInv /\ UpTyped /\ DcTyped /\ WorkTyped /\ OpTyped /\ UsedTyped
    BY ShapeParts DEF DirInv
  <1>2. op.pc = "whiteout_rename" /\ UNCHANGED layers
    BY DEF WhiteoutRename
  <1>3. /\ op.p \in Paths /\ Removing /\ ~Renaming /\ work.node = Whiteout /\ Bare(op.p)
        /\ work.kids = {} /\ op.err = "" /\ UpAbove /\ op.p \notin Kids(op.p)
    BY <1>1, <1>2, CallFacts, PathFacts DEF WorkInv, RemoveInv, Names, UpAbove
  <1>4. Unsettled = {}
    BY <1>2 DEF Unsettled
  <1>5. CASE Fault /\ work' = NoWork /\ Fail("EIO") /\ dc' = Drop(op.p, dc) /\ UNCHANGED up
    <2>1. KeepCall /\ OpTyped' /\ op'.pc = "ret" /\ op'.err = "EIO" /\ op'.list = op.list
      BY <1>1, <1>5, FailFacts
    <2> QED
      BY <1>1, <1>2, <1>3, <1>4, <1>5, <2>1, FailDropStep, FaultTyped
  <1>6. CASE /\ up' = [x \in Paths |-> IF x = op.p THEN work.node
                                       ELSE IF x \in Kids(op.p) THEN NoNode ELSE up[x]]
             /\ work' = IF up[op.p].kind = "dir"
                        THEN [node |-> up[op.p], kids |-> {k \in Kids(op.p) : up[k] # NoNode}]
                        ELSE NoWork
             /\ op' = [op EXCEPT !.done = TRUE, !.pc = "whiteout_cleanup"]
             /\ UNCHANGED <<dc, used>>
    <2>1. KeepCall /\ OpTyped' /\ op'.pc = "whiteout_cleanup" /\ op'.err = op.err
          /\ op'.list = op.list /\ dc' = dc
      BY <1>1, <1>6 DEF OpTyped, OpFields, KeepCall
    <2>2. NodeInv(work.node) /\ work.node.kind = "whiteout"
      BY <1>3, NoNodeInv
    <2>3. /\ UpTyped' /\ up'[op.p] = work.node
          /\ \A x \in Paths : x \notin Family(op.p) => up'[x] = up[x]
          /\ \A k \in Kids(op.p) : up'[k] = NoNode
      BY <1>1, <1>3, <1>6, <2>2, UpReplace
    <2>4. WorkTyped' /\ work'.kids = {}
      <3>1. {k \in Kids(op.p) : up[k] # NoNode} = {}
        <4>1. \A k \in Kids(op.p) : k \in Paths
          BY <1>3, KidFacts
        <4> QED
          BY <1>1, <1>3, <4>1 DEF Bare, UpTyped, NodeInv
      <3>2. NodeInv(up[op.p])
        BY <1>1, <1>3 DEF UpTyped
      <3>3. CASE up[op.p].kind = "dir"
        <4>1. work' = [node |-> up[op.p], kids |-> {}]
          BY <1>6, <3>1, <3>3
        <4> QED
          BY <3>2, <4>1 DEF WorkTyped, NodeInv
      <3>4. CASE up[op.p].kind # "dir"
        <4>1. work' = NoWork /\ NoWork.kids = {}
          BY <1>6, <3>4 DEF NoWork
        <4> QED
          BY <4>1, NoWorkTyped DEF WorkTyped
      <3> QED
        BY <3>3, <3>4
    <2>5. Shape'
      BY <1>1, <1>2, <1>6, <2>1, <2>3, <2>4, ShapeNext, UsedKept DEF DcTyped
    <2>6. Tree'
      BY <1>1, <1>3, <2>3, TreeReplace DEF UpAbove
    <2>7. SameFlags
      BY <2>1 DEF SameFlags
    <2>8. CacheTree'
      BY <1>1, <2>1, <2>7, CacheKept
    <2>9. UpAbove'
      BY <1>3, <2>1, <2>3, UpAboveSet
    <2>10. Names'
      BY <1>1, <1>2, <1>3, <2>1, <2>7, <2>9, NamesKept
    <2>11. Unsettled' = Family(op.p)
      BY <2>1 DEF Unsettled, KeepCall
    <2>12. Settled'
      BY <1>1, <1>2, <1>4, <2>1, <2>3, <2>11, SettledNext
    <2>13. MakeInv' /\ ClearInv' /\ RenameInv'
      BY <1>1, <1>2, <1>3, <2>1, RemovingOnly
    <2>14. RemoveInv'
      BY <1>3, <2>1, CallKept DEF RemoveInv
    <2>15. WorkInv'
      BY <2>1, <2>4 DEF WorkInv
    <2> QED
      BY <2>5, <2>6, <2>8, <2>10, <2>12, <2>13, <2>14, <2>15, Zenon DEF DirInv
  <1> QED
    BY <1>5, <1>6 DEF WhiteoutRename

LEMMA WhiteoutCleanupStep ==
  ASSUME DirInv, WhiteoutCleanup
  PROVE  DirInv'
  <1>1. /\ Shape /\ Tree /\ CacheTree /\ Settled /\ Names /\ MakeInv /\ RemoveInv /\ ClearInv
        /\ RenameInv /\ WorkInv /\ UpTyped /\ DcTyped /\ WorkTyped /\ OpTyped /\ UsedTyped
    BY ShapeParts DEF DirInv
  <1>2. /\ op.pc = "whiteout_cleanup" /\ UNCHANGED <<layers, up, used>> /\ up' = up
        /\ work' = CleanupTemp /\ dc' = Drop(op.p, dc) /\ Finish
    BY DEF WhiteoutCleanup
  <1>3. Removing /\ work.kids = {}
    BY <1>1, <1>2 DEF RemoveInv, WorkInv
  <1>4. work' = NoWork
    BY <1>2, <1>3 DEF CleanupTemp
  <1>5. KeepCall /\ OpTyped' /\ op'.pc = "ret" /\ op'.err = op.err /\ op'.list = op.list
    BY <1>1, <1>2, FinishFacts
  <1>6. Unsettled \subseteq Family(op.p)
    BY <1>2 DEF Unsettled
  <1>7. Tree' /\ UpTyped' /\ UsedTyped'
    BY <1>1, <1>2, UsedKept DEF Tree, UpDir, UpTyped
  <1> QED
    BY <1>2, <1>3, <1>4, <1>5, <1>6, <1>7, RemovedStep

-----------------------------------------------------------------------------
(* ovl_copy_up. *)

\* What is copied up is cached, its directory is in the upper layer and it is not, and it
\* is neither a new name nor what a call is about to clear or remove.
LEMMA CopiedFacts ==
  ASSUME DirInv, op.pc = "body", Missing # {}, NEW x, x = ToCopyUp[Min(Missing)]
  PROVE  /\ x \in Paths /\ dc[x].hashed /\ dc[x].positive /\ UpDir(Parent(x)) /\ Bare(x)
         /\ up[x].kind \notin Objects
         /\ ~Renaming => x \notin Family(op.p)
         /\ op.fn = "rename" => x \notin Family(op.q)
  <1>1. /\ Shape /\ Tree /\ CacheTree /\ Settled /\ Names /\ RenameInv /\ DcTyped
    BY ShapeParts DEF DirInv
  <1>2. /\ op.fn \in AllFns /\ op.p \in Paths /\ Anchored(op.p)
        /\ Renaming => /\ op.q \in Paths /\ Anchored(op.q)
                       /\ op.p # op.q /\ op.p \notin Kids(op.q) /\ op.q \notin Kids(op.p)
    BY <1>1 DEF Names
  <1>3. /\ x \in Paths /\ Wanted(x) /\ ~dc[x].upper
        /\ Parent(x) = <<>> \/ dc[Parent(x)].upper
    BY <1>2, MissingFirst
  <1>4. ASSUME NEW y \in Paths, Anchored(y), x = Parent(y) PROVE dc[x].hashed /\ dc[x].dir
    BY <1>3, <1>4 DEF Anchored, Wanted
  <1>5. dc[x].hashed /\ dc[x].positive
    <2>1. CASE dc[x].hashed /\ dc[x].dir
      BY <1>1, <1>3, <2>1 DEF DcTyped, EntryInv
    <2>2. CASE Renaming /\ x = op.p
      BY <1>1, <2>2 DEF RenameInv
    <2>3. CASE op.fn = "exchange" /\ x = op.q
      BY <1>1, <2>3 DEF RenameInv
    <2> QED
      BY <1>2, <1>3, <1>4, <2>1, <2>2, <2>3 DEF Wanted
  <1>6. \A y \in Paths : dc[y].hashed => Agrees(dc[y], up[y])
    <2>1. Unsettled = {} /\ \A y \in Paths : Seen(y) = dc[y]
      BY DEF Unsettled, Seen
    <2> QED
      BY <1>1, <2>1 DEF Settled
  <1>7. up[x].kind \notin Objects
    BY <1>3, <1>5, <1>6 DEF Agrees
  <1>8. UpDir(Parent(x))
    <2>1. SUFFICES ASSUME Parent(x) # <<>> PROVE up[Parent(x)].kind = "dir"
      BY DEF UpDir
    <2>2. Anchored(x)
      BY <1>1, <1>3, <1>5 DEF CacheTree
    <2>3. PICK y : y = Parent(x)
      OBVIOUS
    <2>4. y \in Paths /\ dc[y].hashed /\ dc[y].dir /\ dc[y].upper
      BY <1>3, <2>1, <2>2, <2>3, AboveFacts DEF Anchored
    <2> QED
      BY <1>6, <2>3, <2>4 DEF Agrees
  <1>9. Bare(x)
    <2>1. SUFFICES ASSUME NEW k \in Kids(x), up[k].kind # "no" PROVE FALSE
      BY DEF Bare
    <2>2. k \in Paths /\ Parent(k) = x /\ x # <<>>
      BY <1>3, KidFacts, PathFacts
    <2>3. up[x].kind = "dir"
      BY <1>1, <2>1, <2>2 DEF Tree, UpDir
    <2> QED
      BY <1>7, <2>3 DEF Objects
  <1>10. ASSUME NEW y \in Paths, x = Parent(y), NEW v \in Paths, y \notin Kids(v)
         PROVE  x \notin Family(v)
    <2>1. Parent(x) = <<>> /\ y \in Kids(x)
      BY <1>3, <1>10, PathFacts DEF Wanted
    <2>2. x # v
      BY <1>10, <2>1
    <2>3. ASSUME x \in Kids(v) PROVE FALSE
      BY <2>1, <2>3, KidFacts, PathFacts
    <2> QED
      BY <2>2, <2>3 DEF Family
  <1>11. ASSUME ~Renaming PROVE x \notin Family(op.p)
    <2>1. x = Parent(op.p) /\ op.p \notin Kids(op.p)
      BY <1>2, <1>3, <1>11, PathFacts DEF Wanted, Renaming
    <2> QED
      BY <1>2, <1>10, <2>1
  <1>12. ASSUME op.fn = "rename" PROVE x \notin Family(op.q)
    <2>1. Renaming
      BY <1>12 DEF Renaming
    <2>2. /\ op.q \in Paths /\ op.p # op.q /\ op.p \notin Kids(op.q) /\ op.q \notin Kids(op.q)
      BY <1>2, <2>1, PathFacts
    <2>3. x = Parent(op.p) \/ x = op.p \/ x = Parent(op.q)
      BY <1>3, <1>12 DEF Wanted
    <2>4. CASE x = op.p
      BY <2>2, <2>4 DEF Family
    <2> QED
      BY <1>2, <1>10, <2>2, <2>3, <2>4
  <1> QED
    BY <1>3, <1>5, <1>7, <1>8, <1>9, <1>11, <1>12

LEMMA CopyUpStep ==
  ASSUME DirInv, CopyUp
  PROVE  DirInv'
  <1>1. /\ Shape /\ Tree /\ CacheTree /\ Settled /\ Names /\ MakeInv /\ RemoveInv /\ ClearInv
        /\ RenameInv /\ WorkInv /\ UpTyped /\ DcTyped /\ WorkTyped /\ OpTyped /\ UsedTyped
    BY ShapeParts DEF DirInv
  <1>2. op.pc = "body" /\ Missing # {} /\ UNCHANGED <<layers, work>> /\ work' = work
    BY DEF CopyUp
  <1>3. work = NoWork /\ Unsettled = {}
    BY <1>1, <1>2 DEF WorkInv, Unsettled
  <1>4. CASE Fault /\ Fail("EIO") /\ UNCHANGED <<up, dc>>
    <2>1. KeepCall /\ OpTyped' /\ op'.pc = "ret" /\ op'.err = "EIO" /\ op'.list = op.list
      BY <1>1, <1>4, FailFacts
    <2> QED
      BY <1>1, <1>2, <1>3, <1>4, <2>1, FailStep, FaultTyped
  <1>5. PICK x : x = ToCopyUp[Min(Missing)]
    OBVIOUS
  <1>6. /\ x \in Paths /\ dc[x].hashed /\ dc[x].positive /\ UpDir(Parent(x)) /\ Bare(x)
        /\ up[x].kind \notin Objects
        /\ ~Renaming => x \notin Family(op.p)
        /\ op.fn = "rename" => x \notin Family(op.q)
    BY <1>2, <1>5, CopiedFacts
  <1>7. CASE /\ up' = [up EXCEPT ![x] = Node(IF dc[x].dir THEN "dir" ELSE "file", FALSE,
                                             NoRedirect, dc[x].dir, dc[x].id)]
             /\ dc' = [dc EXCEPT ![x].upper = TRUE, ![x].whiteouts = @ \/ dc[x].dir]
             /\ UNCHANGED <<op, used>>
    <2>1. op' = op /\ used' = used
      BY <1>7
    <2>2. PICK n : n = Node(IF dc[x].dir THEN "dir" ELSE "file", FALSE,
                            NoRedirect, dc[x].dir, dc[x].id)
      OBVIOUS
    <2>3. PICK w : w = (dc[x].whiteouts \/ dc[x].dir)
      OBVIOUS
    <2>4. PICK e : e = [dc[x] EXCEPT !.upper = TRUE, !.whiteouts = w]
      OBVIOUS
    <2>5. EntryInv(dc[x])
      BY <1>1, <1>6 DEF DcTyped
    <2>6. NodeInv(n) /\ n.kind = IF dc[x].dir THEN "dir" ELSE "file"
      <3>1. dc[x].dir \in BOOLEAN /\ dc[x].id \in Nat
        BY <2>5 DEF EntryInv
      <3>2. n \in NodeType /\ n.redirect = NoRedirect
            /\ n.kind = IF dc[x].dir THEN "dir" ELSE "file"
        BY <2>2, <3>1, NowhereFact DEF Node, NodeType
      <3> QED
        BY <3>2, NowhereFact DEF NodeInv
    <2>7. EntryInv(e) /\ e.upper = TRUE /\ e.dir = dc[x].dir /\ e.hashed = dc[x].hashed
          /\ e.positive = dc[x].positive
      BY <1>6, <2>4, <2>5 DEF EntryInv, EntryFields
    <2>8. dc' = [dc EXCEPT ![x] = e]
      BY <1>1, <1>6, <1>7, <2>3, <2>4, <2>5 DEF DcTyped, EntryInv, EntryFields
    <2>9. UpTyped' /\ up'[x] = n /\ \A y \in Paths : y # x => up'[y] = up[y]
      BY <1>1, <1>6, <1>7, <2>2, <2>6, UpSet
    <2>10. DcTyped' /\ dc'[x] = e /\ \A y \in Paths : y # x => dc'[y] = dc[y]
      BY <1>1, <1>6, <2>7, <2>8, DcSet
    <2>11. Shape'
      BY <1>1, <1>2, <2>1, <2>9, <2>10, ShapeNext DEF WorkTyped, OpTyped, UsedTyped
    <2>12. Tree'
      BY <1>1, <1>6, <2>9, TreeSet
    <2>13. \A y \in Paths : /\ dc'[y].hashed <=> dc[y].hashed
                            /\ dc'[y].dir <=> dc[y].dir
                            /\ dc'[y].positive <=> dc[y].positive
      BY <2>7, <2>10
    <2>14. ASSUME NEW y \in Paths, Anchored(y)
           PROVE  Parent(y) = <<>> \/ (dc'[Parent(y)].hashed /\ dc'[Parent(y)].dir)
      BY <2>13, <2>14, AboveFacts DEF Anchored
    <2>15. CacheTree'
      BY <1>1, <1>2, <2>1, <2>13, <2>14 DEF CacheTree, Anchored
    <2>16. KeepCall
      BY <1>1, <2>1 DEF KeepCall, OpTyped
    <2>17. /\ op.err = "" /\ op.p \in Paths /\ Anchored(op.p)
           /\ Renaming => op.q \in Paths /\ Anchored(op.q)
      BY <1>1, <1>2 DEF Names
    <2>18. Names'
      <3>1. Anchored(op.p)' /\ (Renaming => Anchored(op.q)')
        BY <2>1, <2>14, <2>17 DEF Anchored
      <3> QED
        BY <1>1, <1>2, <2>1, <2>16, <2>17, <3>1, NamesNext
    <2>19. Settled'
      <3>1. Agrees(e, n)
        BY <2>6, <2>7 DEF Agrees, Objects
      <3> QED
        BY <1>1, <1>2, <1>3, <2>1, <2>9, <2>10, <3>1, SettledNext
    <2>20. (Making' <=> Making) /\ (Removing' <=> Removing) /\ (Renaming' <=> Renaming)
           /\ Victim' = Victim
      BY <2>16, CallKept
    <2>21. ASSUME NEW v \in Paths, x \notin Family(v)
           PROVE  up'[v] = up[v] /\ \A k \in Kids(v) : up'[k] = up[k]
      BY <2>9, <2>21, KidFacts DEF Family
    <2>22. ~(Making /\ Renaming) /\ ~(Removing /\ Renaming)
      BY <1>1, <1>2, CallFacts
    <2>23. MakeInv'
      <3>1. Making => Bare(op.p)'
        <4>1. Making => Bare(op.p)
          BY <1>1, <1>2 DEF MakeInv
        <4> QED
          BY <1>6, <2>1, <2>17, <2>21, <2>22, <4>1 DEF Bare
      <3>2. Making => ~dc'[op.p].positive /\ dc'[op.p].hashed
        BY <1>1, <1>2, <2>13, <2>17 DEF MakeInv
      <3> QED
        BY <1>2, <2>1, <2>20, <3>1, <3>2 DEF MakeInv
    <2>24. RemoveInv'
      <3>1. Removing /\ op.lowerPos => Covers(op.p)'
        <4>1. Removing /\ op.lowerPos => Covers(op.p)
          BY <1>1, <1>2 DEF RemoveInv
        <4> QED
          BY <1>6, <2>1, <2>17, <2>21, <2>22, <4>1 DEF Covers
      <3> QED
        BY <1>2, <2>1, <2>20, <3>1 DEF RemoveInv
    <2>25. ClearInv'
      <3>1. ASSUME op.list # {} PROVE Covers(Victim)' /\ op.fn \in {"rmdir", "rename"}
        <4>1. /\ op.fn \in {"rmdir", "rename"} /\ Victim \in Paths
              /\ Victim = (IF Renaming THEN op.q ELSE op.p) /\ Covers(Victim)
          BY <1>1, <1>2, <3>1, VictimFacts DEF ClearInv
        <4>2. x \notin Family(Victim)
          BY <1>6, <4>1 DEF Renaming
        <4> QED
          BY <2>1, <2>20, <2>21, <4>1, <4>2 DEF Covers
      <3> QED
        BY <1>2, <2>1, <3>1 DEF ClearInv
    <2>26. RenameInv'
      <3>1. Renaming => dc'[op.p].hashed /\ dc'[op.p].positive
        BY <1>1, <1>2, <2>13, <2>17 DEF RenameInv
      <3>2. op.fn = "exchange" => dc'[op.q].hashed /\ dc'[op.q].positive /\ op.flags = "EXCHANGE"
        BY <1>1, <1>2, <2>13, <2>17 DEF RenameInv, Renaming
      <3>3. op.sweep => /\ op.fn = "rename" /\ op.list = {} /\ op.flags = "EXCHANGE"
                        /\ up[op.q].kind # "dir"
        BY <1>1, <1>2 DEF RenameInv
      <3>4. op.sweep => up'[op.q].kind # "dir"
        BY <1>6, <2>17, <2>21, <3>3 DEF Renaming
      <3> QED
        BY <1>2, <2>1, <2>20, <3>1, <3>2, <3>3, <3>4 DEF RenameInv
    <2>27. WorkInv'
      BY <1>2, <1>3, WorkNone
    <2> QED
      BY <2>11, <2>12, <2>15, <2>18, <2>19, <2>23, <2>24, <2>25, <2>26, <2>27, Zenon DEF DirInv
  <1> QED
    BY <1>4, <1>5, <1>7 DEF CopyUp

-----------------------------------------------------------------------------
(* rename and exchange: the marks. *)

\* ovl_get_redirect: the path it builds is one that a later lookup accepts.
LEMMA RedirectGood ==
  ASSUME DcTyped, NEW p \in Paths, NEW r, r = NewRedirect(p)
  PROVE  r \in NameType /\ GoodName(r)
  <1> DEFINE own(x) == IF dc[x].redirect # NoRedirect THEN dc[x].redirect ELSE <<Last(x)>>
  <1>1. \A x \in Paths : dc[x].redirect \in NameType /\ GoodName(dc[x].redirect)
    BY DEF DcTyped, EntryInv
  <1>2. ASSUME NEW x \in Paths
        PROVE  <<Last(x)>> \in NameType /\ GoodName(<<Last(x)>>) /\ <<Last(x)>> # <<>>
    <2>1. Last(x) \in Top \cup Sub /\ Last(x) # "/"
      BY PathFacts, LookupAssumption
    <2> QED
      BY <2>1 DEF NameType, GoodName, Absolute
  <1>3. ASSUME NEW x \in Paths PROVE own(x) \in NameType /\ GoodName(own(x)) /\ own(x) # <<>>
    BY <1>1, <1>2 DEF NoRedirect
  <1>4. PICK f : f = IF Len(p) = 2 /\ ~Absolute(own(p)) THEN own(Parent(p)) \o own(p) ELSE own(p)
    OBVIOUS
  <1>5. f \in NameType /\ GoodName(f) /\ f # <<>>
    <2>1. CASE Len(p) = 2 /\ ~Absolute(own(p))
      <3>1. Parent(p) \in Paths
        <4>1. ASSUME NEW n \in Top, p = <<n>> PROVE FALSE
          <5>1. Len(p) = 1
            BY <4>1
          <5> QED
            BY <2>1, <5>1
        <4>2. PICK n \in Top, m \in Sub : p = <<n, m>>
          BY <4>1, PathShape
        <4> QED
          BY <4>2, SubPath, TopPath
      <3>2. PICK a, b : a = own(Parent(p)) /\ b = own(p)
        OBVIOUS
      <3>3. a \in NameType /\ b \in NameType /\ a # <<>> /\ b # <<>>
        BY <1>3, <3>1, <3>2
      <3>4. f = a \o b
        BY <1>4, <2>1, <3>2
      <3>5. f \in NameType /\ Len(f) = Len(a) + Len(b) /\ Len(a) > 0 /\ Len(b) > 0
            /\ Len(a) \in Nat /\ Len(b) \in Nat
        BY <3>3, <3>4 DEF NameType
      <3>6. Len(f) > 1
        BY <3>5
      <3> QED
        BY <3>5, <3>6 DEF GoodName, NameType
    <2>2. CASE ~(Len(p) = 2 /\ ~Absolute(own(p)))
      BY <1>3, <1>4, <2>2
    <2> QED
      BY <2>1, <2>2
  <1>6. PICK g : g = <<"/">> \o f
    OBVIOUS
  <1>7. g \in NameType /\ Len(g) > 1
    BY <1>5, <1>6 DEF NameType
  <1>8. AbsoluteRedirect(p) = IF Absolute(f) THEN f ELSE g
    BY <1>4, <1>6 DEF AbsoluteRedirect
  <1>9. AbsoluteRedirect(p) \in NameType /\ GoodName(AbsoluteRedirect(p))
    BY <1>5, <1>7, <1>8 DEF GoodName
  <1> QED
    BY <1>1, <1>2, <1>9 DEF NewRedirect

LEMMA MarkStep ==
  ASSUME DirInv, NEW p \in Paths, NEW q, NEW next \in {"mark_new", "rename"}, Mark(p, q, next),
         UNCHANGED <<layers, work>>, op.pc \in {"body", "mark_new"}, op.pc = "body" => Missing = {},
         Renaming, op.list = {}, up[p].kind \in Objects, next = "mark_new" => op.fn = "exchange",
         dc[op.p].upper, op.fn = "exchange" => dc[op.q].upper
  PROVE  DirInv'
  <1>1. /\ Shape /\ Tree /\ CacheTree /\ Settled /\ Names /\ MakeInv /\ RemoveInv /\ ClearInv
        /\ RenameInv /\ WorkInv /\ UpTyped /\ DcTyped /\ WorkTyped /\ OpTyped /\ UsedTyped
    BY ShapeParts DEF DirInv
  <1>2. work = NoWork /\ Unsettled = {} /\ work' = NoWork
    BY <1>1 DEF WorkInv, Unsettled
  <1>3. CASE Marked(p, q) # up[p] /\ Fault /\ Fail("EXDEV") /\ UNCHANGED <<up, dc>>
    <2>1. KeepCall /\ OpTyped' /\ op'.pc = "ret" /\ op'.err = "EXDEV" /\ op'.list = op.list
      BY <1>1, <1>3, FailFacts
    <2> QED
      BY <1>1, <1>2, <1>3, <2>1, FailStep, FaultTyped
  <1>4. CASE /\ up' = [up EXCEPT ![p] = Marked(p, q)]
             /\ dc' = [dc EXCEPT ![p].redirect = IF dc[p].dir /\ MergeOrLower(dc[p])
                                                 THEN NewRedirect(p) ELSE @,
                                 ![p].opaque = @ \/ (Marked(p, q).opaque /\ ~up[p].opaque)]
             /\ Goto(next) /\ UNCHANGED used
    <2>1. KeepCall /\ OpTyped' /\ op'.pc = next /\ op'.err = op.err /\ op'.list = op.list
      BY <1>1, <1>4, GotoFacts
    <2>2. PICK m, nr : m = Marked(p, q) /\ nr = NewRedirect(p)
      OBVIOUS
    <2>3. nr \in NameType /\ GoodName(nr)
      BY <1>1, <2>2, RedirectGood
    <2>4. NodeInv(up[p]) /\ up[p].kind # "no" /\ EntryInv(dc[p])
      BY <1>1 DEF UpTyped, DcTyped, Objects
    <2>5. NodeInv(m) /\ m.kind = up[p].kind
      <3>1. PICK a, b : a = [up[p] EXCEPT !.redirect = nr] /\ b = [up[p] EXCEPT !.opaque = TRUE]
        OBVIOUS
      <3>2. NodeInv(a) /\ a.kind = up[p].kind
        BY <2>3, <2>4, <3>1, NodeRedirect
      <3>3. NodeInv(b) /\ b.kind = up[p].kind
        BY <2>4, <3>1, NodeOpaque
      <3>4. m \in {a, b, up[p]}
        BY <2>2, <3>1 DEF Marked
      <3> QED
        BY <2>4, <3>2, <3>3, <3>4
    <2>6. PICK r : r = IF dc[p].dir /\ MergeOrLower(dc[p]) THEN nr ELSE dc[p].redirect
      OBVIOUS
    <2>7. PICK o : o = (dc[p].opaque \/ (m.opaque /\ ~up[p].opaque))
      OBVIOUS
    <2>8. PICK e : e = [dc[p] EXCEPT !.redirect = r, !.opaque = o]
      OBVIOUS
    <2>9. r \in NameType /\ GoodName(r) /\ (r = NoRedirect \/ dc[p].dir) /\ o \in BOOLEAN
      BY <2>3, <2>4, <2>6, <2>7 DEF EntryInv
    <2>10. EntryInv(e) /\ e.positive = dc[p].positive /\ e.dir = dc[p].dir
           /\ e.upper = dc[p].upper /\ e.hashed = dc[p].hashed
      BY <2>4, <2>8, <2>9 DEF EntryInv, EntryFields
    <2>11. dc' = [dc EXCEPT ![p] = e]
      BY <1>1, <1>4, <2>2, <2>4, <2>6, <2>7, <2>8 DEF DcTyped, EntryInv, EntryFields
    <2>12. UpTyped' /\ up'[p] = m /\ \A x \in Paths : x # p => up'[x] = up[x]
      BY <1>1, <1>4, <2>2, <2>5, UpSet
    <2>13. DcTyped' /\ dc'[p] = e /\ \A x \in Paths : x # p => dc'[x] = dc[x]
      BY <1>1, <2>10, <2>11, DcSet
    <2>14. SameKinds /\ SameFlags
      BY <2>5, <2>10, <2>12, <2>13 DEF SameKinds, SameFlags
    <2>15. Shape'
      BY <1>1, <1>4, <2>1, <2>12, <2>13, ShapeNext, UsedKept DEF WorkTyped
    <2>16. Tree' /\ CacheTree' /\ Settled' /\ Names'
      BY <1>2, <2>1, <2>14, QuietStep
    <2>17. (Making' <=> Making) /\ (Removing' <=> Removing) /\ (Renaming' <=> Renaming)
           /\ op'.p = op.p /\ op'.q = op.q /\ op'.fn = op.fn /\ op'.sweep = op.sweep
           /\ op'.flags = op.flags
      BY <2>1, CallKept DEF KeepCall
    <2>18. /\ ~Making /\ ~Removing /\ op.p \in Paths /\ op.q \in Paths
      BY <1>1, CallFacts DEF Names
    <2>19. MakeInv' /\ RemoveInv' /\ ClearInv'
      BY <2>1, <2>17, <2>18 DEF MakeInv, RemoveInv, ClearInv
    <2>20. RenameInv'
      <3>1. dc'[op.p].hashed /\ dc'[op.p].positive /\ dc'[op.p].upper
        BY <1>1, <2>14, <2>18 DEF RenameInv, SameFlags
      <3>2. op.fn = "exchange" => /\ dc'[op.q].hashed /\ dc'[op.q].positive /\ dc'[op.q].upper
                                  /\ op.flags = "EXCHANGE"
        BY <1>1, <2>14, <2>18 DEF RenameInv, SameFlags
      <3>3. op.sweep => /\ op.fn = "rename" /\ op.list = {} /\ op.flags = "EXCHANGE"
                        /\ op.pc = "body" => up[op.q].kind # "dir"
        BY <1>1 DEF RenameInv
      <3>4. op.pc = "mark_new" => op.fn = "exchange"
        BY <1>1 DEF RenameInv
      <3>5. op.sweep => up'[op.q].kind # "dir"
        BY <2>14, <2>18, <3>3, <3>4 DEF SameKinds
      <3> QED
        BY <2>1, <2>17, <3>1, <3>2, <3>3, <3>5 DEF RenameInv
    <2>21. WorkInv'
      BY <1>2, WorkNone
    <2> QED
      BY <2>15, <2>16, <2>19, <2>20, <2>21, Zenon DEF DirInv
  <1> QED
    BY <1>3, <1>4 DEF Mark

LEMMA MarkOldStep ==
  ASSUME DirInv, MarkOld
  PROVE  DirInv'
  <1>1. /\ Shape /\ Tree /\ CacheTree /\ Settled /\ Names /\ MakeInv /\ RemoveInv /\ ClearInv
        /\ RenameInv /\ WorkInv /\ UpTyped /\ DcTyped /\ WorkTyped /\ OpTyped /\ UsedTyped
    BY ShapeParts DEF DirInv
  <1>2. /\ op.pc = "body" /\ Missing = {} /\ op.list = {} /\ Renaming /\ UNCHANGED <<layers, work>>
    BY DEF MarkOld, Ready, UpToDate
  <1>3. /\ op.fn \in AllFns /\ op.p \in Paths /\ op.q \in Paths /\ op.p # <<>> /\ op.q # <<>>
    BY <1>1, <1>2, PathFacts DEF Names
  <1>4. work = NoWork /\ Unsettled = {} /\ Seen(op.p) = dc[op.p]
    BY <1>1, <1>2 DEF WorkInv, Unsettled, Seen
  <1>5. Wanted(op.p) /\ (op.fn = "exchange" => Wanted(op.q))
    BY <1>2, <1>3 DEF Wanted
  <1>6. dc[op.p].upper /\ (op.fn = "exchange" => dc[op.q].upper)
    BY <1>2, <1>3, <1>5, MissingNone
  <1>7. up[op.p].kind \in Objects
    BY <1>1, <1>2, <1>3, <1>4, <1>6 DEF RenameInv, Settled, Agrees
  <1>8. CASE Fail("ESTALE") /\ UNCHANGED <<up, dc, used>>
    <2>1. KeepCall /\ OpTyped' /\ op'.pc = "ret" /\ op'.err = "ESTALE" /\ op'.list = op.list
      BY <1>1, <1>8, FailFacts
    <2>2. work' = NoWork
      BY <1>2, <1>4
    <2> QED
      BY <1>1, <1>2, <1>4, <1>8, <2>1, <2>2, FailStep, UsedKept
  <1>9. PICK next : next = IF op.fn = "exchange" THEN "mark_new" ELSE "rename"
    OBVIOUS
  <1>10. CASE Mark(op.p, op.q, next)
    BY <1>2, <1>3, <1>6, <1>7, <1>9, <1>10, MarkStep
  <1> QED
    BY <1>8, <1>9, <1>10 DEF MarkOld

LEMMA MarkNewStep ==
  ASSUME DirInv, MarkNew
  PROVE  DirInv'
  <1>1. /\ Shape /\ Tree /\ CacheTree /\ Settled /\ Names /\ MakeInv /\ RemoveInv /\ ClearInv
        /\ RenameInv /\ WorkInv /\ UpTyped /\ DcTyped /\ WorkTyped /\ OpTyped /\ UsedTyped
    BY ShapeParts DEF DirInv
  <1>2. op.pc = "mark_new" /\ UNCHANGED <<layers, work>> /\ Mark(op.q, op.p, "rename")
    BY DEF MarkNew
  <1>3. op.fn = "exchange" /\ dc[op.p].upper /\ dc[op.q].upper /\ dc[op.q].hashed
    BY <1>1, <1>2 DEF RenameInv
  <1>4. Renaming /\ op.list = {} /\ op.q \in Paths
    BY <1>1, <1>2, <1>3 DEF Renaming, ClearInv, Names
  <1>5. Unsettled = {} /\ Seen(op.q) = dc[op.q]
    BY <1>2 DEF Unsettled, Seen
  <1>6. up[op.q].kind \in Objects
    BY <1>1, <1>3, <1>4, <1>5 DEF Settled, Agrees
  <1> QED
    BY <1>2, <1>3, <1>4, <1>6, MarkStep

-----------------------------------------------------------------------------
(* rename and exchange: the move. *)

LEMMA OutsideFacts ==
  ASSUME NEW v \in Paths, NEW x \in Paths, x \notin Kids(v)
  PROVE  Parent(x) = <<>> \/ (Parent(x) \in Paths /\ Parent(x) \notin Family(v))
  <1>1. CASE Parent(x) # <<>>
    <2>1. Parent(x) \in Paths /\ x \in Kids(Parent(x)) /\ Parent(Parent(x)) = <<>>
      BY <1>1, PathFacts
    <2>2. Parent(x) # v
      BY <2>1
    <2>3. ASSUME Parent(x) \in Kids(v) PROVE FALSE
      <3>1. Parent(Parent(x)) = v /\ v # <<>>
        BY <2>3, KidFacts, PathFacts
      <3> QED
        BY <2>1, <3>1
    <2> QED
      BY <2>1, <2>2, <2>3 DEF Family
  <1> QED
    BY <1>1

\* What the upper layer holds after ovl_do_rename.
Moved(p, q) ==
  /\ \A x \in Paths : x \notin Family(p) /\ x \notin Family(q) => up'[x] = up[x]
  /\ \A x \in Paths : (op.flags = "EXCHANGE" \/ x \notin Family(p)) /\ Trade(x, p, q) \in Paths =>
       up'[x] = up[Trade(x, p, q)]
  /\ \A x \in Paths : Trade(x, p, q) \notin Paths => up'[x] \in {NoNode, Whiteout}
  /\ \A x \in Kids(q) : up'[x].kind # "no" => up[p].kind = "dir"
  /\ \A x \in Kids(p) : up'[x].kind # "no" => up[q].kind = "dir" /\ op.flags = "EXCHANGE"
  /\ up'[q] = up[p]
  /\ op.flags = "EXCHANGE" => up'[p] = up[q]

LEMMA MovedFacts ==
  ASSUME UpTyped, Tree, NEW p \in Paths, NEW q \in Paths, p # q, q \notin Kids(p), p \notin Kids(q),
         up' = [x \in Paths |->
                  LET y == Trade(x, p, q)
                  IN IF op.flags # "EXCHANGE" /\ x \in Family(p)
                     THEN IF x = p /\ op.flags = "WHITEOUT" THEN Whiteout ELSE NoNode
                     ELSE IF y \in Paths THEN up[y] ELSE NoNode]
  PROVE  UpTyped' /\ Moved(p, q)
  <1>1. /\ Trade(q, p, q) = p /\ Trade(p, p, q) = q
        /\ \A x \in Kids(q) : Trade(x, p, q) \in Paths => Trade(x, p, q) \in Kids(p)
        /\ \A x \in Kids(p) : Trade(x, p, q) \in Paths => Trade(x, p, q) \in Kids(q)
        /\ \A x : x \notin Family(p) /\ x \notin Family(q) => Trade(x, p, q) = x
    BY TradeFacts
  <1>2. \A x \in Paths : up'[x] = IF op.flags # "EXCHANGE" /\ x \in Family(p)
                     THEN IF x = p /\ op.flags = "WHITEOUT" THEN Whiteout ELSE NoNode
                     ELSE IF Trade(x, p, q) \in Paths THEN up[Trade(x, p, q)] ELSE NoNode
    OBVIOUS
  <1>3. UpTyped'
    <2>1. \A x \in Paths : up'[x] \in {Whiteout, NoNode} \/ (\E y \in Paths : up'[x] = up[y])
      BY <1>2
    <2>2. \A x \in Paths : NodeInv(up'[x])
      BY <2>1, NoNodeInv DEF UpTyped
    <2>3. up' = [x \in Paths |-> up'[x]]
      OBVIOUS
    <2> QED
      BY <2>2, <2>3 DEF UpTyped
  <1>4. q \notin Family(p) /\ p \in Family(p)
    BY DEF Family
  <1>5. \A x \in Paths : x \notin Family(p) /\ x \notin Family(q) => up'[x] = up[x]
    BY <1>1, <1>2
  <1>6. up'[q] = up[p] /\ (op.flags = "EXCHANGE" => up'[p] = up[q])
    BY <1>1, <1>2, <1>4
  <1>7. ASSUME NEW x \in Kids(q), up'[x].kind # "no" PROVE up[p].kind = "dir"
    <2>1. x \in Paths /\ Parent(x) = q
      BY KidFacts
    <2>2. x \notin Family(p)
      <3>1. x # p
        OBVIOUS
      <3>2. ASSUME x \in Kids(p) PROVE FALSE
        BY <2>1, <3>2, KidFacts
      <3> QED
        BY <3>1, <3>2 DEF Family
    <2>3. PICK y : y = Trade(x, p, q)
      OBVIOUS
    <2>4. y \in Paths /\ up'[x] = up[y]
      BY <1>2, <1>7, <2>1, <2>2, <2>3, NoNodeInv
    <2>5. y \in Kids(p)
      BY <1>1, <2>3, <2>4
    <2>6. Parent(y) = p /\ p # <<>>
      BY <2>5, KidFacts, PathFacts
    <2> QED
      BY <1>7, <2>4, <2>6 DEF Tree, UpDir
  <1>8. ASSUME NEW x \in Kids(p), up'[x].kind # "no"
        PROVE  up[q].kind = "dir" /\ op.flags = "EXCHANGE"
    <2>1. x \in Paths /\ x # p /\ x \in Family(p)
      BY KidFacts DEF Family
    <2>2. PICK y : y = Trade(x, p, q)
      OBVIOUS
    <2>3. op.flags = "EXCHANGE"
      BY <1>2, <1>8, <2>1, NoNodeInv
    <2>4. y \in Paths /\ up'[x] = up[y]
      BY <1>2, <1>8, <2>1, <2>2, <2>3, NoNodeInv
    <2>5. y \in Kids(q)
      BY <1>1, <2>2, <2>4
    <2>6. Parent(y) = q /\ q # <<>>
      BY <2>5, KidFacts, PathFacts
    <2> QED
      BY <1>8, <2>3, <2>4, <2>6 DEF Tree, UpDir
  <1>9. \A x \in Paths : (op.flags = "EXCHANGE" \/ x \notin Family(p)) /\ Trade(x, p, q) \in Paths =>
          up'[x] = up[Trade(x, p, q)]
    BY <1>2
  <1>10. \A x \in Paths : Trade(x, p, q) \notin Paths => up'[x] \in {NoNode, Whiteout}
    BY <1>2
  <1> QED
    BY <1>3, <1>5, <1>6, <1>7, <1>8, <1>9, <1>10 DEF Moved

\* The directories of p and q are neither.
LEMMA MovedAbove ==
  ASSUME NEW p \in Paths, NEW q \in Paths, Moved(p, q), NEW x \in Paths,
         x \notin Kids(p), x \notin Kids(q), UpDir(Parent(x))
  PROVE  Parent(x) = <<>> \/ up'[Parent(x)].kind = "dir"
  <1>1. Parent(x) = <<>> \/ (Parent(x) \in Paths /\ Parent(x) \notin Family(p))
    BY OutsideFacts
  <1>2. Parent(x) = <<>> \/ (Parent(x) \in Paths /\ Parent(x) \notin Family(q))
    BY OutsideFacts
  <1> QED
    BY <1>1, <1>2 DEF Moved, UpDir

LEMMA MovedTree ==
  ASSUME Tree, NEW p \in Paths, NEW q \in Paths, p # q, q \notin Kids(p), p \notin Kids(q),
         Moved(p, q), UpDir(Parent(p)), UpDir(Parent(q))
  PROVE  Tree'
  <1>1. SUFFICES ASSUME NEW x \in Paths, up'[x].kind # "no"
                 PROVE  Parent(x) = <<>> \/ up'[Parent(x)].kind = "dir"
    BY DEF Tree, UpDir
  <1>2. CASE x \in Kids(p)
    BY <1>1, <1>2, KidFacts DEF Moved
  <1>3. CASE x \in Kids(q)
    BY <1>1, <1>3, KidFacts DEF Moved
  <1>4. CASE x \notin Kids(p) /\ x \notin Kids(q)
    <2>1. UpDir(Parent(x))
      <3>1. CASE x \in {p, q}
        BY <3>1
      <3>2. CASE x \notin {p, q}
        BY <1>1, <1>4, <3>2 DEF Moved, Family, Tree
      <3> QED
        BY <3>1, <3>2
    <2> QED
      BY <1>4, <2>1, MovedAbove
  <1> QED
    BY <1>2, <1>3, <1>4

LEMMA DoRenameStep ==
  ASSUME DirInv, DoRename
  PROVE  DirInv'
  <1>1. /\ Shape /\ Tree /\ CacheTree /\ Settled /\ Names /\ MakeInv /\ RemoveInv /\ ClearInv
        /\ RenameInv /\ WorkInv /\ UpTyped /\ DcTyped /\ WorkTyped /\ OpTyped /\ UsedTyped
    BY ShapeParts DEF DirInv
  <1>2. op.pc = "rename" /\ UNCHANGED <<layers, work, dc>>
    BY DEF DoRename
  <1>3. Renaming /\ work' = NoWork /\ Unsettled = {} /\ op.err = ""
    BY <1>1, <1>2 DEF RenameInv, WorkInv, Unsettled, Names
  <1>4. ASSUME NEW e, e # "", Fail(e), UNCHANGED up, UsedTyped' PROVE DirInv'
    <2>1. KeepCall /\ OpTyped' /\ op'.pc = "ret" /\ op'.err = e /\ op'.list = op.list
      BY <1>1, <1>4, FailFacts
    <2> QED
      BY <1>2, <1>3, <1>4, <2>1, FailStep
  <1>5. CASE Fault /\ Fail("EIO") /\ UNCHANGED up
    <2>1. UsedTyped'
      BY <1>1, <1>5, FaultTyped
    <2> QED
      BY <1>4, <1>5, <2>1
  <1>6. CASE Fail(IF KidNodes(op.q) # {} THEN "ENOTEMPTY" ELSE "EINVAL") /\ UNCHANGED <<up, used>>
    <2>1. UsedTyped'
      BY <1>1, <1>6, UsedKept
    <2>2. PICK e : e = IF KidNodes(op.q) # {} THEN "ENOTEMPTY" ELSE "EINVAL"
      OBVIOUS
    <2> QED
      BY <1>4, <1>6, <2>1, <2>2
  <1>7. PICK p, q : p = op.p /\ q = op.q
    OBVIOUS
  <1>8. /\ p \in Paths /\ q \in Paths /\ p # q /\ q \notin Kids(p) /\ p \notin Kids(q)
        /\ UpDir(Parent(p)) /\ UpDir(Parent(q)) /\ Anchored(p) /\ Anchored(q) /\ op.fn \in AllFns
    BY <1>1, <1>2, <1>3, <1>7 DEF Names
  <1>9. CASE /\ up' = [x \in Paths |->
                         LET y == Trade(x, op.p, op.q)
                         IN IF op.flags # "EXCHANGE" /\ x \in Family(op.p)
                            THEN IF x = op.p /\ op.flags = "WHITEOUT" THEN Whiteout ELSE NoNode
                            ELSE IF y \in Paths THEN up[y] ELSE NoNode]
             /\ op' = [op EXCEPT !.done = TRUE, !.pc = IF op.sweep THEN "sweep" ELSE "ret"]
             /\ UNCHANGED used
    <2>1. /\ KeepCall /\ OpTyped' /\ op'.pc = (IF op.sweep THEN "sweep" ELSE "ret")
          /\ op'.err = "" /\ op'.list = op.list
      BY <1>1, <1>3, <1>9 DEF OpTyped, KeepCall, OpFields
    <2>2. UpTyped' /\ Moved(p, q)
      BY <1>1, <1>7, <1>8, <1>9, MovedFacts
    <2>3. Shape'
      BY <1>1, <1>2, <1>9, <2>1, <2>2, ShapeNext, UsedKept DEF DcTyped, WorkTyped
    <2>4. Tree'
      BY <1>1, <1>8, <2>2, MovedTree
    <2>5. SameFlags
      BY <1>2 DEF SameFlags
    <2>6. CacheTree'
      BY <1>1, <2>1, <2>5, CacheKept
    <2>7. (Making' <=> Making) /\ (Removing' <=> Removing) /\ (Renaming' <=> Renaming)
          /\ op'.p = p /\ op'.q = q /\ op'.fn = op.fn /\ op'.sweep = op.sweep
          /\ op'.flags = op.flags
      BY <1>7, <2>1, CallKept DEF KeepCall
    <2>8. ~Making /\ ~Removing
      BY <1>1, <1>2, <1>3, CallFacts
    <2>9. Settled'
      <3>1. SUFFICES ASSUME NEW x \in Paths, Seen(x)'.hashed PROVE Agrees(Seen(x)', up'[x])
        BY DEF Settled
      <3>2. PICK y : y = Trade(x, p, q)
        OBVIOUS
      <3>3. Seen(x)' = IF op.fn = "rename" /\ x \in Family(p) THEN NoEntry
                       ELSE IF y \in Paths THEN dc[y] ELSE NoEntry
        BY <1>2, <1>3, <2>1, <2>7, <3>2 DEF Seen, Renamed
      <3>4. y \in Paths /\ Seen(x)' = dc[y] /\ ~(op.fn = "rename" /\ x \in Family(p))
        BY <3>1, <3>3, NoEntryInv
      <3>5. op.fn = "exchange" => op.flags = "EXCHANGE"
        BY <1>1, <1>2 DEF RenameInv
      <3>6. up'[x] = up[y]
        BY <1>3, <2>2, <3>2, <3>4, <3>5 DEF Moved, Renaming
      <3>7. dc[y].hashed => Agrees(dc[y], up[y])
        BY <1>1, <1>2, <1>3, <3>4 DEF Settled, Seen
      <3> QED
        BY <3>1, <3>4, <3>6, <3>7
    <2>10. Names'
      <3>1. Anchored(op.p)' /\ Anchored(op.q)'
        BY <1>2, <1>8, <2>7 DEF Anchored
      <3>2. UpAbove'
        <4>1. p \notin Kids(p) /\ q \notin Kids(q)
          BY <1>8, PathFacts
        <4>2. Parent(p) = <<>> \/ up'[Parent(p)].kind = "dir"
          BY <1>8, <2>2, <4>1, MovedAbove
        <4>3. Parent(q) = <<>> \/ up'[Parent(q)].kind = "dir"
          BY <1>8, <2>2, <4>1, MovedAbove
        <4> QED
          BY <2>7, <4>2, <4>3 DEF UpAbove, UpDir
      <3> QED
        BY <1>1, <1>2, <2>1, <3>1, <3>2, NamesNext
    <2>11. MakeInv' /\ RemoveInv'
      BY <2>1, <2>7, <2>8 DEF MakeInv, RemoveInv
    <2>12. ClearInv'
      BY <1>1, <1>2, <2>1, <2>7 DEF ClearInv
    <2>13. RenameInv'
      <3>1. op.sweep => op.fn = "rename" /\ op.list = {} /\ op.flags = "EXCHANGE" /\ up[q].kind # "dir"
        BY <1>1, <1>2, <1>7 DEF RenameInv
      <3>2. op.sweep => Bare(op.p)'
        BY <2>2, <2>7, <3>1 DEF Bare, Moved
      <3> QED
        BY <1>3, <2>1, <2>7, <3>1, <3>2 DEF RenameInv
    <2>14. WorkInv'
      BY <1>3, WorkNone
    <2> QED
      BY <2>3, <2>4, <2>6, <2>9, <2>10, <2>11, <2>12, <2>13, <2>14, Zenon DEF DirInv
  <1> QED
    BY <1>5, <1>6, <1>9 DEF DoRename

LEMMA SweepStep ==
  ASSUME DirInv, Sweep
  PROVE  DirInv'
  <1>1. /\ Shape /\ Tree /\ CacheTree /\ Settled /\ Names /\ MakeInv /\ RemoveInv /\ ClearInv
        /\ RenameInv /\ WorkInv /\ UpTyped /\ DcTyped /\ WorkTyped /\ OpTyped /\ UsedTyped
    BY ShapeParts DEF DirInv
  <1>2. /\ op.pc = "sweep" /\ up' = [up EXCEPT ![op.p] = NoNode] /\ Finish
        /\ UNCHANGED <<layers, work, dc, used>>
    BY DEF Sweep
  <1>3. /\ Renaming /\ work' = NoWork /\ Unsettled = {} /\ op.err = "" /\ op.sweep
        /\ Bare(op.p) /\ op.fn = "rename"
    BY <1>1, <1>2 DEF RenameInv, WorkInv, Unsettled, Names
  <1>4. op.p \in Paths /\ Anchored(op.p) /\ Anchored(op.q) /\ ~Making /\ ~Removing
    BY <1>1, <1>2, <1>3, CallFacts DEF Names
  <1>5. KeepCall /\ OpTyped' /\ op'.pc = "ret" /\ op'.err = op.err /\ op'.list = op.list
    BY <1>1, <1>2, FinishFacts
  <1>6. (Making' <=> Making) /\ (Removing' <=> Removing) /\ (Renaming' <=> Renaming)
        /\ op'.p = op.p /\ op'.q = op.q /\ op'.fn = op.fn /\ op'.sweep = op.sweep
        /\ op'.flags = op.flags
    BY <1>5, CallKept DEF KeepCall
  <1>7. UpTyped' /\ up'[op.p] = NoNode /\ \A x \in Paths : x # op.p => up'[x] = up[x]
    BY <1>1, <1>2, <1>4, NoNodeInv, UpSet
  <1>8. Shape'
    BY <1>1, <1>2, <1>5, <1>7, ShapeNext, UsedKept DEF DcTyped, WorkTyped
  <1>9. Tree'
    BY <1>1, <1>3, <1>4, <1>7, NoNodeInv, TreeSet
  <1>10. SameFlags
    BY <1>2 DEF SameFlags
  <1>11. CacheTree'
    BY <1>1, <1>5, <1>10, CacheKept
  <1>12. Settled'
    <2>1. SUFFICES ASSUME NEW x \in Paths, Seen(x)'.hashed PROVE Agrees(Seen(x)', up'[x])
      BY DEF Settled
    <2>2. Seen(x)' = Renamed(x) /\ Seen(x) = Renamed(x)
      BY <1>2, <1>5, <1>6 DEF Seen, Renamed
    <2>3. x # op.p
      <3>1. ASSUME x = op.p PROVE FALSE
        <4>1. Renamed(x) = NoEntry
          BY <1>3, <3>1 DEF Renamed, Family
        <4> QED
          BY <2>1, <2>2, <4>1, NoEntryInv
      <3> QED
        BY <3>1
    <2>4. Renamed(x).hashed => Agrees(Renamed(x), up[x])
      BY <1>1, <1>3, <2>2 DEF Settled
    <2> QED
      BY <1>7, <2>1, <2>2, <2>3, <2>4
  <1>13. Names'
    <2>1. Anchored(op.p)' /\ Anchored(op.q)'
      BY <1>2, <1>4, <1>6 DEF Anchored
    <2> QED
      BY <1>1, <1>2, <1>5, <2>1, NamesNext
  <1>14. MakeInv' /\ RemoveInv'
    BY <1>4, <1>5, <1>6 DEF MakeInv, RemoveInv
  <1>15. ClearInv' /\ RenameInv'
    BY <1>1, <1>2, <1>3, <1>5, <1>6 DEF ClearInv, RenameInv
  <1>16. WorkInv'
    BY <1>3, WorkNone
  <1> QED
    BY <1>8, <1>9, <1>11, <1>12, <1>13, <1>14, <1>15, <1>16, Zenon DEF DirInv

-----------------------------------------------------------------------------
(* The end of a call, a crash, and a lookup between two calls. *)

\* Between two calls nothing is said of a call.
LEMMA IdleFacts ==
  ASSUME op'.pc = "idle", op'.fn \in AllFns \cup {"none"}, work' = NoWork
  PROVE  Names' /\ MakeInv' /\ RemoveInv' /\ ClearInv' /\ RenameInv' /\ WorkInv'
  <1>1. Names'
    BY DEF Names
  <1>2. MakeInv' /\ RemoveInv'
    BY DEF MakeInv, RemoveInv
  <1>3. ClearInv' /\ RenameInv'
    BY DEF ClearInv, RenameInv
  <1>4. WorkInv'
    BY WorkNone
  <1> QED
    BY <1>1, <1>2, <1>3, <1>4, Zenon

LEMMA IdleTyped ==
  ASSUME NEW how, op' = Idle(how)
  PROVE  OpTyped' /\ op'.pc = "idle" /\ op'.fn \in AllFns \cup {"none"}
  BY DEF Idle, OpTyped, OpFields

\* d_move and d_exchange keep the cache a tree.
LEMMA RenamedAbove ==
  ASSUME CacheTree, Names, op.pc = "ret", NEW x \in Paths, Renamed(x).hashed
  PROVE  Parent(x) = <<>> \/ (Parent(x) \in Paths /\ Renamed(Parent(x)).hashed /\ Renamed(Parent(x)).dir)
  <1>1. Parent(x) = <<>> \/ Parent(x) \in Paths
    BY AboveFacts
  <1>2. CASE ~Renaming \/ op.err # ""
    <2>1. \A y : Renamed(y) = dc[y]
      BY <1>2 DEF Renamed
    <2> QED
      BY <1>1, <2>1 DEF CacheTree, Anchored
  <1>3. CASE Renaming /\ op.err = ""
    <2>1. PICK p, q : p = op.p /\ q = op.q
      OBVIOUS
    <2>2. /\ p \in Paths /\ q \in Paths /\ p # q /\ q \notin Kids(p) /\ p \notin Kids(q)
          /\ Anchored(p) /\ Anchored(q)
      BY <1>3, <2>1 DEF Names
    <2>3. /\ Trade(q, p, q) = p /\ Trade(p, p, q) = q
          /\ \A z \in Kids(q) : Trade(z, p, q) \in Paths => Trade(z, p, q) \in Kids(p)
          /\ \A z \in Kids(p) : Trade(z, p, q) \in Paths => Trade(z, p, q) \in Kids(q)
          /\ \A z : z \notin Family(p) /\ z \notin Family(q) => Trade(z, p, q) = z
      BY <2>2, TradeFacts
    <2>4. \A z : Renamed(z) = IF op.fn = "rename" /\ z \in Family(p) THEN NoEntry
                              ELSE IF Trade(z, p, q) \in Paths THEN dc[Trade(z, p, q)] ELSE NoEntry
      BY <1>3, <2>1 DEF Renamed
    <2>5. PICK y : y = Trade(x, p, q)
      OBVIOUS
    <2>6. y \in Paths /\ dc[y].hashed /\ ~(op.fn = "rename" /\ x \in Family(p))
      BY <2>4, <2>5, NoEntryInv
    <2>7. p \in Family(p) /\ q \notin Family(p) /\ Kids(p) \subseteq Family(p)
      BY <2>2 DEF Family
    <2>8. CASE x \in Kids(q)
      <3>1. y \in Kids(p) /\ Parent(x) = q
        BY <2>2, <2>3, <2>5, <2>6, <2>8, KidFacts
      <3>2. Parent(y) = p /\ p # <<>> /\ Anchored(y)
        BY <2>2, <2>6, <3>1, KidFacts, PathFacts DEF CacheTree
      <3>3. Renamed(q) = dc[p]
        BY <2>2, <2>3, <2>4, <2>7
      <3> QED
        BY <2>2, <3>1, <3>2, <3>3 DEF Anchored
    <2>9. CASE x \in Kids(p)
      <3>1. y \in Kids(q) /\ Parent(x) = p
        BY <2>2, <2>3, <2>5, <2>6, <2>9, KidFacts
      <3>2. Parent(y) = q /\ q # <<>> /\ Anchored(y)
        BY <2>2, <2>6, <3>1, KidFacts, PathFacts DEF CacheTree
      <3>3. Renamed(p) = dc[q]
        BY <2>2, <2>3, <2>4, <2>6, <2>7, <2>9
      <3> QED
        BY <2>2, <3>1, <3>2, <3>3 DEF Anchored
    <2>10. CASE x \notin Kids(p) /\ x \notin Kids(q)
      <3>1. Anchored(x)
        <4>1. CASE x \in {p, q}
          BY <2>2, <4>1
        <4>2. CASE x \notin {p, q}
          BY <2>3, <2>5, <2>6, <2>10, <4>2 DEF Family, CacheTree
        <4> QED
          BY <4>1, <4>2
      <3>2. Parent(x) = <<>> \/ (Parent(x) \in Paths /\ Parent(x) \notin Family(p))
        BY <2>2, <2>10, OutsideFacts
      <3>3. Parent(x) = <<>> \/ (Parent(x) \in Paths /\ Parent(x) \notin Family(q))
        BY <2>2, <2>10, OutsideFacts
      <3>4. Parent(x) # <<>> => Renamed(Parent(x)) = dc[Parent(x)]
        BY <2>3, <2>4, <3>2, <3>3
      <3> QED
        BY <3>1, <3>2, <3>4 DEF Anchored
    <2> QED
      BY <2>8, <2>9, <2>10
  <1> QED
    BY <1>2, <1>3

LEMMA RenamedEntry ==
  ASSUME DcTyped, NEW x \in Paths
  PROVE  EntryInv(Renamed(x))
  BY NoEntryInv DEF DcTyped, Renamed

LEMMA ReturnStep ==
  ASSUME DirInv, Return
  PROVE  DirInv'
  <1>1. /\ Shape /\ Tree /\ CacheTree /\ Settled /\ Names /\ MakeInv /\ RemoveInv /\ ClearInv
        /\ RenameInv /\ WorkInv /\ UpTyped /\ DcTyped /\ WorkTyped /\ OpTyped /\ UsedTyped
    BY ShapeParts DEF DirInv
  <1>2. op.pc = "ret" /\ UNCHANGED <<layers, up, work, used>>
        /\ dc' = [x \in Paths |-> IF Renamed(x).hashed THEN Renamed(x) ELSE NoEntry]
    BY DEF Return
  <1>3. OpTyped' /\ op'.pc = "idle" /\ op'.fn \in AllFns \cup {"none"}
    BY IdleTyped DEF Return
  <1>4. work' = NoWork /\ Unsettled = {} /\ Unsettled' = {}
    BY <1>1, <1>2, <1>3 DEF WorkInv, Unsettled
  <1>5. \A x \in Paths : dc'[x] = IF Renamed(x).hashed THEN Renamed(x) ELSE NoEntry
    BY <1>2
  <1>6. \A x \in Paths : EntryInv(dc'[x])
    BY <1>1, <1>5, RenamedEntry, NoEntryInv
  <1>7. DcTyped'
    <2>1. dc' = [x \in Paths |-> dc'[x]]
      BY <1>2
    <2> QED
      BY <1>6, <2>1 DEF DcTyped
  <1>8. Shape'
    BY <1>1, <1>2, <1>3, <1>7, ShapeNext, UsedKept DEF UpTyped, WorkTyped
  <1>9. Tree'
    BY <1>1, <1>2, TreeKept DEF SameKinds
  <1>10. CacheTree'
    <2>1. ASSUME NEW x \in Paths, dc'[x].hashed
          PROVE  Parent(x) = <<>> \/ (dc'[Parent(x)].hashed /\ dc'[Parent(x)].dir)
      <3>1. Renamed(x).hashed
        BY <1>5, <2>1, NoEntryInv
      <3>2. \/ Parent(x) = <<>>
            \/ Parent(x) \in Paths /\ Renamed(Parent(x)).hashed /\ Renamed(Parent(x)).dir
        BY <1>1, <1>2, <3>1, RenamedAbove
      <3> QED
        BY <1>5, <3>2
    <2>2. ASSUME NEW x \in Paths, dc'[x].dir PROVE dc'[x].hashed
      BY <1>5, <2>2, NoEntryInv
    <2> QED
      BY <2>1, <2>2 DEF CacheTree, Anchored
  <1>11. Settled'
    <2>1. SUFFICES ASSUME NEW x \in Paths, Seen(x)'.hashed PROVE Agrees(Seen(x)', up'[x])
      BY DEF Settled
    <2>2. Seen(x)' = dc'[x] /\ Seen(x) = Renamed(x)
      BY <1>2, <1>3 DEF Seen
    <2>3. Renamed(x).hashed /\ dc'[x] = Renamed(x)
      BY <1>5, <2>1, <2>2, NoEntryInv
    <2> QED
      BY <1>1, <1>2, <1>4, <2>2, <2>3 DEF Settled
  <1>12. Names' /\ MakeInv' /\ RemoveInv' /\ ClearInv' /\ RenameInv' /\ WorkInv'
    BY <1>3, <1>4, IdleFacts
  <1> QED
    BY <1>8, <1>9, <1>10, <1>11, <1>12, Zenon DEF DirInv

LEMMA NoDentryFacts ==
  /\ NoDentry = [x \in Paths |-> NoDentry[x]]
  /\ \A x \in Paths : NoDentry[x] = NoEntry /\ EntryInv(NoDentry[x])
  BY NoEntryInv DEF NoDentry

LEMMA CrashStep ==
  ASSUME DirInv, Crash
  PROVE  DirInv'
  <1>1. /\ Shape /\ Tree /\ CacheTree /\ Settled /\ Names /\ MakeInv /\ RemoveInv /\ ClearInv
        /\ RenameInv /\ WorkInv /\ UpTyped /\ DcTyped /\ WorkTyped /\ OpTyped /\ UsedTyped
    BY ShapeParts DEF DirInv
  <1>2. /\ UNCHANGED <<layers, up>> /\ dc' = NoDentry /\ work' = NoWork
        /\ used.faults + used.crashes < MaxTroubles
        /\ used' = [used EXCEPT !.crashes = @ + 1]
    BY DEF Crash
  <1>3. OpTyped' /\ op'.pc = "idle" /\ op'.fn \in AllFns \cup {"none"}
    BY IdleTyped DEF Crash
  <1>4. UsedTyped'
    BY <1>1, <1>2, DirOpsAssumption DEF UsedTyped
  <1>5. DcTyped' /\ \A x \in Paths : dc'[x] = NoEntry
    BY <1>2, NoDentryFacts DEF DcTyped
  <1>6. Shape'
    BY <1>1, <1>2, <1>3, <1>4, <1>5, ShapeNext, NoWorkTyped DEF UpTyped, WorkTyped
  <1>7. Tree'
    BY <1>1, <1>2, TreeKept DEF SameKinds
  <1>8. CacheTree' /\ Settled'
    BY <1>3, <1>5, NoEntryInv DEF CacheTree, Settled, Seen
  <1>9. Names' /\ MakeInv' /\ RemoveInv' /\ ClearInv' /\ RenameInv' /\ WorkInv'
    BY <1>2, <1>3, IdleFacts
  <1> QED
    BY <1>6, <1>7, <1>8, <1>9, Zenon DEF DirInv

LEMMA UpLayer ==
  ASSUME UpTyped
  PROVE  LayerOk(up)
  <1>1. \A x \in Paths : up[x] \in NodeType /\ GoodName(up[x].redirect)
    BY DEF UpTyped, NodeInv
  <1> QED
    BY <1>1 DEF UpTyped, LayerOk

LEMMA DoLookupStep ==
  ASSUME DirInv, NEW p \in Paths, DoLookup(p)
  PROVE  DirInv'
  <1>1. /\ Shape /\ Tree /\ CacheTree /\ Settled /\ Names /\ MakeInv /\ RemoveInv /\ ClearInv
        /\ RenameInv /\ WorkInv /\ UpTyped /\ DcTyped /\ WorkTyped /\ OpTyped /\ UsedTyped
    BY ShapeParts DEF DirInv
  <1>2. PICK parent : parent = D(Parent(p))
    OBVIOUS
  <1>3. PICK e : e = Lookup(up, lower, parent, p)
    OBVIOUS
  <1>4. /\ op.pc = "idle" /\ ~dc[p].hashed /\ parent.dir /\ UNCHANGED <<layers, work, op, used>>
        /\ dc' = [dc EXCEPT ![p] = e] /\ up' = FixOrigin(up, p, e)
    BY <1>2, <1>3 DEF DoLookup
  <1>5. /\ work = NoWork /\ work' = NoWork /\ op'.pc = "idle" /\ Unsettled = {} /\ Unsettled' = {}
        /\ op'.fn \in AllFns \cup {"none"}
    BY <1>1, <1>4 DEF WorkInv, Unsettled, Names
  <1>6. Parent(p) = <<>> \/ (Parent(p) # <<>> /\ Parent(p) \in Paths /\ p \in Kids(Parent(p)))
    BY AboveFacts
  <1>7. Parent(p) = <<>> => parent.upper = TRUE
    BY <1>2 DEF D, RootEntry, NoEntry
  <1>8. Parent(p) # <<>> => parent = dc[Parent(p)] /\ parent.hashed /\ parent.upper \in BOOLEAN
    BY <1>1, <1>2, <1>4, <1>6 DEF D, CacheTree, DcTyped, EntryInv
  <1>9. parent.upper \in BOOLEAN
    BY <1>7, <1>8
  <1>10. LayerOk(up) /\ <<config, lower>> \in Mounts
    BY <1>1, UpLayer DEF Shape
  <1>11. /\ EntryInv(e) /\ (e.dir => e.hashed)
         /\ e.hashed => /\ e.upper <=> parent.upper /\ up[p].kind \in Objects
                        /\ e.upper => (e.dir <=> up[p].kind = "dir")
    BY <1>3, <1>9, <1>10, LookupFacts
  <1>12. DcTyped' /\ dc'[p] = e /\ \A x \in Paths : x # p => dc'[x] = dc[x]
    BY <1>1, <1>4, <1>11, DcSet
  <1>13. UpTyped' /\ SameKinds
    <2>1. CASE up' = up
      BY <1>1, <2>1 DEF UpTyped, SameKinds
    <2>2. CASE up' # up
      <3>1. e.upper /\ e.dir /\ up' = [up EXCEPT ![p].origin = TRUE]
        BY <1>4, <2>2 DEF FixOrigin
      <3>2. up[p].kind = "dir" /\ NodeInv(up[p])
        BY <1>1, <1>11, <3>1 DEF UpTyped
      <3>3. PICK n : n = [up[p] EXCEPT !.origin = TRUE]
        OBVIOUS
      <3>4. NodeInv(n) /\ n.kind = up[p].kind
        BY <3>2, <3>3 DEF NodeInv, NodeType
      <3>5. up' = [up EXCEPT ![p] = n]
        BY <3>1, <3>3
      <3>6. UpTyped' /\ up'[p] = n /\ \A x \in Paths : x # p => up'[x] = up[x]
        BY <1>1, <3>4, <3>5, UpSet
      <3> QED
        BY <3>4, <3>6 DEF SameKinds
    <2> QED
      BY <2>1, <2>2
  <1>14. Shape'
    BY <1>1, <1>4, <1>12, <1>13, ShapeNext, UsedKept DEF WorkTyped, OpTyped
  <1>15. Tree'
    BY <1>1, <1>13, TreeKept
  <1>16. CacheTree'
    <2>1. ASSUME NEW x \in Paths, dc'[x].hashed
          PROVE  Parent(x) = <<>> \/ (dc'[Parent(x)].hashed /\ dc'[Parent(x)].dir)
      <3>1. CASE x = p
        BY <1>4, <1>6, <1>8, <1>12, <3>1, PathFacts
      <3>2. CASE x # p
        <4>1. dc[x].hashed /\ Anchored(x)
          BY <1>1, <1>12, <2>1, <3>2 DEF CacheTree
        <4>2. Parent(x) # p
          BY <1>4, <4>1, PathFacts DEF Anchored
        <4> QED
          BY <1>12, <4>1, <4>2, AboveFacts DEF Anchored
      <3> QED
        BY <3>1, <3>2
    <2>2. ASSUME NEW x \in Paths, dc'[x].dir PROVE dc'[x].hashed
      BY <1>1, <1>4, <1>11, <1>12, <2>2 DEF CacheTree
    <2> QED
      BY <2>1, <2>2 DEF CacheTree, Anchored
  <1>17. Settled'
    <2>1. SUFFICES ASSUME NEW x \in Paths, Seen(x)'.hashed PROVE Agrees(Seen(x)', up'[x])
      BY DEF Settled
    <2>2. \A y \in Paths : Seen(y)' = dc'[y] /\ Seen(y) = dc[y]
      BY <1>4, <1>5 DEF Seen
    <2>3. \A y \in Paths : dc[y].hashed => Agrees(dc[y], up[y])
      BY <1>1, <1>5, <2>2 DEF Settled
    <2>4. CASE x # p
      BY <1>12, <1>13, <2>1, <2>2, <2>3, <2>4 DEF Agrees, SameKinds
    <2>5. CASE x = p
      <3>1. ASSUME up[p].kind \in Objects, Parent(p) # <<>> PROVE parent.upper
        <4>1. up[Parent(p)].kind = "dir"
          BY <1>1, <3>1 DEF Tree, UpDir, Objects
        <4> QED
          BY <1>6, <1>8, <2>3, <3>1, <4>1 DEF Agrees, Objects
      <3>2. Agrees(e, up[p])
        BY <1>7, <1>11, <1>12, <2>1, <2>2, <2>5, <3>1 DEF Agrees
      <3> QED
        BY <1>12, <1>13, <2>2, <2>5, <3>2 DEF Agrees, SameKinds
    <2> QED
      BY <2>4, <2>5
  <1>18. Names' /\ MakeInv' /\ RemoveInv' /\ ClearInv' /\ RenameInv' /\ WorkInv'
    BY <1>5, IdleFacts
  <1> QED
    BY <1>14, <1>15, <1>16, <1>17, <1>18, Zenon DEF DirInv

-----------------------------------------------------------------------------
(* The start of a call. *)

\* Only directories of the upper layer hold names.
LEMMA BareFacts ==
  ASSUME Tree, NEW p \in Paths, up[p].kind # "dir"
  PROVE  Bare(p)
  <1>1. SUFFICES ASSUME NEW k \in Kids(p), up[k].kind # "no" PROVE FALSE
    BY DEF Bare
  <1>2. k \in Paths /\ Parent(k) = p /\ p # <<>>
    BY KidFacts, PathFacts
  <1> QED
    BY <1>1, <1>2 DEF Tree, UpDir

\* Between two calls the dentries agree with the upper layer.
LEMMA IdleAgrees ==
  ASSUME Settled, op.pc = "idle", NEW x \in Paths, dc[x].hashed
  PROVE  Agrees(dc[x], up[x])
  <1>1. Unsettled = {} /\ Seen(x) = dc[x]
    BY DEF Unsettled, Seen
  <1> QED
    BY <1>1 DEF Settled

\* ovl_check_empty_dir lists every name that the upper directory holds.
LEMMA ListFacts ==
  ASSUME Tree, Settled, op.pc = "idle", NEW p \in Paths, dc[p].hashed,
         NEW k \in Kids(p), up[k].kind # "no"
  PROVE  k \in UpperWhiteouts(p)
  <1>1. up[p].kind = "dir"
    BY BareFacts DEF Bare
  <1>2. dc[p].upper
    BY <1>1, IdleAgrees DEF Agrees, Objects
  <1>3. D(p) = dc[p]
    BY PathFacts DEF D
  <1>4. PICK m : m = [name |-> k, upper |-> TRUE, node |-> up[k]]
    OBVIOUS
  <1>5. m \in MergedNames(p) /\ m.upper = TRUE /\ m.name = k
    BY <1>2, <1>3, <1>4 DEF MergedNames
  <1> QED
    BY <1>5 DEF UpperWhiteouts

\* A new call changes nothing yet.
LEMMA StartCommon ==
  ASSUME DirInv, op.pc = "idle", UNCHANGED <<layers, up, work, dc>>, UsedTyped', OpTyped',
         op'.pc \in {"body", "ret"}, op'.pc = "ret" <=> op'.err # "",
         op'.fn \in AllFns, op'.p \in Paths, dc[op'.p].hashed,
         Renaming' => /\ op'.q \in Paths /\ dc[op'.q].hashed
                      /\ op'.p # op'.q /\ op'.p \notin Kids(op'.q) /\ op'.q \notin Kids(op'.p)
  PROVE  /\ Shape' /\ Tree' /\ CacheTree' /\ Settled' /\ Names' /\ WorkInv'
  <1>1. /\ Shape /\ Tree /\ CacheTree /\ Settled /\ Names /\ MakeInv /\ RemoveInv /\ ClearInv
        /\ RenameInv /\ WorkInv /\ UpTyped /\ DcTyped /\ WorkTyped /\ OpTyped /\ UsedTyped
    BY ShapeParts DEF DirInv
  <1>2. work' = NoWork
    BY <1>1 DEF WorkInv
  <1>3. Shape'
    BY <1>1, ShapeNext DEF UpTyped, DcTyped, WorkTyped
  <1>4. Tree'
    BY <1>1, TreeKept DEF SameKinds
  <1>5. SameFlags
    BY DEF SameFlags
  <1>6. CacheTree'
    BY <1>1, <1>5, CacheKept
  <1>7. Settled'
    <2>1. SUFFICES ASSUME NEW x \in Paths, Seen(x)'.hashed PROVE Agrees(Seen(x)', up'[x])
      BY DEF Settled
    <2>2. Seen(x)' = dc[x]
      BY DEF Seen, Renamed
    <2> QED
      BY <1>1, <2>1, <2>2, IdleAgrees
  <1>8. \A x \in Paths : dc[x].hashed => Anchored(x)'
    BY <1>1 DEF CacheTree, Anchored
  <1>9. Anchored(op.p)' /\ (Renaming' => Anchored(op.q)')
    BY <1>8 DEF Anchored
  <1>10. Names'
    BY <1>9 DEF Names
  <1>11. WorkInv'
    BY <1>2, WorkNone
  <1> QED
    BY <1>3, <1>4, <1>6, <1>7, <1>10, <1>11, Zenon

\* The call in progress right after its start.
IsCall(fn, p, q, pc, err) ==
  /\ DOMAIN op' = OpFields /\ op'.pc = pc /\ op'.fn = fn /\ op'.p = p /\ op'.q = q
  /\ op'.err = err

Begun(b, fn, p, q) ==
  /\ DOMAIN b = OpFields /\ b.pc = "body" /\ b.fn = fn /\ b.p = p /\ b.q = q
  /\ b.err = "" /\ b.list = {} /\ b.sweep = FALSE /\ b.lowerPos = FALSE

LEMMA BeginFacts ==
  ASSUME NEW fn, NEW p, NEW q, NEW b, b = Begin(fn, p, q)
  PROVE  Begun(b, fn, p, q)
  BY DEF Begun, Begin, Idle, OpFields

\* A call that fails at once.
LEMMA BeginFails ==
  ASSUME NEW fn, NEW p, NEW q, NEW e, op' = [Begin(fn, p, q) EXCEPT !.pc = "ret", !.err = e]
  PROVE  IsCall(fn, p, q, "ret", e) /\ OpTyped' /\ op'.list = {} /\ op'.sweep = FALSE
         /\ op'.lowerPos = FALSE
  <1>1. PICK b : b = Begin(fn, p, q)
    OBVIOUS
  <1>2. /\ DOMAIN b = OpFields /\ b.fn = fn /\ b.p = p /\ b.q = q /\ b.list = {} /\ b.sweep = FALSE
        /\ b.lowerPos = FALSE
    <2>1. Begun(b, fn, p, q)
      BY <1>1, BeginFacts
    <2> QED
      BY <2>1 DEF Begun
  <1>3. op' = [b EXCEPT !.pc = "ret", !.err = e]
    BY <1>1
  <1> QED
    BY <1>2, <1>3 DEF IsCall, OpTyped, OpFields

LEMMA RestFails ==
  ASSUME op'.pc = "ret", op'.list = {}, op'.sweep = FALSE
  PROVE  MakeInv' /\ RemoveInv' /\ ClearInv' /\ RenameInv'
  <1>1. MakeInv' /\ RemoveInv'
    BY DEF MakeInv, RemoveInv
  <1>2. ClearInv' /\ RenameInv'
    BY DEF ClearInv, RenameInv
  <1> QED
    BY <1>1, <1>2

LEMMA StartCreateStep ==
  ASSUME DirInv, op.pc = "idle", UNCHANGED <<layers, up, work, dc>>, UsedTyped',
         NEW fn \in {"create", "mkdir"}, NEW p \in Paths, Cached(p), StartCreate(fn, p)
  PROVE  DirInv'
  <1>1. /\ Shape /\ Tree /\ CacheTree /\ Settled /\ Names /\ MakeInv /\ RemoveInv /\ ClearInv
        /\ RenameInv /\ WorkInv /\ UpTyped /\ DcTyped /\ WorkTyped /\ OpTyped /\ UsedTyped
    BY ShapeParts DEF DirInv
  <1>2. PICK b : b = Begin(fn, p, <<>>)
    OBVIOUS
  <1>3. /\ DOMAIN b = OpFields /\ b.pc = "body" /\ b.fn = fn /\ b.p = p /\ b.err = "" /\ b.list = {}
        /\ b.sweep = FALSE /\ b.lowerPos = FALSE
    <2>1. Begun(b, fn, p, <<>>)
      BY <1>2, BeginFacts
    <2> QED
      BY <2>1 DEF Begun
  <1>4. op' = b /\ ~dc[p].positive /\ dc[p].hashed
    BY <1>2 DEF StartCreate, Cached
  <1>5. OpTyped' /\ op'.fn \in AllFns /\ ~Renaming' /\ ~Removing'
    BY <1>3, <1>4 DEF OpTyped, AllFns, Renaming, Removing
  <1>6. Shape' /\ Tree' /\ CacheTree' /\ Settled' /\ Names' /\ WorkInv'
    BY <1>3, <1>4, <1>5, StartCommon
  <1>7. Bare(p)
    <2>1. ~dc[p].upper
      BY <1>1, <1>4 DEF DcTyped, EntryInv
    <2>2. up[p].kind # "dir"
      BY <1>1, <1>4, <2>1, IdleAgrees DEF Agrees, Objects
    <2> QED
      BY <1>1, <2>2, BareFacts
  <1>8. MakeInv'
    BY <1>3, <1>4, <1>7 DEF MakeInv, Making, Bare
  <1>9. RemoveInv' /\ ClearInv'
    BY <1>3, <1>4, <1>5 DEF RemoveInv, ClearInv
  <1>10. RenameInv'
    BY <1>3, <1>4, <1>5 DEF RenameInv, Renaming
  <1> QED
    BY <1>6, <1>8, <1>9, <1>10, Zenon DEF DirInv

LEMMA StartRemoveStep ==
  ASSUME DirInv, op.pc = "idle", UNCHANGED <<layers, up, work, dc>>, UsedTyped',
         NEW fn \in {"unlink", "rmdir"}, NEW p \in Paths, Cached(p), StartRemove(fn, p)
  PROVE  DirInv'
  <1>1. /\ Shape /\ Tree /\ CacheTree /\ Settled /\ Names /\ MakeInv /\ RemoveInv /\ ClearInv
        /\ RenameInv /\ WorkInv /\ UpTyped /\ DcTyped /\ WorkTyped /\ OpTyped /\ UsedTyped
    BY ShapeParts DEF DirInv
  <1>2. PICK lp : lp = LowerPositive(lower, D(Parent(p)), p, dc[p])
    OBVIOUS
  <1>3. PICK look : look = (fn = "rmdir" /\ (lp \/ ~PureUpper(dc[p])))
    OBVIOUS
  <1>4. /\ dc[p].positive /\ dc[p].dir = (fn = "rmdir") /\ dc[p].hashed
        /\ op' = IF look /\ ~CheckEmpty(p)
                 THEN [Begin(fn, p, <<>>) EXCEPT !.pc = "ret", !.err = "ENOTEMPTY"]
                 ELSE [Begin(fn, p, <<>>) EXCEPT
                         !.lowerPos = lp,
                         !.list = IF look THEN UpperWhiteouts(p) ELSE {}]
    BY <1>2, <1>3 DEF StartRemove, Cached
  <1>5. fn \in AllFns /\ fn \notin {"rename", "exchange", "create", "mkdir"}
    BY DEF AllFns
  <1>6. CASE op' = [Begin(fn, p, <<>>) EXCEPT !.pc = "ret", !.err = "ENOTEMPTY"]
    <2>1. /\ IsCall(fn, p, <<>>, "ret", "ENOTEMPTY") /\ OpTyped' /\ op'.list = {}
          /\ op'.sweep = FALSE /\ op'.lowerPos = FALSE
      BY <1>6, BeginFails
    <2>2. Shape' /\ Tree' /\ CacheTree' /\ Settled' /\ Names' /\ WorkInv'
      BY <1>4, <1>5, <2>1, StartCommon DEF IsCall, Renaming
    <2>3. MakeInv' /\ RemoveInv' /\ ClearInv' /\ RenameInv'
      BY <2>1, RestFails DEF IsCall
    <2> QED
      BY <2>2, <2>3, Zenon DEF DirInv
  <1>7. PICK list : list = IF look THEN UpperWhiteouts(p) ELSE {}
    OBVIOUS
  <1>8. CASE op' = [Begin(fn, p, <<>>) EXCEPT !.lowerPos = lp, !.list = list]
    <2>1. PICK b : b = Begin(fn, p, <<>>)
      OBVIOUS
    <2>2. /\ DOMAIN b = OpFields /\ b.pc = "body" /\ b.fn = fn /\ b.p = p /\ b.err = ""
          /\ b.sweep = FALSE
      <3>1. Begun(b, fn, p, <<>>)
        BY <2>1, BeginFacts
      <3> QED
        BY <3>1 DEF Begun
    <2>3. op' = [b EXCEPT !.lowerPos = lp, !.list = list]
      BY <1>8, <2>1
    <2>4. lp \in BOOLEAN
      BY <1>2, <1>4 DEF LowerPositive
    <2>5. /\ OpTyped' /\ op'.pc = "body" /\ op'.fn = fn /\ op'.p = p /\ op'.err = ""
          /\ op'.sweep = FALSE /\ op'.lowerPos = lp /\ op'.list = list
      BY <2>2, <2>3, <2>4 DEF OpTyped, OpFields
    <2>6. ~Renaming' /\ ~Making'
      BY <1>5, <2>5 DEF Renaming, Making
    <2>7. Shape' /\ Tree' /\ CacheTree' /\ Settled' /\ Names' /\ WorkInv'
      BY <1>4, <1>5, <2>5, <2>6, StartCommon
    <2>8. look => \A k \in Kids(p) : up[k].kind # "no" => k \in list
      BY <1>1, <1>4, <1>7, ListFacts
    <2>9. lp /\ ~look => Bare(p)
      <3>1. ASSUME lp, ~look PROVE ~dc[p].dir
        BY <1>3, <1>4, <3>1
      <3>2. ASSUME ~dc[p].dir PROVE up[p].kind # "dir"
        BY <1>1, <1>4, <3>2, IdleAgrees DEF Agrees, Objects
      <3> QED
        BY <1>1, <3>1, <3>2, BareFacts
    <2>10. MakeInv'
      BY <2>5, <2>6 DEF MakeInv
    <2>11. RemoveInv'
      <3>1. lp => Covers(op.p)'
        BY <2>5, <2>8, <2>9 DEF Covers, Bare
      <3> QED
        BY <2>5, <3>1 DEF RemoveInv
    <2>12. ClearInv'
      <3>1. list # {} => look /\ fn = "rmdir"
        BY <1>3, <1>7
      <3>2. Victim' = p
        BY <1>5, <2>5 DEF Victim
      <3>3. list # {} => Covers(Victim)'
        BY <2>5, <2>8, <3>1, <3>2 DEF Covers
      <3> QED
        BY <2>5, <3>1, <3>3 DEF ClearInv
    <2>13. RenameInv'
      BY <1>5, <2>5, <2>6 DEF RenameInv
    <2> QED
      BY <2>7, <2>10, <2>11, <2>12, <2>13, Zenon DEF DirInv
  <1> QED
    BY <1>4, <1>6, <1>7, <1>8

LEMMA StartRenameStep ==
  ASSUME DirInv, op.pc = "idle", UNCHANGED <<layers, up, work, dc>>, UsedTyped',
         NEW fn \in {"rename", "exchange"}, NEW p \in Paths, Cached(p),
         NEW q \in Paths, Cached(q), StartRename(fn, p, q)
  PROVE  DirInv'
  <1>1. /\ Shape /\ Tree /\ CacheTree /\ Settled /\ Names /\ MakeInv /\ RemoveInv /\ ClearInv
        /\ RenameInv /\ WorkInv /\ UpTyped /\ DcTyped /\ WorkTyped /\ OpTyped /\ UsedTyped
    BY ShapeParts DEF DirInv
  <1>2. PICK lp : lp = LowerPositive(lower, D(Parent(p)), p, dc[p])
    OBVIOUS
  <1>3. PICK look : look = (fn = "rename" /\ dc[q].dir /\ ~PureUpper(dc[q]))
    OBVIOUS
  <1>4. PICK flags : flags = CASE ~(fn = "rename") -> "EXCHANGE"
                                  [] fn = "rename" /\ lp -> IF IsWhiteout(dc[q]) THEN "EXCHANGE"
                                                            ELSE "WHITEOUT"
                                  [] fn = "rename" /\ ~lp -> IF dc[p].dir /\ IsWhiteout(dc[q])
                                                             THEN "EXCHANGE" ELSE ""
    OBVIOUS
  <1>5. PICK sweep : sweep = (fn = "rename" /\ ~lp /\ dc[p].dir /\ IsWhiteout(dc[q]))
    OBVIOUS
  <1>6. PICK list : list = IF look THEN UpperWhiteouts(q) ELSE {}
    OBVIOUS
  <1>7. /\ p # q /\ q \notin Kids(p) /\ p \notin Kids(q) /\ dc[p].positive
        /\ fn # "rename" => dc[q].positive
        /\ dc[p].hashed /\ dc[q].hashed
    BY DEF StartRename, Cached
  <1>8. \/ op' = [Begin(fn, p, q) EXCEPT !.pc = "ret", !.err = "EXDEV"]
        \/ op' = [Begin(fn, p, q) EXCEPT !.pc = "ret", !.err = "ENOTEMPTY"]
        \/ op' = [Begin(fn, p, q) EXCEPT !.list = list, !.flags = flags, !.sweep = sweep]
    BY <1>2, <1>3, <1>4, <1>5, <1>6 DEF StartRename
  <1>9. fn \in AllFns /\ fn \notin {"unlink", "rmdir", "create", "mkdir"}
    BY DEF AllFns
  <1>10. ASSUME NEW e, e # "", op' = [Begin(fn, p, q) EXCEPT !.pc = "ret", !.err = e]
         PROVE  DirInv'
    <2>1. /\ IsCall(fn, p, q, "ret", e) /\ OpTyped' /\ op'.list = {}
          /\ op'.sweep = FALSE /\ op'.lowerPos = FALSE
      BY <1>10, BeginFails
    <2>2. Shape' /\ Tree' /\ CacheTree' /\ Settled' /\ Names' /\ WorkInv'
      BY <1>7, <1>9, <1>10, <2>1, StartCommon DEF IsCall
    <2>3. MakeInv' /\ RemoveInv' /\ ClearInv' /\ RenameInv'
      BY <2>1, RestFails DEF IsCall
    <2> QED
      BY <2>2, <2>3, Zenon DEF DirInv
  <1>11. CASE op' = [Begin(fn, p, q) EXCEPT !.list = list, !.flags = flags, !.sweep = sweep]
    <2>1. PICK b : b = Begin(fn, p, q)
      OBVIOUS
    <2>2. /\ DOMAIN b = OpFields /\ b.pc = "body" /\ b.fn = fn /\ b.p = p /\ b.q = q /\ b.err = ""
          /\ b.lowerPos = FALSE
      <3>1. Begun(b, fn, p, q)
        BY <2>1, BeginFacts
      <3> QED
        BY <3>1 DEF Begun
    <2>3. op' = [b EXCEPT !.list = list, !.flags = flags, !.sweep = sweep]
      BY <1>11, <2>1
    <2>4. sweep \in BOOLEAN
      BY <1>5
    <2>5. /\ OpTyped' /\ op'.pc = "body" /\ op'.fn = fn /\ op'.p = p /\ op'.q = q /\ op'.err = ""
          /\ op'.sweep = sweep /\ op'.lowerPos = FALSE /\ op'.list = list /\ op'.flags = flags
      BY <2>2, <2>3, <2>4 DEF OpTyped, OpFields
    <2>6. Renaming' /\ ~Making' /\ ~Removing'
      BY <1>9, <2>5 DEF Renaming, Making, Removing
    <2>7. Shape' /\ Tree' /\ CacheTree' /\ Settled' /\ Names' /\ WorkInv'
      BY <1>7, <1>9, <2>5, <2>6, StartCommon
    <2>8. MakeInv' /\ RemoveInv'
      BY <2>5, <2>6 DEF MakeInv, RemoveInv
    <2>9. ClearInv'
      <3>1. list # {} => look /\ fn = "rename"
        BY <1>3, <1>6
      <3>2. ASSUME look PROVE \A k \in Kids(q) : up[k].kind # "no" => k \in list
        BY <1>1, <1>6, <1>7, <3>2, ListFacts
      <3>3. fn = "rename" => Victim' = q
        BY <2>5 DEF Victim
      <3>4. list # {} => Covers(Victim)'
        BY <2>5, <3>1, <3>2, <3>3 DEF Covers
      <3> QED
        BY <2>5, <3>1, <3>4 DEF ClearInv
    <2>10. RenameInv'
      <3>1. fn = "exchange" => flags = "EXCHANGE"
        BY <1>4
      <3>2. sweep => fn = "rename" /\ ~dc[q].positive
        BY <1>5 DEF IsWhiteout
      <3>3. sweep => flags = "EXCHANGE"
        BY <1>4, <1>5
      <3>4. sweep => ~dc[q].upper /\ ~dc[q].dir
        BY <1>1, <3>2 DEF DcTyped, EntryInv
      <3>5. sweep => list = {}
        BY <1>3, <1>6, <3>4
      <3>6. sweep => up[q].kind # "dir"
        BY <1>1, <1>7, <3>4, IdleAgrees DEF Agrees, Objects
      <3> QED
        BY <1>7, <2>5, <3>1, <3>2, <3>3, <3>5, <3>6 DEF RenameInv
    <2> QED
      BY <2>7, <2>8, <2>9, <2>10, Zenon DEF DirInv
  <1> QED
    BY <1>8, <1>10, <1>11

LEMMA StartStep ==
  ASSUME DirInv, Start
  PROVE  DirInv'
  <1>1. /\ Shape /\ Tree /\ CacheTree /\ Settled /\ Names /\ MakeInv /\ RemoveInv /\ ClearInv
        /\ RenameInv /\ WorkInv /\ UpTyped /\ DcTyped /\ WorkTyped /\ OpTyped /\ UsedTyped
    BY ShapeParts DEF DirInv
  <1>2. op.pc = "idle" /\ UNCHANGED <<layers, up, work, dc>>
    BY DEF Start
  <1>3. UsedTyped'
    <2>1. used.calls < MaxCalls /\ used' = [used EXCEPT !.calls = @ + 1]
      BY DEF Start
    <2> QED
      BY <1>1, <2>1, DirOpsAssumption DEF UsedTyped
  <1>4. PICK fn \in Calls, p \in Paths :
          /\ Cached(p)
          /\ \/ fn \in {"create", "mkdir"} /\ StartCreate(fn, p)
             \/ fn \in {"unlink", "rmdir"} /\ StartRemove(fn, p)
             \/ /\ fn \in {"rename", "exchange"}
                /\ \E q \in Paths : Cached(q) /\ StartRename(fn, p, q)
    BY DEF Start
  <1>5. CASE fn \in {"create", "mkdir"} /\ StartCreate(fn, p)
    BY <1>2, <1>3, <1>4, <1>5, StartCreateStep
  <1>6. CASE fn \in {"unlink", "rmdir"} /\ StartRemove(fn, p)
    BY <1>2, <1>3, <1>4, <1>6, StartRemoveStep
  <1>7. CASE fn \in {"rename", "exchange"} /\ \E q \in Paths : Cached(q) /\ StartRename(fn, p, q)
    BY <1>2, <1>3, <1>4, <1>7, StartRenameStep
  <1> QED
    BY <1>4, <1>5, <1>6, <1>7

-----------------------------------------------------------------------------
(* The theorems. *)

LEMMA InitInv ==
  ASSUME Init
  PROVE  DirInv
  <1>1. <<config, lower>> \in Mounts
    <2>1. PICK m \in Mounts : config = m[1] /\ lower = m[2]
      BY DEF Init
    <2>2. m = <<m[1], m[2]>>
      BY DirOpsAssumption
    <2> QED
      BY <2>1, <2>2
  <1>2. /\ up = [x \in Paths |-> NoNode] /\ work = NoWork /\ dc = NoDentry /\ op = Idle("none")
        /\ used = [calls |-> 0, faults |-> 0, crashes |-> 0]
    BY DEF Init
  <1>3. UpTyped /\ \A x \in Paths : up[x].kind = "no"
    BY <1>2, NoNodeInv DEF UpTyped
  <1>4. DcTyped /\ \A x \in Paths : dc[x] = NoEntry
    BY <1>2, NoDentryFacts DEF DcTyped
  <1>5. WorkTyped
    BY <1>2, NoWorkTyped DEF WorkTyped
  <1>6. OpTyped /\ op.pc = "idle" /\ op.fn \in AllFns \cup {"none"}
    BY <1>2 DEF OpTyped, Idle, OpFields
  <1>7. UsedTyped
    BY <1>2, DirOpsAssumption DEF UsedTyped
  <1>8. Shape
    BY <1>1, <1>3, <1>4, <1>5, <1>6, <1>7, ShapeParts
  <1>9. Tree /\ CacheTree /\ Settled
    BY <1>3, <1>4, <1>6, NoEntryInv DEF Tree, CacheTree, Settled, Seen
  <1>10. Names /\ MakeInv /\ RemoveInv
    BY <1>6 DEF Names, MakeInv, RemoveInv
  <1>11. ClearInv /\ RenameInv
    BY <1>6 DEF ClearInv, RenameInv
  <1>12. WorkInv
    <2>1. NoWork.kids = {}
      BY DEF NoWork
    <2> QED
      BY <1>2, <2>1 DEF WorkInv
  <1> QED
    BY <1>8, <1>9, <1>10, <1>11, <1>12, Zenon DEF DirInv

LEMMA StutterStep ==
  ASSUME DirInv, UNCHANGED vars
  PROVE  DirInv'
  <1>1. /\ config' = config /\ lower' = lower /\ up' = up /\ work' = work /\ dc' = dc
        /\ op' = op /\ used' = used
    BY DEF vars
  <1>2. Shape' /\ Tree' /\ CacheTree'
    BY <1>1 DEF DirInv, Shape, Tree, UpDir, CacheTree, Anchored
  <1>3. \A x \in Paths : Seen(x)' = Seen(x)
    BY <1>1 DEF Seen, Renamed, Renaming
  <1>4. Unsettled' = Unsettled
    BY <1>1 DEF Unsettled, Victim
  <1>5. Settled'
    BY <1>1, <1>3, <1>4 DEF DirInv, Settled
  <1>6. Names'
    BY <1>1 DEF DirInv, Names, Anchored, UpDir, Renaming
  <1>7. MakeInv'
    BY <1>1 DEF DirInv, MakeInv, Making, Bare, NewKind
  <1>8. RemoveInv' /\ WorkInv'
    BY <1>1 DEF DirInv, RemoveInv, Removing, Covers, Bare, WorkInv
  <1>9. ClearInv'
    BY <1>1 DEF DirInv, ClearInv, Victim, Covers, Bare
  <1>10. RenameInv'
    BY <1>1 DEF DirInv, RenameInv, Renaming, Bare
  <1> QED
    BY <1>2, <1>5, <1>6, <1>7, <1>8, <1>9, <1>10, Zenon DEF DirInv

LEMMA NextStep ==
  ASSUME DirInv, [Next]_vars
  PROVE  DirInv'
  <1>1. CASE UNCHANGED vars
    BY <1>1, StutterStep
  <1>2. CASE \E p \in Paths : DoLookup(p)
    BY <1>2, DoLookupStep
  <1>3. CASE Start
    BY <1>3, StartStep
  <1>4. CASE CopyUp
    BY <1>4, CopyUpStep
  <1>5. CASE CreateUpper
    BY <1>5, CreateUpperStep
  <1>6. CASE MarkNewOpaque
    BY <1>6, MarkNewOpaqueStep
  <1>7. CASE Instantiate
    BY <1>7, InstantiateStep
  <1>8. CASE InstantiateFails
    BY <1>8, InstantiateFailsStep
  <1>9. CASE OverTemp
    BY <1>9, OverTempStep
  <1>10. CASE OverAttr
    BY <1>10, OverAttrStep
  <1>11. CASE OverRename
    BY <1>11, OverRenameStep
  <1>12. CASE OverCleanup
    BY <1>12, OverCleanupStep
  <1>13. CASE ClearTemp
    BY <1>13, ClearTempStep
  <1>14. CASE ClearOpaque
    BY <1>14, ClearOpaqueStep
  <1>15. CASE ClearSwap
    BY <1>15, ClearSwapStep
  <1>16. CASE ClearWhiteouts
    BY <1>16, ClearWhiteoutsStep
  <1>17. CASE ClearCleanup
    BY <1>17, ClearCleanupStep
  <1>18. CASE RemoveUpper
    BY <1>18, RemoveUpperStep
  <1>19. CASE WhiteoutTemp
    BY <1>19, WhiteoutTempStep
  <1>20. CASE WhiteoutRename
    BY <1>20, WhiteoutRenameStep
  <1>21. CASE WhiteoutCleanup
    BY <1>21, WhiteoutCleanupStep
  <1>22. CASE MarkOld
    BY <1>22, MarkOldStep
  <1>23. CASE MarkNew
    BY <1>23, MarkNewStep
  <1>24. CASE DoRename
    BY <1>24, DoRenameStep
  <1>25. CASE Sweep
    BY <1>25, SweepStep
  <1>26. CASE Return
    BY <1>26, ReturnStep
  <1>27. CASE Crash
    BY <1>27, CrashStep
  <1> QED
    BY <1>1, <1>2, <1>3, <1>4, <1>5, <1>6, <1>7, <1>8, <1>9, <1>10, <1>11, <1>12, <1>13, <1>14,
       <1>15, <1>16, <1>17, <1>18, <1>19, <1>20, <1>21, <1>22, <1>23, <1>24, <1>25, <1>26, <1>27
       DEF Next

LEMMA Inductive == Spec => []DirInv
  <1>1. Init => DirInv
    BY InitInv
  <1>2. DirInv /\ [Next]_vars => DirInv'
    BY NextStep
  <1> QED
    BY <1>1, <1>2, PTL DEF Spec

\* The upper layer stays a tree whatever sequence of calls, faults and crashes is made: no
\* handler of dir.c leaves a name in a directory that it has removed, replaced or moved, and
\* none puts one where no directory is (ovl_create_upper, ovl_clear_empty, ovl_rename).
THEOREM TypeOKCorrect == Spec => []TypeOK
  <1>1. ASSUME DirInv PROVE TypeOK
    <2>1. /\ Shape /\ Tree /\ Names /\ UpTyped /\ DcTyped /\ WorkTyped /\ UsedTyped
      BY <1>1, ShapeParts DEF DirInv
    <2>2. <<config, lower>> \in Mounts
      BY <2>1 DEF Shape
    <2>3. up \in [Paths -> NodeType]
      BY <2>1, UpLayer DEF LayerOk
    <2>4. ASSUME NEW p \in Paths, Len(p) = 2, up[p].kind # "no" PROVE up[Parent(p)].kind = "dir"
      <3>1. Parent(p) # <<>>
        <4>1. ASSUME NEW n \in Top, p = <<n>> PROVE FALSE
          <5>1. Len(p) = 1
            BY <4>1
          <5> QED
            BY <2>4, <5>1
        <4>2. PICK n \in Top, m \in Sub : p = <<n, m>>
          BY <4>1, PathShape
        <4> QED
          BY <4>2, SubPath
      <3> QED
        BY <2>1, <2>4, <3>1 DEF Tree, UpDir
    <2>5. work.node \in NodeType /\ work.kids \subseteq Paths
      BY <2>1 DEF WorkTyped
    <2>6. \A p \in Paths : dc[p].redirect = NoRedirect \/ dc[p].dir
      BY <2>1 DEF DcTyped, EntryInv
    <2>7. op.fn \in AllFns \cup {"none"}
      BY <2>1 DEF Names
    <2>8. used.calls <= MaxCalls /\ used.faults + used.crashes <= MaxTroubles
      BY <2>1 DEF UsedTyped
    <2> QED
      BY <2>2, <2>3, <2>4, <2>5, <2>6, <2>7, <2>8 DEF TypeOK
  <1> QED
    BY <1>1, Inductive, PTL

\* Between two calls the work directory is empty: every path through the handlers of dir.c,
\* the failing ones included, removes what it made there (ovl_cleanup), and the directory that
\* ovl_clear_empty swaps out can always be removed, as the list of ovl_check_empty_dir has every
\* name that its upper part holds.
THEOREM WorkEmptyCorrect == Spec => []WorkEmpty
  <1>1. ASSUME DirInv PROVE WorkEmpty
    BY <1>1 DEF DirInv, WorkInv, WorkEmpty
  <1> QED
    BY <1>1, Inductive, PTL

\* Between two calls a cached dentry has an upper part exactly where a new lookup would find
\* one, and it is a directory exactly when that one is: no handler leaves __upperdentry of an
\* inode or the type of a dentry behind what it did to the upper layer (ovl_instantiate, d_drop,
\* d_move after ovl_rename, ovl_copy_up).  A lookup that fails (-EPERM) is not an answer.
THEOREM UpperCoherent ==
  Spec => [](op.pc = "idle" =>
               \A p \in Paths : dc[p].hashed =>
                 LET e == Lookup(up, lower, D(Parent(p)), p)
                 IN e.hashed => /\ dc[p].upper <=> e.upper
                                /\ e.upper => dc[p].positive /\ (dc[p].dir <=> e.dir))
  <1> DEFINE Coherent == op.pc = "idle" =>
               \A p \in Paths : dc[p].hashed =>
                 LET e == Lookup(up, lower, D(Parent(p)), p)
                 IN e.hashed => /\ dc[p].upper <=> e.upper
                                /\ e.upper => dc[p].positive /\ (dc[p].dir <=> e.dir)
  <1>1. ASSUME DirInv PROVE Coherent
    <2>1. /\ Shape /\ Tree /\ CacheTree /\ Settled /\ UpTyped /\ DcTyped
      BY <1>1, ShapeParts DEF DirInv
    <2>2. SUFFICES ASSUME op.pc = "idle", NEW p \in Paths, dc[p].hashed,
                          NEW e, e = Lookup(up, lower, D(Parent(p)), p), e.hashed
                   PROVE  /\ dc[p].upper <=> e.upper
                          /\ e.upper => dc[p].positive /\ (dc[p].dir <=> e.dir)
      OBVIOUS
    <2>3. PICK parent : parent = D(Parent(p))
      OBVIOUS
    <2>4. Parent(p) = <<>> => parent.upper = TRUE
      BY <2>3 DEF D, RootEntry, NoEntry
    <2>5. Parent(p) # <<>> => /\ Parent(p) \in Paths /\ parent = dc[Parent(p)]
                              /\ parent.hashed /\ parent.upper \in BOOLEAN
      BY <2>1, <2>2, <2>3, AboveFacts DEF D, CacheTree, Anchored, DcTyped, EntryInv
    <2>6. LayerOk(up) /\ <<config, lower>> \in Mounts
      BY <2>1, UpLayer DEF Shape
    <2>7. parent.upper \in BOOLEAN /\ e = Lookup(up, lower, parent, p)
      BY <2>2, <2>3, <2>4, <2>5
    <2>8. /\ EntryInv(e) /\ (e.dir => e.hashed)
          /\ e.hashed => /\ e.upper <=> parent.upper /\ up[p].kind \in Objects
                         /\ e.upper => (e.dir <=> up[p].kind = "dir")
      BY <2>6, <2>7, LookupFacts
    <2>9. Agrees(dc[p], up[p])
      BY <2>1, <2>2, IdleAgrees
    <2>10. ASSUME up[p].kind \in Objects, Parent(p) # <<>> PROVE parent.upper
      <3>1. up[Parent(p)].kind = "dir"
        BY <2>1, <2>10 DEF Tree, UpDir, Objects
      <3> QED
        BY <2>1, <2>2, <2>5, <2>10, <3>1, IdleAgrees DEF Agrees, Objects
    <2>11. e.upper <=> up[p].kind \in Objects
      BY <2>2, <2>4, <2>8, <2>10
    <2>12. dc[p].upper => dc[p].positive
      BY <2>1 DEF DcTyped, EntryInv
    <2> QED
      BY <2>2, <2>8, <2>9, <2>11, <2>12 DEF Agrees
  <1> QED
    BY <1>1, Inductive, PTL

=============================================================================
