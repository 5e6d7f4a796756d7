---------------------------- MODULE MCMountLife -----------------------------
(* Instances of MountLife for TLC. *)
EXTENDS MountLifeInv, TLC

Symmetry == Permutations(Mounts)

\* "d": a disk; "e": another one; "n": no file handles; "o": no xattrs, uuid as "n".
MCHandles == [d |-> "ino32", e |-> "other", n |-> "none", o |-> "ino32"]
MCUuid    == [d |-> 1, e |-> 2, n |-> 0, o |-> 0]

Layers(u, w, ls) == [NoRequest EXCEPT !.upper = u, !.work = w, !.lowers = ls,
                                      !.metacopy = "off"]

d(x) == <<"d", x>>
o(x) == <<"o", x>>
inner == <<"d", "u", "x", "y">>

Base1 == Layers(d("u"), d("w"), <<d("l")>>)

\* Requests whose layers conflict with those of Base1, or with each other.
Layouts ==
  { Layers(d("u"), d("v"), <<d("l")>>),                  \* the same upper
    Layers(d("v"), d("w"), <<d("l")>>),                  \* the same work base
    Layers(d("u"), d("w"), <<d("k")>>),                  \* another lower
    Layers(d("v"), d("k"), <<inner>>),                   \* a lower inside an upper
    Layers(d("u"), inner, <<d("l")>>),                   \* work inside upper
    Layers(d("u"), d("w"), <<d("l"), <<"d", "l", "x", "y">>>>),
    Layers(d("u"), d("w"), <<WorkDir(d("w"))>>),
    Layers(d("u"), d("w"), <<IndexDir(d("w"))>>),
    Layers(d("v"), d("k"), <<d("l"), d("u")>>),          \* an upper as lower
    Layers(NoDir, NoDir, <<d("u"), d("l")>>) }

\* Requests that differ in their options: metacopy and redirects, then what the file
\* systems of the layers lack.
Optioned ==
  { [Layers(u, d("w"), <<d("l"), d("k")>>) EXCEPT !.index = TRUE, !.nfs_export = TRUE,
                                                  !.metacopy = o1[1], !.redirect = o1[2]] :
      u \in {d("u"), NoDir},
      o1 \in {<<"off", "nofollow">>, <<"default", "nofollow">>, <<"on", "default">>,
             <<"on", "nofollow">>} }
  \cup
  { [Layers(u, w, ls) EXCEPT !.index = TRUE, !.nfs_export = TRUE, !.xino = "on"] :
      <<u, w, ls>> \in {<<o("u"), o("w"), <<d("l")>>>>,
                       <<d("u"), d("w"), <<<<"n", "l">>, o("l")>>>>,
                       <<d("u"), d("w"), <<<<"e", "l">>, o("l")>>>>,
                       <<NoDir, NoDir, <<o("l"), <<"e", "l">>>>>>,
                       <<<<"r", "u">>, <<"r", "w">>, <<d("l")>>>>,
                       <<d("u"), NoDir, <<d("l")>>>>,
                       <<NoDir, NoDir, <<d("l"), d("k"), d("v")>>>>,   \* too many
                       <<NoDir, NoDir, <<d("l")>>>>} }

\* Base1 with a conflicting request, and each option on its own.
MCScenarios ==
  { {[Base1 EXCEPT !.index = i], [r EXCEPT !.index = j]} : r \in Layouts, i, j \in BOOLEAN }
    \cup {{r} : r \in Optioned}
=============================================================================
