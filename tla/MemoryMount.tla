----------------------------- MODULE MemoryMount -----------------------------
(* The in-memory host directory: one map from full paths to entries, shared *)
(* by the mount and all its children under one mutex, so that every call is *)
(* one step. A child only puts its prefix before the path. A call that is   *)
(* cancelled or refused changes nothing.                                    *)
EXTENDS Naturals, FiniteSets, Sequences, SequencesExt

CONSTANTS
  Paths,   \* full paths in use, closed under prefixes, without the root
  Quota    \* bytes the files may have together

ASSUME PathsAssumption ==
  /\ IsFiniteSet(Paths) /\ Quota \in Nat
  /\ \A p \in Paths : /\ p \in Seq(ToSet(p)) /\ p # <<>>
                      /\ \A l \in 1..(Len(p) - 1) : SubSeq(p, 1, l) \in Paths

VARIABLES
  tree,     \* what is at each path
  mAstray   \* history: entries that a write left without their directory

mountVars == <<tree, mAstray>>

Size == [absent |-> 0, dir |-> 0, small |-> 1, large |-> 2]
FileBytes == {"small", "large"}

MountInit == tree = [p \in Paths |-> "absent"] /\ mAstray = {}

Below(p) == {q \in Paths : IsStrictPrefix(p, q)}
Above(p) == {q \in Paths : IsStrictPrefix(q, p)}
Entries == {p \in Paths : tree[p] # "absent"}

\* A byte is a file and a place in it. The quota is of all files, the one
\* that is replaced not counted.
Stored == {b \in Paths \X (1..2) : b[2] <= Size[tree[b[1]]]}
Used == Cardinality(Stored)
WithinQuota(p, bytes) == Used - Size[tree[p]] + Size[bytes] <= Quota

\* An entry is found by listing when every name above it is a directory.
Listed(p) == \A q \in Above(p) : tree[q] = "dir"

(* Nothing looks at what is above or below the path that is written: an     *)
(* entry may be put where no directory is, a directory may become a file.   *)
Put(p, entry) ==
  /\ tree' = [tree EXCEPT ![p] = entry]
  /\ mAstray' = mAstray \union (IF Listed(p) THEN {} ELSE {p})
                        \union (IF tree[p] = "dir" THEN Below(p) \intersect Entries ELSE {})
Take(paths) ==
  /\ tree' = [p \in Paths |-> IF p \in paths THEN "absent" ELSE tree[p]]
  /\ mAstray' = mAstray \ paths

Replace(p, bytes) == WithinQuota(p, bytes) /\ Put(p, bytes)
CompareExchange(p, expected, new) ==
  /\ tree[p] = expected
  /\ IF new = "absent" THEN Take({p}) ELSE WithinQuota(p, new) /\ Put(p, new)
RemoveFile(p) == tree[p] \in FileBytes /\ Take({p})
CreateDir(p) == tree[p] = "absent" /\ Put(p, "dir")

\* Fault: only the children go with their directory.
WithChildren(p) == {p} \union {q \in Below(p) : Len(q) = Len(p) + 1}
Subtree(p) == {p} \union Below(p)
RemoveDirAll(p) == tree[p] = "dir" /\ Take(Subtree(p))

MountNext ==
  \E p \in Paths :
    \/ \E bytes \in FileBytes : Replace(p, bytes)
    \/ \E expected, new \in FileBytes \union {"absent"} : CompareExchange(p, expected, new)
    \/ RemoveFile(p) \/ CreateDir(p) \/ RemoveDirAll(p)

MountSpec == MountInit /\ [][MountNext]_mountVars

-----------------------------------------------------------------------------
MountTypeOK == tree \in [Paths -> {"absent", "dir"} \union FileBytes] /\ mAstray \subseteq Paths

(* Every entry is found by listing from the root, or a write left it where  *)
(* no directory is; no removal does, and what is made anew is empty but for *)
(* such entries. All files, those that no listing finds included, are       *)
(* within the quota.                                                        *)
MountKeepsTrack ==
  /\ \A p \in Entries : Listed(p) \/ p \in mAstray
  /\ mAstray \subseteq Entries
  /\ Used <= Quota
=============================================================================
