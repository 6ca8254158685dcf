---------------------------- MODULE Paths_proofs ----------------------------
(* What the operators of Paths return and preserve.                         *)
EXTENDS Paths, SequenceTheorems, TLAPS

\* Appending a name to a path gives a path whose parent is the path.
LEMMA AppendPath ==
    ASSUME NEW p \in AllPaths, NEW name \in Names
    PROVE  /\ Append(p, name) \in AllPaths
           /\ Append(p, name) # <<>>
           /\ parent_path(Append(p, name)) = p
           /\ Len(Append(p, name)) = Len(p) + 1
BY DEF AllPaths, parent_path, Front

\* The last component of a path that is not empty is a name.
LEMMA FilenameType ==
    ASSUME NEW p \in AllPaths, p # <<>>
    PROVE  filename(p) \in Names
BY DEF AllPaths, filename, Last

\* The parent of a path is a path, maybe the empty one.
LEMMA ParentType ==
    ASSUME NEW p \in AllPaths, p # <<>>
    PROVE  parent_path(p) \in AllPaths
BY DEF AllPaths, parent_path, Front

\* A candidate of AUTORENAME is a path again (make_dest_path.cpp:56-66).
LEMMA RenamedType ==
    ASSUME NEW p \in AllPaths, p # <<>>, NEW i \in Nat
    PROVE  Renamed(p, i) \in AllPaths /\ Renamed(p, i) # <<>>
<1>1. Last(p) \in Names
  BY DEF AllPaths, Last
<1>2. ASSUME NEW name \in Names
      PROVE  [name EXCEPT !.tags = Append(@, i)] \in Names
  <2>1. Append(name.tags, i) \in Seq(Nat)
    BY DEF Names
  <2> QED BY <2>1 DEF Names
<1>3. Front(p) \in AllPaths
  BY DEF AllPaths, Front
<1> QED BY <1>1, <1>2, <1>3, AppendPath DEF Renamed

\* Writing bytes into a file leaves a sequence of bytes, gaps included.
LEMMA SplicedType ==
    ASSUME NEW old \in Seq(Nat), NEW at \in Nat, NEW new \in Seq(Nat)
    PROVE  Spliced(old, at, new) \in Seq(Nat)
<1> DEFINE end == at + Len(new)
           m == IF end > Len(old) THEN end ELSE Len(old)
           Byte(k) == IF k > at /\ k <= end THEN new[k - at]
                      ELSE IF k <= Len(old) THEN old[k] ELSE 0
<1>1. m \in Nat
  OBVIOUS
<1>2. ASSUME NEW k \in 1..m PROVE Byte(k) \in Nat
  <2>1. CASE k > at /\ k <= end
    <3>1. k - at \in 1..Len(new)
      BY <2>1
    <3> QED BY <2>1, <3>1
  <2>2. CASE ~(k > at /\ k <= end)
    BY <2>2
  <2> QED BY <2>1, <2>2
<1>3. Spliced(old, at, new) = [k \in 1..m |-> Byte(k)]
  BY DEF Spliced
<1> HIDE DEF m, Byte
<1> QED BY <1>1, <1>2, <1>3

\* Every prefix of a path is a path, whose parent is the next shorter prefix.
LEMMA PrefixFacts ==
    ASSUME NEW p \in AllPaths, NEW k \in 1..Len(p)
    PROVE  /\ SubSeq(p, 1, k) \in AllPaths
           /\ SubSeq(p, 1, k) # <<>>
           /\ Len(SubSeq(p, 1, k)) = k
           /\ k > 1 => parent_path(SubSeq(p, 1, k)) = SubSeq(p, 1, k - 1)
<1> DEFINE s == SubSeq(p, 1, k)
<1>1. s \in AllPaths /\ Len(s) = k /\ s # <<>>
  BY DEF AllPaths
<1>2. ASSUME k > 1 PROVE SubSeq(s, 1, k - 1) = SubSeq(p, 1, k - 1)
  BY <1>1, <1>2 DEF AllPaths
<1> QED BY <1>1, <1>2 DEF parent_path, Front

\* What is above a path, and what is not.
LEMMA AncestryFacts ==
    ASSUME NEW p \in AllPaths
    PROVE  /\ p # <<>> => p \in Ancestry(p)
           /\ has_parent_path(p) => parent_path(p) \in Ancestry(p) \ {p}
           /\ \A q \in Ancestry(p) :
                 /\ q \in AllPaths /\ q # <<>> /\ Len(q) \in 1..Len(p)
                 /\ q = SubSeq(p, 1, Len(q))
                 /\ q # p => Len(q) < Len(p)
                 /\ \A k \in 1..Len(q) : SubSeq(q, 1, k) = SubSeq(p, 1, k)
<1>1. Len(p) \in Nat
  BY DEF AllPaths
<1>2. ASSUME p # <<>> PROVE p \in Ancestry(p)
  <2>1. SubSeq(p, 1, Len(p)) = p /\ Len(p) \in 1..Len(p)
    BY <1>2 DEF AllPaths
  <2> QED BY <2>1 DEF Ancestry
<1>3. ASSUME has_parent_path(p) PROVE parent_path(p) \in Ancestry(p) \ {p}
  <2>1. Len(p) - 1 \in 1..Len(p) /\ Len(p) - 1 # Len(p)
    BY <1>1, <1>3 DEF has_parent_path
  <2>2. Len(SubSeq(p, 1, Len(p) - 1)) = Len(p) - 1
    BY <2>1, PrefixFacts
  <2> QED BY <2>1, <2>2 DEF Ancestry, parent_path, Front
<1>4. ASSUME NEW q \in Ancestry(p)
      PROVE  /\ q \in AllPaths /\ q # <<>> /\ Len(q) \in 1..Len(p)
             /\ q = SubSeq(p, 1, Len(q))
             /\ q # p => Len(q) < Len(p)
             /\ \A k \in 1..Len(q) : SubSeq(q, 1, k) = SubSeq(p, 1, k)
  <2>1. PICK m \in 1..Len(p) : q = SubSeq(p, 1, m)
    BY DEF Ancestry
  <2>2. q \in AllPaths /\ q # <<>> /\ Len(q) = m
    BY <2>1, PrefixFacts
  <2>3. m = Len(p) => q = p
    BY <2>1 DEF AllPaths
  <2>4. ASSUME NEW k \in 1..m PROVE SubSeq(q, 1, k) = SubSeq(p, 1, k)
    BY <1>1, <2>1, <2>4 DEF AllPaths
  <2> QED BY <1>1, <2>1, <2>2, <2>3, <2>4
<1> QED BY <1>2, <1>3, <1>4

\* What is above something above a path is above the path.
LEMMA AncestryTransitive ==
    ASSUME NEW p \in AllPaths, NEW q \in Ancestry(p)
    PROVE  Ancestry(q) \subseteq Ancestry(p)
<1>1. /\ Len(q) \in 1..Len(p) /\ Len(p) \in Nat
      /\ \A k \in 1..Len(q) : SubSeq(q, 1, k) = SubSeq(p, 1, k)
  BY AncestryFacts DEF AllPaths
<1>2. \A k \in 1..Len(q) : k \in 1..Len(p)
  BY <1>1
<1> QED BY <1>1, <1>2 DEF Ancestry

\* What is above a path is its parent, or above its parent.
LEMMA AboveParent ==
    ASSUME NEW p \in AllPaths, NEW q \in Ancestry(p) \ {p}
    PROVE  /\ has_parent_path(p)
           /\ q = parent_path(p) \/ q \in Ancestry(parent_path(p)) \ {parent_path(p)}
<1>1. /\ Len(q) \in 1..Len(p) /\ Len(p) \in Nat /\ Len(q) < Len(p)
      /\ q = SubSeq(p, 1, Len(q))
  BY AncestryFacts DEF AllPaths
<1>2. has_parent_path(p)
  BY <1>1 DEF has_parent_path
<1> DEFINE r == SubSeq(p, 1, Len(p) - 1)
<1>3. parent_path(p) = r /\ Len(p) - 1 \in 1..Len(p)
  BY <1>1 DEF parent_path, Front
<1>4. r \in AllPaths /\ Len(r) = Len(p) - 1 /\ r \in Ancestry(p)
  BY <1>3, PrefixFacts DEF Ancestry
<1>5. Len(q) \in 1..Len(r)
  BY <1>1, <1>4
<1>6. SubSeq(r, 1, Len(q)) = q
  BY <1>1, <1>4, <1>5, AncestryFacts
<1>7. q \in Ancestry(r)
  BY <1>5, <1>6 DEF Ancestry
<1> QED BY <1>2, <1>3, <1>7

\* A new entry goes where everything above it is a directory.
LEMMA AbovePlace ==
    ASSUME NEW tree, NEW n, TreeOK(tree, n), NEW p \in AllPaths, Placeable(tree, p),
           NEW q \in Ancestry(p) \ {p}
    PROVE  IsDir(tree, q)
<1>1. IsDir(tree, parent_path(p))
  BY AboveParent DEF Placeable
<1>2. \A r \in Ancestry(parent_path(p)) \ {parent_path(p)} : IsDir(tree, r)
  BY <1>1 DEF TreeOK, IsDir
<1> QED BY <1>1, <1>2, AboveParent

\* The parent of an entry is a directory.
LEMMA ParentThere ==
    ASSUME NEW tree, NEW n, TreeOK(tree, n), NEW p \in DOMAIN tree
    PROVE  Placeable(tree, p)
BY AncestryFacts DEF TreeOK, Placeable

\* A tree stays one when an entry is put where its directory is, unless another
\* path names the file: a rename's new name, a file that open creates, mkdir.
LEMMA PutTree ==
    ASSUME NEW tree, NEW n \in Nat, NEW m \in Nat, n <= m, TreeOK(tree, n),
           NEW p \in AllPaths, p # <<>>, ~IsDir(tree, p), Placeable(tree, p),
           NEW entry \in {Dir} \cup 1..m,
           \A q \in FilesOf(tree) : tree[q] = entry => q = p
    PROVE  TreeOK(Put(tree, p, entry), m)
<1> DEFINE t == Put(tree, p, entry)
<1>1. /\ DOMAIN t = DOMAIN tree \cup {p}
      /\ t[p] = entry
      /\ \A q \in DOMAIN tree : q # p => t[q] = tree[q]
  BY DEF Put
<1>2. \A q : IsDir(tree, q) => IsDir(t, q)
  BY <1>1 DEF IsDir
<1>3. ASSUME NEW q \in DOMAIN t
      PROVE  /\ q \in AllPaths /\ q # <<>>
             /\ t[q] \in {Dir} \cup 1..m
             /\ \A above \in Ancestry(q) \ {q} : IsDir(t, above)
  <2>1. \A above \in Ancestry(q) \ {q} : IsDir(tree, above)
    BY <1>1, AbovePlace DEF TreeOK
  <2> QED BY <1>1, <1>2, <1>3, <2>1 DEF TreeOK
<1>4. ASSUME NEW q1 \in FilesOf(t), NEW q2 \in FilesOf(t), t[q1] = t[q2]
      PROVE  q1 = q2
  BY <1>1, <1>4 DEF TreeOK, FilesOf
<1> SUFFICES TreeOK(t, m)
  OBVIOUS
<1> HIDE DEF t
<1> QED BY <1>3, <1>4 DEF TreeOK

\* A tree stays one when a file, or a directory with nothing in it, is taken out
\* of it: remove, a rename's old name.
LEMMA DropTree ==
    ASSUME NEW tree, NEW n \in Nat, TreeOK(tree, n), NEW p,
           \/ IsFile(tree, p)
           \/ \A q \in DOMAIN tree : ~(has_parent_path(q) /\ parent_path(q) = p)
    PROVE  TreeOK(Drop(tree, p), n)
<1> DEFINE t == Drop(tree, p)
<1>1. /\ DOMAIN t = DOMAIN tree \ {p}
      /\ \A q \in DOMAIN t : t[q] = tree[q]
  BY DEF Drop
<1>2. ASSUME NEW q \in DOMAIN tree, NEW above \in Ancestry(q) \ {q}
      PROVE  IsDir(tree, above) /\ above # p
  <2>1. IsDir(tree, above) /\ q \in AllPaths
    BY DEF TreeOK
  <2>2. CASE IsFile(tree, p)
    BY <2>1, <2>2 DEF IsDir, IsFile
  <2>3. CASE \A r \in DOMAIN tree : ~(has_parent_path(r) /\ parent_path(r) = p)
    <3> SUFFICES ASSUME above = p PROVE FALSE
      BY <2>1
    <3>1. /\ Len(p) \in 1..Len(q) /\ Len(q) \in Nat /\ Len(p) < Len(q)
          /\ p = SubSeq(q, 1, Len(p))
      BY <2>1, AncestryFacts DEF AllPaths
    <3> DEFINE r == SubSeq(q, 1, Len(p) + 1)
    <3>2. Len(p) + 1 \in 1..Len(q) /\ (Len(p) + 1) - 1 = Len(p) /\ Len(p) + 1 > 1
      BY <3>1
    <3>3. has_parent_path(r) /\ parent_path(r) = p /\ r \in Ancestry(q)
      BY <2>1, <3>1, <3>2, PrefixFacts DEF Ancestry, has_parent_path
    <3>4. r \in DOMAIN tree
      BY <3>3 DEF TreeOK, IsDir
    <3> QED BY <2>3, <3>3, <3>4
  <2> QED BY <2>2, <2>3
<1>3. \A q \in DOMAIN t : \A above \in Ancestry(q) \ {q} : IsDir(t, above)
  BY <1>1, <1>2 DEF IsDir
<1> SUFFICES TreeOK(t, n)
  OBVIOUS
<1> HIDE DEF t
<1> QED BY <1>1, <1>3 DEF TreeOK, FilesOf

\* A tree stays one when mkdir makes the ancestors of a path on which no file
\* is in the way.
LEMMA WithDirsTree ==
    ASSUME NEW tree, NEW n \in Nat, TreeOK(tree, n), NEW p \in AllPaths,
           \A k \in 1..Len(p) : ~IsFile(tree, SubSeq(p, 1, k))
    PROVE  TreeOK(WithDirs(tree, p), n)
<1> DEFINE t == WithDirs(tree, p)
<1>1. /\ DOMAIN t = DOMAIN tree \cup Ancestry(p)
      /\ \A q \in DOMAIN tree : t[q] = tree[q]
      /\ \A q \in DOMAIN t : q \notin DOMAIN tree => t[q] = Dir
  BY DEF WithDirs
<1>2. \A q : IsDir(tree, q) => IsDir(t, q)
  BY <1>1 DEF IsDir
<1>3. ASSUME NEW q \in Ancestry(p) PROVE IsDir(t, q)
  <2>1. ~IsFile(tree, q)
    BY DEF Ancestry
  <2> QED BY <1>1, <2>1 DEF IsDir, IsFile
<1>4. ASSUME NEW q \in DOMAIN t
      PROVE  /\ q \in AllPaths /\ q # <<>>
             /\ t[q] \in {Dir} \cup 1..n
             /\ \A above \in Ancestry(q) \ {q} : IsDir(t, above)
  <2>1. CASE q \in DOMAIN tree
    BY <1>1, <1>2, <2>1 DEF TreeOK
  <2>2. CASE q \notin DOMAIN tree
    <3>1. q \in Ancestry(p) /\ t[q] = Dir
      BY <1>1, <2>2
    <3>2. q \in AllPaths /\ q # <<>> /\ Ancestry(q) \subseteq Ancestry(p)
      BY <3>1, AncestryFacts, AncestryTransitive
    <3> QED BY <1>3, <3>1, <3>2
  <2> QED BY <2>1, <2>2
<1>5. FilesOf(t) = FilesOf(tree)
  BY <1>1 DEF FilesOf
<1> SUFFICES TreeOK(t, n)
  OBVIOUS
<1> HIDE DEF t
<1> QED BY <1>1, <1>4, <1>5 DEF TreeOK, FilesOf
=============================================================================
