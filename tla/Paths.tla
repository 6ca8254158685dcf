------------------------------- MODULE Paths -------------------------------
(* The paths and the directory tree the file operations work on.           *)
(*                                                                         *)
(* A path (fspath, a boost::filesystem::path) is a sequence of names,      *)
(* relative to the working directory, which always exists. A name is a     *)
(* stem and the "~1", "~2"... that AUTORENAME put between the stem and the *)
(* extension; the extension never changes and is left out. A tree maps     *)
(* every existing path to Dir or to the number of the file (inode) there.  *)
EXTENDS Naturals, Sequences, SequencesExt

Dir == 0

Names == [stem : STRING, tags : Seq(Nat)]

\* A path, possibly the empty one.
AllPaths == Seq(Names)

Name(stem) == [stem |-> stem, tags |-> <<>>]

has_parent_path(p) == Len(p) > 1

parent_path(p) == Front(p)

filename(p) == Last(p)

\* fmt::format("{}~{}{}", stem, i, extension)
Renamed(p, i) == Append(Front(p), [Last(p) EXCEPT !.tags = Append(@, i)])

\* The ancestors of p and p itself.
Ancestry(p) == {SubSeq(p, 1, k) : k \in 1..Len(p)}

IsDir(tree, p) == p \in DOMAIN tree /\ tree[p] = Dir

IsFile(tree, p) == p \in DOMAIN tree /\ tree[p] # Dir

FilesOf(tree) == {p \in DOMAIN tree : tree[p] # Dir}

\* A new entry can be made at p: the directory it goes in is there.
Placeable(tree, p) == has_parent_path(p) => IsDir(tree, parent_path(p))

\* What is above an entry is a directory, and a tree has no two paths for one
\* file (no hard links): TreeOK(tree, n) says so of a tree over n files.
TreeOK(tree, n) ==
    /\ \A p \in DOMAIN tree :
          /\ p \in AllPaths /\ p # <<>>
          /\ tree[p] \in {Dir} \cup 1..n
          /\ \A above \in Ancestry(p) \ {p} : IsDir(tree, above)
    /\ \A p, q \in FilesOf(tree) : tree[p] = tree[q] => p = q

Put(f, x, y) == [z \in DOMAIN f \cup {x} |-> IF z = x THEN y ELSE f[z]]

Drop(f, x) == [z \in DOMAIN f \ {x} |-> f[z]]

\* The tree once p and every missing ancestor of it is a directory.
WithDirs(tree, p) ==
    [q \in DOMAIN tree \cup Ancestry(p) |->
        IF q \in DOMAIN tree THEN tree[q] ELSE Dir]

\* The contents of a file after the bytes new are written at offset at; a
\* byte of a gap reads as 0.
Spliced(old, at, new) ==
    LET end == at + Len(new) IN
    [k \in 1..(IF end > Len(old) THEN end ELSE Len(old)) |->
        IF k > at /\ k <= end THEN new[k - at]
        ELSE IF k <= Len(old) THEN old[k] ELSE 0]
=============================================================================
