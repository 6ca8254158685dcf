------------------------- MODULE MCFileOperations --------------------------
(* Small instances of FileOperations.                                       *)
EXTENDS FileOperations, TLC

P(stems) == [k \in 1..Len(stems) |-> Name(stems[k])]

f == P(<<"f">>)
d == P(<<"d">>)
df == P(<<"d", "f">>)
g == P(<<"g">>)
ng == P(<<"n", "m", "g">>)

MCSourcePath == f

MCContents == <<<<1, 2, 3>>, <<4>>>>

\* The source, a directory, and a file in it that has the source's name.
Full == f :> 1 @@ d :> Dir @@ df :> 2
\* The source and an empty directory.
Bare == f :> 1 @@ d :> Dir
\* The destination name is taken, and so is its first automatic name.
Taken == f :> 1 @@ g :> 2 @@ Renamed(g, 1) :> Dir

MCTrees == {Full, Bare, Taken}

Request(kind, remote, path, slash, policy, create_parents, expand) ==
    [kind |-> kind, remote |-> remote, path |-> path, slash |-> slash,
     policy |-> policy, create_parents |-> create_parents, expand |-> expand]

Both(remote, path, slash, policy, create_parents, expand) ==
    {Request(kind, remote, path, slash, policy, create_parents, expand) :
        kind \in {"move", "copy"}}

Policies == {"OVERWRITE", "AUTORENAME", "FAIL"}

\* Locally: into an existing directory, onto a file, into directories to be made.
LocalRequests ==
    UNION {Both(FALSE, d, FALSE, policy, FALSE, FALSE) : policy \in Policies}
    \cup UNION {Both(FALSE, g, FALSE, policy, FALSE, FALSE) : policy \in Policies}
    \cup Both(FALSE, ng, FALSE, "FAIL", TRUE, FALSE)

\* On a server, the odd ones: a trailing separator, a placeholder, the source
\* itself, a directory that is there; and no path at all.
OddRequests ==
    Both(TRUE, g, TRUE, "AUTORENAME", TRUE, FALSE)
    \cup Both(TRUE, P(<<"t">>), FALSE, "FAIL", FALSE, TRUE)
    \cup Both(TRUE, f, FALSE, "OVERWRITE", FALSE, FALSE)
    \cup Both(TRUE, P(<<"d", "g">>), FALSE, "FAIL", TRUE, FALSE)
    \cup Both(TRUE, <<>>, FALSE, "FAIL", TRUE, FALSE)

MCRequests == LocalRequests \cup OddRequests

\* A new file in a directory that exists on the server, with create_parents.
ParentRequests == Both(TRUE, P(<<"d", "g">>), FALSE, "FAIL", TRUE, FALSE)

MCStamps == {"f", "y"}

\* Also an automatic name that the search may come to.
MCRivalPaths == {f, df, g, Renamed(g, 2)}
NoRivalPaths == {}
=============================================================================
