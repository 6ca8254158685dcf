------------------------------ MODULE MCAccess ------------------------------
(* Small instances of Access.                                               *)
EXTENDS Access, TLC

P(stems) == [k \in 1..Len(stems) |-> Name(stems[k])]

a == P(<<"a">>)
ab == P(<<"a", "b">>)
abc == P(<<"a", "b", "c">>)
x == P(<<"x">>)

\* Nothing; a directory in a directory; a file where a directory should go.
MCTrees == {[p \in {} |-> Dir], a :> Dir @@ ab :> Dir, a :> Dir @@ ab :> 1 @@ x :> 2}

Does(op, path, to, parents) ==
    [op |-> op, path |-> path, slash |-> FALSE, to |-> to, parents |-> parents]

MCCalls ==
    {[Does("mkdir", ab, <<>>, TRUE) EXCEPT !.slash = TRUE],
     Does("mkdir", abc, <<>>, TRUE), Does("mkdir", ab, <<>>, TRUE),
     Does("mkdir", ab, <<>>, FALSE), Does("mkdir", a, <<>>, FALSE),
     Does("remove", ab, <<>>, FALSE), Does("remove", a, <<>>, FALSE),
     Does("rename", a, x, FALSE), Does("rename", x, ab, FALSE),
     Does("exists", ab, <<>>, FALSE), Does("try_stat", abc, <<>>, FALSE),
     Does("stat", a, <<>>, FALSE)}
TwoClients == {"local", "remote"}
OneRemote == {"remote"}
=============================================================================
