------------------------------- MODULE MCStat -------------------------------
(* Every permission, and every type; every combination of flags; files that  *)
(* are replaced.                                                             *)
EXTENDS Stat

File(mode, t, size, to) ==
    [mode |-> mode, exists |-> TRUE, atime |-> t + 1, mtime |-> t, made |-> 1,
     size |-> size, to |-> to]

\* 0100644, another file, a directory, and links to them and to nowhere
Plain == File({2, 5, 7, 8, 15}, 3, 1, Gone)
Late == File({8, 15}, 7, 2, Gone)
Directory == File({6, 7, 8, 14}, 5, 9, Gone)
Link(to) == File(0..8 \cup {13, 15}, 9, 3, to)

Ask(op, file, sent, rivals) ==
    [op |-> op, file |-> file, sent |-> sent, type |-> "FILE", names |-> {},
     rivals |-> rivals]

All == {"SIZE", "UIDGID", "PERMISSIONS", "ACMODTIME"}
Version4 == {"SIZE", "PERMISSIONS", "ACCESSTIME", "CREATETIME", "MODIFYTIME",
             "SUBSECOND_TIMES"}

\* What servers of version 3, and of version 4 with fractions, send.
Replies == SUBSET All \cup {sent \in SUBSET Version4 : "SUBSECOND_TIMES" \in sent}

Ops == {"stat", "lstat", "entry"}
Several == {Plain, Directory, Link(Plain), Link(Directory), Link(Gone)}

MCRequests ==
    {Ask("stat", File(low \cup {15}, 3, 1, Gone), All, {}) : low \in SUBSET (0..11)}
    \cup {Ask("lstat", File(low \cup type, 3, 1, Gone), All, {}) :
             low \in SUBSET (9..11) \cup {0..8, {2, 3, 7}}, type \in SUBSET S_IFMT}
    \cup [op : Ops, file : {Plain, Late, Link(Late)}, sent : Replies,
          type : {"FILE", "LINK", "UNKNOWN"}, names : {{}, {"owner", "group"}},
          rivals : {{}}]
    \cup {Ask(op, f, sent, Several \cup {Late, Gone}) :
             op \in Ops, f \in Several, sent \in {All, Version4}}

\* none, and 022
MCUmasks == {{}, {1, 4}}
=============================================================================
