----------------------------- MODULE Attributes -----------------------------
(* The conversions of core/attributes.cpp. A mode_t is the set of its bits   *)
(* that are 1: | is union and & is intersection. An optional member is a set *)
(* of at most one value; of uid, gid, owner and group it is kept only        *)
(* whether they are set.                                                     *)
EXTENDS Naturals, Sequences

Bits == 0..15

S_IFMT == 12..15
TypeBits == [BLOCK |-> {13, 14}, CHAR |-> {13}, DIR |-> {14}, FIFO |-> {12},
             LINK |-> {13, 15}, FILE |-> {15}, SOCK |-> {14, 15}]
KnownTypes == DOMAIN TypeBits
FileTypes == KnownTypes \cup {"SPECIAL", "UNKNOWN"}

S_ISUID == 11
S_ISGID == 10
S_ISVTX == 9
User == [READ |-> 8, WRITE |-> 7, EXEC |-> 6]
Group == [READ |-> 5, WRITE |-> 4, EXEC |-> 3]
Other == [READ |-> 2, WRITE |-> 1, EXEC |-> 0]
Special == [SET_UID |-> S_ISUID, SET_GID |-> S_ISGID, STICKY |-> S_ISVTX]

\* convert_file_type(mode_t)
TypeOf(mode) ==
    IF \E t \in KnownTypes : TypeBits[t] = mode \cap S_IFMT
    THEN CHOOSE t \in KnownTypes : TypeBits[t] = mode \cap S_IFMT ELSE "UNKNOWN"

\* convert_file_type(filetype); a special or unknown type has no bits.
BitsOfType(type) == IF type \in KnownTypes THEN TypeBits[type] ELSE {}

\* convert_file_mode, convert_file_perm: the flags whose bit is set, and back.
Named(table, mode) == {flag \in DOMAIN table : table[flag] \in mode}
BitsOf(table, flags) == {table[flag] : flag \in flags}

\* set_mode writes every member that a mode has, into attributes{}.
set_mode(mode) ==
    [type |-> TypeOf(mode), mode |-> Named(Special, mode),
     uperm |-> Named(User, mode), gperm |-> Named(Group, mode),
     operm |-> Named(Other, mode),
     size |-> {}, atime |-> {}, mtime |-> {}, ctime |-> {}, ids |-> {}]

\* Mutant: the group's bits are taken for others too.
get_mode_group_twice(a) ==
    BitsOf(User, a.uperm) \cup BitsOf(Group, a.gperm) \cup BitsOf(Other, a.gperm)
        \cup BitsOf(Special, a.mode) \cup BitsOfType(a.type)

get_mode(a) ==
    BitsOf(User, a.uperm) \cup BitsOf(Group, a.gperm) \cup BitsOf(Other, a.operm)
        \cup BitsOf(Special, a.mode) \cup BitsOfType(a.type)

\* attributes{}: the first type, and nothing set.
NoAttributes ==
    [set_mode({}) EXCEPT !.type = "BLOCK"]

Letters == [BLOCK |-> "b", CHAR |-> "c", DIR |-> "d", FIFO |-> "p", LINK |-> "l",
            FILE |-> "-", SOCK |-> "s", SPECIAL |-> "S", UNKNOWN |-> "?"]

\* Mutant: the letters come in the order of the flags' names.
rwx_exec_first(perm) ==
    <<IF "EXEC" \in perm THEN "x" ELSE "-", IF "READ" \in perm THEN "r" ELSE "-",
      IF "WRITE" \in perm THEN "w" ELSE "-">>

rwx(perm) ==
    <<IF "READ" \in perm THEN "r" ELSE "-", IF "WRITE" \in perm THEN "w" ELSE "-",
      IF "EXEC" \in perm THEN "x" ELSE "-">>

mode_string(a) == <<Letters[a.type]>> \o rwx(a.uperm) \o rwx(a.gperm) \o rwx(a.operm)
=============================================================================
