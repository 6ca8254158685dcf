-------------------------------- MODULE Stat --------------------------------
(* How attributes come about: stat, lstat and the entries of ls, by the two  *)
(* make_attributes and make_direntry (local/make_attributes.cpp,             *)
(* local/make_direntry.cpp, sftp/sftp_access.cpp), and copy_file, which      *)
(* creates its destination with the source's get_mode(). The local access    *)
(* asks the operating system four or five times, and another process may     *)
(* replace or remove the file in between; the server answers at once.        *)
EXTENDS Attributes

CONSTANTS
    Requests,   \* the calls: what is asked, of which file; the members a server
                \* sends of it, the type byte and the names of its owners; the
                \* files that may take its place meanwhile
    Umasks,     \* the umasks of the process, or server, that makes the copy
    Width       \* 32-bit seconds are taken modulo Width

\* Times are in ticks, so that there are fractions of a second.
Ticks == 2
Sec(t) == t \div Ticks

\* Nothing at the path, or where the link leads to.
Gone == [mode |-> {}, exists |-> FALSE]

FileOK(f) ==
    /\ f.mode \in SUBSET Bits /\ (f.exists \/ f = Gone)
    /\ f.exists => {f.atime, f.mtime, f.made, f.size} \subseteq Nat

\* The flags of a reply, without SSH_FILEXFER_ATTR_, and their bits: the access
\* time of version 4 has the bit that both times have in version 3.
FlagBit == [SIZE |-> 0, UIDGID |-> 1, PERMISSIONS |-> 2, ACMODTIME |-> 3,
            ACCESSTIME |-> 3, CREATETIME |-> 4, MODIFYTIME |-> 5,
            SUBSECOND_TIMES |-> 8]

ASSUME StatAssumption ==
    /\ Width \in Nat \ {0} /\ Umasks \subseteq SUBSET (0..8)
    /\ \A r \in Requests :
          /\ r.op \in {"stat", "lstat", "entry"} /\ r.sent \subseteq DOMAIN FlagBit
          /\ "SUBSECOND_TIMES" \in r.sent => "ACMODTIME" \notin r.sent
          /\ "MODIFYTIME" \in r.sent => "SUBSECOND_TIMES" \in r.sent
          /\ r.type \in {"FILE", "DIR", "LINK", "SPECIAL", "UNKNOWN"}
          /\ r.names \subseteq {"owner", "group"}
          /\ \A f \in {r.file} \cup r.rivals : FileOK(f) /\ (f.exists => FileOK(f.to))

VARIABLES
    request,
    disk,       \* the file at the path, or Gone
    where,      \* the access that was asked, "local" or "remote"
    pc,         \* what it does next
    attr,       \* the attributes it makes
    copy,       \* the mode of the copy, or NoMode
    seen        \* history: what was at the path since the call began

vars == <<request, disk, where, pc, attr, copy, seen>>

\* A copy has at least the bit of its type.
NoMode == {}

Points == {"start", "mtime", "ctime", "size", "readlink", "done", "thrown"}

Init ==
    /\ request \in Requests /\ disk = request.file /\ seen = {disk}
    /\ where = "none" /\ pc = "start" /\ attr = NoAttributes /\ copy = NoMode

\* What a call that follows links is about.
Followed(f) == IF TypeOf(f.mode) = "LINK" THEN f.to ELSE f

\* What the call itself is about: status, or symlink_status.
Meant(f) == IF request.op = "stat" THEN Followed(f) ELSE f

Idle == UNCHANGED <<request, disk, copy, seen>>
-----------------------------------------------------------------------------
(* local/make_attributes.cpp                                                *)

\* Mutant: the type is set before set_mode(), which overwrites it.
LocalAttributesTypeFirst(mode) == set_mode(mode \cap 0..11)

\* boost's permissions are the lower twelve bits, its type is set afterwards.
LocalAttributes(mode) == [set_mode(mode \cap 0..11) EXCEPT !.type = TypeOf(mode)]

\* status or symlink_status; that of an entry of a directory is no error when
\* the file has gone by now, but a status without type and permissions.
LocalStatus ==
    /\ pc = "start" /\ where' = "local"
    /\ LET f == Meant(disk) IN
       \/ /\ f.exists \/ request.op = "entry"
          /\ attr' = LocalAttributes(f.mode) /\ pc' = "mtime"
       \/ ~f.exists /\ request.op # "entry" /\ pc' = "thrown" /\ UNCHANGED attr
    /\ Idle

At(point) == where = "local" /\ pc = point /\ UNCHANGED where /\ Idle

\* Mutant: the error is not looked at.
LastWriteTimeUnchecked ==
    /\ At("mtime") /\ pc' = "ctime"
    /\ attr' = [attr EXCEPT !.mtime =
                  IF Followed(disk).exists THEN {Ticks * Sec(Followed(disk).mtime)}
                  ELSE {0}]

\* last_write_time, of the file at the path now, where a link leads; a call
\* that fails leaves the member unset.
LastWriteTime ==
    /\ At("mtime") /\ pc' = "ctime"
    /\ LET f == Followed(disk) IN
       \/ f.exists /\ attr' = [attr EXCEPT !.mtime = {Ticks * Sec(f.mtime)}]
       \/ ~f.exists /\ UNCHANGED attr

\* creation_time, which not every file system has.
CreationTime ==
    /\ At("ctime") /\ pc' = "size"
    /\ LET f == Followed(disk) IN
       \/ f.exists /\ attr' = [attr EXCEPT !.ctime = {Ticks * Sec(f.made)}]
       \/ UNCHANGED attr

\* file_size is an error for what is not a regular file. ls then asks where a
\* link leads.
FileSize ==
    /\ At("size")
    /\ pc' = IF request.op = "entry" /\ attr.type = "LINK" THEN "readlink" ELSE "done"
    /\ LET f == Followed(disk)
           regular == f.exists /\ TypeOf(f.mode) = "FILE"
       IN  \/ regular /\ attr' = [attr EXCEPT !.size = {f.size}]
           \/ ~regular /\ UNCHANGED attr
-----------------------------------------------------------------------------
(* sftp/sftp_access.cpp                                                     *)

\* What the reply has of a file: members that were not sent are 0.
Seconds(t, flag) == IF flag \in request.sent THEN Sec(t) % Width ELSE 0
Precise(t, flag) == IF flag \in request.sent THEN t ELSE 0

\* in->flags & flag
Has(flag) == \E sent \in request.sent : FlagBit[sent] = FlagBit[flag]

convert_file_time(precise, seconds) ==
    IF Has("SUBSECOND_TIMES") THEN precise ELSE Ticks * seconds

\* Without permissions only the type byte of the reply is left.
SftpMode(mode) ==
    IF Has("PERMISSIONS") THEN set_mode(mode)
    ELSE [NoAttributes EXCEPT !.type = request.type]

SftpAttributes(f) ==
    LET times == Has("ACMODTIME") IN
    [SftpMode(f.mode) EXCEPT
        !.size = IF Has("SIZE") THEN {f.size} ELSE {},
        !.atime = IF times \/ Has("ACCESSTIME")
                  THEN {convert_file_time(Precise(f.atime, "ACCESSTIME"),
                                          Seconds(f.atime, "ACMODTIME"))} ELSE {},
        !.mtime = IF times \/ Has("MODIFYTIME")
                  THEN {convert_file_time(Precise(f.mtime, "MODIFYTIME"),
                                          Seconds(f.mtime, "ACMODTIME"))} ELSE {},
        !.ctime = IF Has("CREATETIME") THEN {f.made} ELSE {},
        !.ids = request.names \cup IF Has("UIDGID") THEN {"uid", "gid"} ELSE {}]

\* sftp_stat, sftp_lstat or sftp_readdir; the latter has an entry for a file
\* that was there.
SftpStat ==
    /\ pc = "start" /\ where' = "remote"
    /\ LET f == Meant(disk) IN
       \/ /\ f.exists /\ attr' = SftpAttributes(f)
          /\ pc' = IF request.op = "entry" /\ attr'.type = "LINK" THEN "readlink"
                   ELSE "done"
       \/ ~f.exists /\ pc' = "thrown" /\ UNCHANGED attr
    /\ Idle
-----------------------------------------------------------------------------
\* read_symlink, sftp_readlink: ls throws when the link is no more.
ReadLink ==
    /\ pc = "readlink"
    /\ pc' = IF TypeOf(disk.mode) = "LINK" THEN "done" ELSE "thrown"
    /\ UNCHANGED <<where, attr>> /\ Idle

\* Another process replaces the file, by rename for instance, or removes it.
Replace ==
    /\ pc \notin {"done", "thrown"}
    /\ \E f \in request.rivals :
          f # disk /\ disk' = f /\ seen' = seen \cup {f}
    /\ UNCHANGED <<request, where, pc, attr, copy>>

\* open(dest, O_CREAT, get_mode()): a regular file with the permissions asked
\* for; O_CREAT looks at no bits of the type.
CreateCopy ==
    /\ pc = "done" /\ request.op = "stat" /\ copy = NoMode
    /\ \E umask \in Umasks :
          copy' = TypeBits.FILE \cup ((get_mode(attr) \cap 0..11) \ umask)
    /\ UNCHANGED <<request, disk, where, pc, attr, seen>>

Next ==
    \/ LocalStatus \/ LastWriteTime \/ CreationTime \/ FileSize
    \/ SftpStat \/ ReadLink \/ Replace \/ CreateCopy

Spec == Init /\ [][Next]_vars
-----------------------------------------------------------------------------
(* Properties.                                                              *)

Made == pc \notin {"start", "thrown"}
Sent(flags) == where = "local" \/ request.sent \cap flags # {}

\* Of the mode that was read get_mode gives all bits back, those of a type that
\* has no name excepted; whoever replaces the file, it is one file's mode.
ModeSurvives ==
    Made /\ Sent({"PERMISSIONS"}) =>
        \E f \in seen : LET mode == Meant(f).mode IN
            get_mode(attr) = IF TypeOf(mode) \in KnownTypes THEN mode
                             ELSE mode \cap 0..11

\* The time of a file as far as it gets through: to the second, and on a server
\* of version 3 in 32 bits.
SecondOf(f) ==
    IF where = "remote" /\ "ACMODTIME" \in request.sent THEN Sec(f.mtime) % Width
    ELSE Sec(f.mtime)

\* The file whose time it is: the local access follows links even for lstat.
Timed(f) == IF where = "local" THEN Followed(f) ELSE Meant(f)

\* A modification time is that of a file that was at the path during the call,
\* never that of a call that failed. (Except for a server that sends the access
\* time alone, whose bit stands for both.)
MtimeIsAFiles ==
    Made /\ Sent({"ACMODTIME", "MODIFYTIME"}) =>
        \A t \in attr.mtime : \E f \in seen :
            Timed(f).exists /\ Sec(t) = SecondOf(Timed(f))

\* The members that a stat of one file has on either access.
Known(f) ==
    /\ Sent({"PERMISSIONS"}) => [attr EXCEPT !.size = {}, !.atime = {}, !.mtime = {},
                                             !.ctime = {}, !.ids = {}]
                                = LocalAttributes(f.mode)
    /\ Sent({"ACMODTIME", "MODIFYTIME"}) /\ TypeOf(f.mode) # "LINK"
          => \E t \in attr.mtime : Sec(t) = SecondOf(f)
    /\ Sent({"SIZE"}) /\ TypeOf(f.mode) = "FILE" => attr.size = {f.size}

\* When nobody interferes the two accesses agree on type, permissions, size and
\* time of a file, on the type and permissions of a link, and the copy has the
\* bits of its source, the umask's aside. (The time that the local lstat has of
\* a link is that of the file it leads to, the server's is the link's own. When
\* the server sends no permissions the copy is made without any.)
AccessesAgree ==
    pc = "done" /\ seen = {disk} /\ disk.exists =>
        /\ Known(Meant(disk))
        /\ copy # NoMode /\ Sent({"PERMISSIONS"}) /\ TypeOf(Meant(disk).mode) = "FILE"
              => \E umask \in Umasks : copy = Meant(disk).mode \ umask

\* ls -l's letters stand where they stand there: letter k of 2..10 is shown
\* exactly when bit 10 - k of the file's mode is set.
StringShowsBits ==
    Made /\ where = "local" =>
        \E f \in seen : \A k \in 2..10 :
            mode_string(attr)[k] # "-" <=> (10 - k) \in Meant(f).mode
=============================================================================
