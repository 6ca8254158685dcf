------------------------- MODULE Attributes_proofs --------------------------
(* What set_mode, get_mode and mode_string do to every mode, what follows    *)
(* for what the two accesses return, whoever replaces the file meanwhile,    *)
(* and that they return the same when nobody does.                           *)
EXTENDS Stat, SequenceTheorems, TLAPS

\* The flags of a table name the table's bits: converting there and back keeps
\* exactly these bits of a mode (convert_file_mode, convert_file_perm).
LEMMA TableRoundTrip ==
    ASSUME NEW table, NEW mode
    PROVE  BitsOf(table, Named(table, mode))
               = mode \cap {table[flag] : flag \in DOMAIN table}
  BY DEF BitsOf, Named

\* The four tables and the type cover the bits.
LEMMA TablesCover ==
    /\ {User[flag] : flag \in DOMAIN User} = {6, 7, 8}
    /\ {Group[flag] : flag \in DOMAIN Group} = {3, 4, 5}
    /\ {Other[flag] : flag \in DOMAIN Other} = {0, 1, 2}
    /\ {Special[flag] : flag \in DOMAIN Special} = {9, 10, 11}
  <1>1. /\ DOMAIN User = {"READ", "WRITE", "EXEC"}
        /\ DOMAIN Group = {"READ", "WRITE", "EXEC"}
        /\ DOMAIN Other = {"READ", "WRITE", "EXEC"}
        /\ DOMAIN Special = {"SET_UID", "SET_GID", "STICKY"}
    BY DEF User, Group, Other, Special
  <1>2. /\ User["READ"] = 8 /\ User["WRITE"] = 7 /\ User["EXEC"] = 6
        /\ Group["READ"] = 5 /\ Group["WRITE"] = 4 /\ Group["EXEC"] = 3
        /\ Other["READ"] = 2 /\ Other["WRITE"] = 1 /\ Other["EXEC"] = 0
    BY DEF User, Group, Other
  <1>3. /\ Special["SET_UID"] = 11 /\ Special["SET_GID"] = 10
        /\ Special["STICKY"] = 9
    BY DEF Special, S_ISUID, S_ISGID, S_ISVTX
  <1> QED  BY <1>1, <1>2, <1>3

\* A type that has a name has the bits it was told by.
LEMMA TypeRoundTrip ==
    ASSUME NEW mode
    PROVE  BitsOfType(TypeOf(mode)) =
               IF TypeOf(mode) \in KnownTypes THEN mode \cap S_IFMT ELSE {}
  <1>1. CASE \E t \in KnownTypes : TypeBits[t] = mode \cap S_IFMT
    BY <1>1 DEF BitsOfType, TypeOf
  <1>2. CASE ~\E t \in KnownTypes : TypeBits[t] = mode \cap S_IFMT
    <2>1. TypeOf(mode) = "UNKNOWN"
      BY <1>2 DEF TypeOf
    <2>2. "UNKNOWN" \notin KnownTypes
      BY DEF KnownTypes, TypeBits
    <2> QED  BY <2>1, <2>2 DEF BitsOfType
  <1> QED  BY <1>1, <1>2

\* The four tables' bits are the lower twelve.
LEMMA LowParts ==
    ASSUME NEW mode
    PROVE  (mode \cap {6, 7, 8}) \cup (mode \cap {3, 4, 5})
               \cup (mode \cap {0, 1, 2}) \cup (mode \cap {9, 10, 11})
           = mode \cap 0..11
  <1>1. \A i : i \in 0..11 <=> i \in {6, 7, 8} \/ i \in {3, 4, 5}
                              \/ i \in {0, 1, 2} \/ i \in {9, 10, 11}
    OBVIOUS
  <1> QED  BY <1>1, Zenon

\* Every mode survives set_mode and get_mode, but for a type without a name.
LEMMA ModeRoundTrip ==
    ASSUME NEW mode \in SUBSET Bits
    PROVE  get_mode(set_mode(mode)) =
               (mode \cap 0..11)
               \cup IF TypeOf(mode) \in KnownTypes THEN mode \cap S_IFMT ELSE {}
  <1> DEFINE a == set_mode(mode)
  <1>1. /\ a.uperm = Named(User, mode) /\ a.gperm = Named(Group, mode)
        /\ a.operm = Named(Other, mode) /\ a.mode = Named(Special, mode)
        /\ a.type = TypeOf(mode)
    BY DEF set_mode
  <1>2. /\ BitsOf(User, Named(User, mode)) = mode \cap {6, 7, 8}
        /\ BitsOf(Group, Named(Group, mode)) = mode \cap {3, 4, 5}
        /\ BitsOf(Other, Named(Other, mode)) = mode \cap {0, 1, 2}
        /\ BitsOf(Special, Named(Special, mode)) = mode \cap {9, 10, 11}
    BY TableRoundTrip, TablesCover, SMTT(30)
  <1> HIDE DEF a
  <1>3. get_mode(a) = (mode \cap {6, 7, 8}) \cup (mode \cap {3, 4, 5})
                      \cup (mode \cap {0, 1, 2}) \cup (mode \cap {9, 10, 11})
                      \cup BitsOfType(TypeOf(mode))
    BY <1>1, <1>2, Zenon DEF get_mode
  <1>4. get_mode(a) = (mode \cap 0..11) \cup BitsOfType(TypeOf(mode))
    BY <1>3, LowParts, Zenon
  <1> QED  BY <1>4, TypeRoundTrip DEF a

\* The lower twelve bits and the type are all the bits there are.
LEMMA ModeHasTwoParts ==
    ASSUME NEW mode \in SUBSET Bits
    PROVE  (mode \cap 0..11) \cup (mode \cap S_IFMT) = mode
  <1>1. \A i : i \in 0..15 => i \in 0..11 \/ i \in 12..15
    OBVIOUS
  <1> QED  BY <1>1 DEF Bits, S_IFMT

\* The mode that a complete stat stands for: what is proved of either access.
Whole(mode) == IF TypeOf(mode) \in KnownTypes THEN mode ELSE mode \cap 0..11

\* The mode of a reply with permissions.
LEMMA SftpWhole ==
    ASSUME NEW f, f.mode \in SUBSET Bits, Has("PERMISSIONS")
    PROVE  get_mode(SftpAttributes(f)) = Whole(f.mode)
  <1> DEFINE a == SftpAttributes(f)
             b == set_mode(f.mode)
  <1>1. /\ a.uperm = b.uperm /\ a.gperm = b.gperm
        /\ a.operm = b.operm /\ a.mode = b.mode /\ a.type = b.type
    BY DEF SftpAttributes, SftpMode, set_mode
  <1>2. get_mode(a) = get_mode(b)
    BY <1>1, Zenon DEF get_mode
  <1> QED  BY <1>2, ModeRoundTrip, ModeHasTwoParts DEF Whole

\* The attributes of a local file with what was filled in since.
Filled(mode, m, c, s) ==
    LET low == mode \cap 0..11 IN
    [type |-> TypeOf(mode), mode |-> Named(Special, low),
     uperm |-> Named(User, low), gperm |-> Named(Group, low),
     operm |-> Named(Other, low),
     size |-> s, atime |-> {}, mtime |-> m, ctime |-> c, ids |-> {}]

LEMMA Filling ==
    ASSUME NEW mode, NEW m, NEW c, NEW s, NEW x
    PROVE  /\ LocalAttributes(mode) = Filled(mode, {}, {}, {})
           /\ [Filled(mode, m, c, s) EXCEPT !.mtime = x] = Filled(mode, x, c, s)
           /\ [Filled(mode, m, c, s) EXCEPT !.ctime = x] = Filled(mode, m, x, s)
           /\ [Filled(mode, m, c, s) EXCEPT !.size = x] = Filled(mode, m, c, x)
           /\ Filled(mode, m, c, s).mtime = m
  <1>1. LocalAttributes(mode) = Filled(mode, {}, {}, {})
    BY DEF Filled, LocalAttributes, set_mode
  <1>2. [Filled(mode, m, c, s) EXCEPT !.mtime = x] = Filled(mode, x, c, s)
    BY DEF Filled
  <1>3. [Filled(mode, m, c, s) EXCEPT !.ctime = x] = Filled(mode, m, x, s)
    BY DEF Filled
  <1>4. [Filled(mode, m, c, s) EXCEPT !.size = x] = Filled(mode, m, c, x)
    BY DEF Filled
  <1>5. Filled(mode, m, c, s).mtime = m
    BY DEF Filled
  <1> QED  BY <1>1, <1>2, <1>3, <1>4, <1>5

\* The permissions alone go through set_mode, and the type is put in afterwards.
LEMMA LocalWhole ==
    ASSUME NEW mode \in SUBSET Bits, NEW m, NEW c, NEW s
    PROVE  get_mode(Filled(mode, m, c, s)) = Whole(mode)
  <1> DEFINE low == mode \cap 0..11
             a == Filled(mode, m, c, s)
  <1>1. /\ a.uperm = Named(User, low) /\ a.gperm = Named(Group, low)
        /\ a.operm = Named(Other, low) /\ a.mode = Named(Special, low)
        /\ a.type = TypeOf(mode)
    BY DEF Filled
  <1>2. /\ BitsOf(User, Named(User, low)) = low \cap {6, 7, 8}
        /\ BitsOf(Group, Named(Group, low)) = low \cap {3, 4, 5}
        /\ BitsOf(Other, Named(Other, low)) = low \cap {0, 1, 2}
        /\ BitsOf(Special, Named(Special, low)) = low \cap {9, 10, 11}
    BY TableRoundTrip, TablesCover, SMTT(30)
  <1> HIDE DEF a
  <1>3. get_mode(a) = (low \cap {6, 7, 8}) \cup (low \cap {3, 4, 5})
                      \cup (low \cap {0, 1, 2}) \cup (low \cap {9, 10, 11})
                      \cup BitsOfType(TypeOf(mode))
    BY <1>1, <1>2, Zenon DEF get_mode
  <1>4. get_mode(a) = low \cup BitsOfType(TypeOf(mode))
    <2>1. low \cap 0..11 = low
      OBVIOUS
    <2>2. get_mode(a) = (low \cap 0..11) \cup BitsOfType(TypeOf(mode))
      BY <1>3, LowParts, Zenon
    <2> QED  BY <2>1, <2>2
  <1> QED  BY <1>4, TypeRoundTrip, ModeHasTwoParts DEF a, Whole

\* What was there before the call, or came, is a file with a mode, and so is
\* what a link leads to.
LEMMA FilesAreFiles ==
    ASSUME NEW r \in Requests, NEW f \in {r.file} \cup r.rivals
    PROVE  FileOK(f) /\ FileOK(Followed(f))
  <1>1. FileOK(f) /\ (f.exists => FileOK(f.to))
    BY StatAssumption
  <1>2. CASE f.exists
    BY <1>1, <1>2 DEF Followed
  <1>3. CASE ~f.exists
    <2>1. f.mode = {}
      BY <1>1, <1>3 DEF FileOK, Gone
    <2>2. TypeOf(f.mode) = "UNKNOWN"
      BY <2>1 DEF TypeOf, TypeBits, KnownTypes
    <2> QED  BY <1>1, <2>2 DEF Followed
  <1> QED  BY <1>2, <1>3

\* A time of a file that was there, as last_write_time gives it.
LocalTime(t) ==
    \E g \in seen : Followed(g).exists /\ t = Ticks * Sec(Followed(g).mtime)

\* The attributes were made from one file by one of the two, the local times
\* from another one perhaps.
AttrOfFile ==
    /\ request \in Requests
    /\ disk \in seen /\ seen \subseteq {request.file} \cup request.rivals
    /\ pc \in Points /\ where \in {"none", "local", "remote"}
    /\ where = "none" => pc = "start"
    /\ Made /\ where = "local" =>
          \E f \in seen : \E m, c, s :
              attr = Filled(Meant(f).mode, m, c, s) /\ \A t \in m : LocalTime(t)
    /\ Made /\ where = "remote" =>
          \E f \in seen : Meant(f).exists /\ attr = SftpAttributes(Meant(f))

\* What is said of a file at the path stays true when another one comes.
LEMMA SameMeaning ==
    ASSUME UNCHANGED request, seen \subseteq seen'
    PROVE  /\ \A f : Meant(f)' = Meant(f)
           /\ \A f : SftpAttributes(Meant(f))' = SftpAttributes(Meant(f))
           /\ \A t : LocalTime(t) => LocalTime(t)'
  <1>1. \A f : Meant(f)' = Meant(f)
    BY DEF Meant
  <1>3. \A t : LocalTime(t) => LocalTime(t)'
    BY DEF LocalTime
  <1>2. \A f : SftpAttributes(Meant(f))' = SftpAttributes(Meant(f))
    BY DEF Meant, SftpAttributes, SftpMode, Has, convert_file_time, Precise, Seconds
  <1> QED  BY <1>1, <1>2, <1>3

LEMMA AttrStart == Init => AttrOfFile
  BY DEF Init, AttrOfFile, Made, Points

LEMMA AttrStep ==
    ASSUME AttrOfFile, [Next]_vars
    PROVE  AttrOfFile'
  <1>1. ASSUME NEW m, NEW c, NEW s, NEW f \in seen, where' = "local",
               Idle, pc' \in Points,
               attr' = Filled(Meant(f).mode, m, c, s), \A t \in m : LocalTime(t)
        PROVE  AttrOfFile'
    <2>1. \A t \in m : LocalTime(t)'
      BY <1>1 DEF Idle, LocalTime
    <2>2. Meant(f)' = Meant(f) /\ f \in seen'
      BY <1>1 DEF Idle, Meant
    <2> QED  BY <1>1, <2>1, <2>2 DEF AttrOfFile, Idle, Made
  <1>2. CASE LocalStatus
    <2>1. Idle /\ where' = "local" /\ UNCHANGED <<request, disk, seen>>
      BY <1>2 DEF LocalStatus, Idle
    <2>2. CASE pc' = "thrown"
      BY <2>1, <2>2 DEF AttrOfFile, Made, Points
    <2>3. CASE pc' = "mtime" /\ attr' = LocalAttributes(Meant(disk).mode)
      <3>1. PICK f \in seen : f = disk
        BY DEF AttrOfFile
      <3>2. attr' = Filled(Meant(f).mode, {}, {}, {})
        BY <2>3, <3>1, Filling
      <3>3. \A t \in {} : LocalTime(t)
        OBVIOUS
      <3> QED  BY <2>1, <2>3, <3>2, <3>3, <1>1 DEF Points
    <2> QED  BY <1>2, <2>2, <2>3 DEF LocalStatus
  <1>3. ASSUME NEW point \in {"mtime", "ctime", "size"}, At(point)
        PROVE  \E f \in seen : \E m, c, s :
                  attr = Filled(Meant(f).mode, m, c, s) /\ \A t \in m : LocalTime(t)
    BY <1>3 DEF At, AttrOfFile, Made
  <1>4. CASE LastWriteTime
    <2>1. At("mtime") /\ pc' = "ctime"
      BY <1>4 DEF LastWriteTime
    <2>2. PICK f \in seen : \E m, c, s :
             attr = Filled(Meant(f).mode, m, c, s) /\ \A t \in m : LocalTime(t)
      BY <2>1, <1>3
    <2>3. PICK m, c, s :
             attr = Filled(Meant(f).mode, m, c, s) /\ \A t \in m : LocalTime(t)
      BY <2>2
    <2> DEFINE x == {Ticks * Sec(Followed(disk).mtime)}
    <2>4. CASE Followed(disk).exists /\ attr' = [attr EXCEPT !.mtime = x]
      <3>1. \A t \in x : LocalTime(t)
        BY <2>4 DEF LocalTime, AttrOfFile
      <3>2. attr' = Filled(Meant(f).mode, x, c, s)
        <4>1. attr' = [Filled(Meant(f).mode, m, c, s) EXCEPT !.mtime = x]
          BY <2>3, <2>4, Zenon
        <4> HIDE DEF x
        <4>2. [Filled(Meant(f).mode, m, c, s) EXCEPT !.mtime = x]
              = Filled(Meant(f).mode, x, c, s)
          BY DEF Filled
        <4> QED  BY <4>1, <4>2, Zenon
      <3> QED  BY <2>1, <3>1, <3>2, <1>1 DEF At, Points
    <2>5. CASE UNCHANGED attr
      BY <2>1, <2>3, <2>5, <1>1 DEF At, Points
    <2> QED  BY <1>4, <2>4, <2>5 DEF LastWriteTime
  <1>5. CASE CreationTime
    <2>1. At("ctime") /\ pc' = "size"
      BY <1>5 DEF CreationTime
    <2>2. PICK f \in seen : \E m, c, s :
             attr = Filled(Meant(f).mode, m, c, s) /\ \A t \in m : LocalTime(t)
      BY <2>1, <1>3
    <2>3. PICK m, c, s :
             attr = Filled(Meant(f).mode, m, c, s) /\ \A t \in m : LocalTime(t)
      BY <2>2
    <2>4. CASE \E x : attr' = [attr EXCEPT !.ctime = x]
      <3>1. PICK x : attr' = [attr EXCEPT !.ctime = x]
        BY <2>4
      <3>2. attr' = Filled(Meant(f).mode, m, x, s)
        <4>1. attr' = [Filled(Meant(f).mode, m, c, s) EXCEPT !.ctime = x]
          BY <2>3, <3>1, Zenon
        <4>2. [Filled(Meant(f).mode, m, c, s) EXCEPT !.ctime = x]
              = Filled(Meant(f).mode, m, x, s)
          BY DEF Filled
        <4> QED  BY <4>1, <4>2, Zenon
      <3> QED  BY <2>1, <2>3, <3>2, <1>1 DEF At, Points
    <2>5. CASE UNCHANGED attr
      BY <2>1, <2>3, <2>5, <1>1 DEF At, Points
    <2> QED  BY <1>5, <2>4, <2>5 DEF CreationTime
  <1>6. CASE FileSize
    <2>1. At("size") /\ pc' \in Points
      BY <1>6 DEF FileSize, Points
    <2>2. PICK f \in seen : \E m, c, s :
             attr = Filled(Meant(f).mode, m, c, s) /\ \A t \in m : LocalTime(t)
      BY <2>1, <1>3
    <2>3. PICK m, c, s :
             attr = Filled(Meant(f).mode, m, c, s) /\ \A t \in m : LocalTime(t)
      BY <2>2
    <2>4. CASE \E x : attr' = [attr EXCEPT !.size = x]
      <3>1. PICK x : attr' = [attr EXCEPT !.size = x]
        BY <2>4
      <3>2. attr' = Filled(Meant(f).mode, m, c, x)
        <4>1. attr' = [Filled(Meant(f).mode, m, c, s) EXCEPT !.size = x]
          BY <2>3, <3>1, Zenon
        <4>2. [Filled(Meant(f).mode, m, c, s) EXCEPT !.size = x]
              = Filled(Meant(f).mode, m, c, x)
          BY DEF Filled
        <4> QED  BY <4>1, <4>2, Zenon
      <3> QED  BY <2>1, <2>3, <3>2, <1>1 DEF At
    <2>5. CASE UNCHANGED attr
      BY <2>1, <2>3, <2>5, <1>1 DEF At
    <2> QED  BY <1>6, <2>4, <2>5 DEF FileSize
  <1>7. CASE SftpStat
    <2>1. UNCHANGED <<request, disk, seen>> /\ where' = "remote"
      BY <1>7 DEF SftpStat, Idle
    <2>2. \/ pc' = "thrown"
          \/ /\ pc' \in {"readlink", "done"} /\ Meant(disk).exists
             /\ attr' = SftpAttributes(Meant(disk))
      BY <1>7 DEF SftpStat
    <2>3. Meant(disk)' = Meant(disk)
      BY <2>1 DEF Meant
    <2>4. SftpAttributes(Meant(disk))' = SftpAttributes(Meant(disk))
      BY <2>1, <2>3 DEF SftpAttributes, SftpMode, Has, convert_file_time, Precise,
         Seconds
    <2> QED  BY <2>1, <2>2, <2>3, <2>4 DEF AttrOfFile, Made, Points
  <1>8. CASE ReadLink
    <2>1. UNCHANGED <<request, disk, seen, where, attr>> /\ Made
      BY <1>8 DEF ReadLink, Idle, Made
    <2>2. pc' \in {"done", "thrown"}
      BY <1>8 DEF ReadLink
    <2> QED
      BY <2>1, <2>2, SameMeaning DEF AttrOfFile, Made, Points
  <1>9. CASE Replace
    <2>1. UNCHANGED <<request, where, pc, attr>> /\ seen \subseteq seen'
      BY <1>9 DEF Replace
    <2>2. disk' \in seen' /\ seen' \subseteq {request.file} \cup request.rivals
      BY <1>9 DEF Replace, AttrOfFile
    <2> QED
      BY <2>1, <2>2, SameMeaning DEF AttrOfFile, Made
  <1>10. CASE CreateCopy \/ UNCHANGED vars
    <2>1. UNCHANGED <<request, disk, seen, where, pc, attr>>
      BY <1>10 DEF CreateCopy, vars
    <2> QED
      BY <2>1, SameMeaning DEF AttrOfFile, Made
  <1> QED
    BY <1>2, <1>4, <1>5, <1>6, <1>7, <1>8, <1>9, <1>10 DEF Next

LEMMA AttrAlways == Spec => []AttrOfFile
  <1>1. AttrOfFile /\ [Next]_vars => AttrOfFile'
    BY AttrStep
  <1> QED  BY <1>1, AttrStart, PTL DEF Spec

\* What any call is about has a mode.
LEMMA MeantIsFile ==
    ASSUME AttrOfFile, NEW f \in seen
    PROVE  FileOK(Meant(f))
  <1>1. FileOK(f) /\ FileOK(Followed(f))
    BY FilesAreFiles DEF AttrOfFile
  <1> QED  BY <1>1 DEF Meant

\* The mode of attributes that were made from one file.
LEMMA SurvivesNow == AttrOfFile => ModeSurvives
  <1> SUFFICES ASSUME AttrOfFile, Made, Sent({"PERMISSIONS"})
               PROVE  \E f \in seen : get_mode(attr) = Whole(Meant(f).mode)
    BY DEF ModeSurvives, Whole
  <1>1. CASE where = "local"
    <2>1. PICK f \in seen : \E m, c, s :
             attr = Filled(Meant(f).mode, m, c, s) /\ \A t \in m : LocalTime(t)
      BY <1>1 DEF AttrOfFile
    <2>2. Meant(f).mode \in SUBSET Bits
      BY MeantIsFile DEF FileOK
    <2> QED  BY <2>1, <2>2, LocalWhole
  <1>2. CASE where = "remote"
    <2>1. PICK f \in seen : attr = SftpAttributes(Meant(f))
      BY <1>2 DEF AttrOfFile
    <2>2. Meant(f).mode \in SUBSET Bits
      BY MeantIsFile DEF FileOK
    <2>3. Has("PERMISSIONS")
      BY <1>2 DEF Sent, Has
    <2> QED  BY <2>1, <2>2, <2>3, SftpWhole
  <1>3. CASE where = "none"
    BY <1>3 DEF AttrOfFile, Made
  <1> QED  BY <1>1, <1>2, <1>3 DEF AttrOfFile

\* Both kinds of stat return a mode that get_mode gives back whole: no bit of
\* it is lost or added on the way, for any file, through either access, and it
\* is the mode of one file although the file is replaced during the call.
THEOREM ModeAlwaysSurvives == Spec => []ModeSurvives
  BY SurvivesNow, AttrAlways, PTL

\* A whole second of ticks is that second.
LEMMA SecOfTicks == \A n \in Nat : Sec(Ticks * n) = n /\ Sec(n) \in Nat
  BY DEF Sec, Ticks

\* The time of a reply in which it was sent.
LEMMA SftpTime ==
    ASSUME NEW f, f.mtime \in Nat, request \in Requests, where = "remote",
           Sent({"ACMODTIME", "MODIFYTIME"}), NEW t \in SftpAttributes(f).mtime
    PROVE  Sec(t) = SecondOf(f)
  <1>1. t = convert_file_time(Precise(f.mtime, "MODIFYTIME"),
                              Seconds(f.mtime, "ACMODTIME"))
    BY DEF SftpAttributes, SftpMode, set_mode, NoAttributes
  <1>2. Has("SUBSECOND_TIMES") <=> "SUBSECOND_TIMES" \in request.sent
    BY StatAssumption DEF Has, FlagBit
  <1>3. CASE "SUBSECOND_TIMES" \in request.sent
    <2>1. "ACMODTIME" \notin request.sent /\ "MODIFYTIME" \in request.sent
      BY <1>3, StatAssumption DEF Sent
    <2>2. t = f.mtime
      BY <1>1, <1>2, <1>3, <2>1 DEF convert_file_time, Precise
    <2> QED  BY <2>1, <2>2 DEF SecondOf
  <1>4. CASE "SUBSECOND_TIMES" \notin request.sent
    <2>1. "ACMODTIME" \in request.sent
      BY <1>4, StatAssumption DEF Sent
    <2>2. t = Ticks * (Sec(f.mtime) % Width)
      BY <1>1, <1>2, <1>4, <2>1 DEF convert_file_time, Seconds
    <2>3. Sec(f.mtime) % Width \in Nat
      BY SecOfTicks, StatAssumption
    <2> QED  BY <2>1, <2>2, <2>3, SecOfTicks DEF SecondOf
  <1> QED  BY <1>3, <1>4

\* The modification time is always one that a file at the path had.
THEOREM MtimeIsAlwaysAFiles == Spec => []MtimeIsAFiles
  <1>1. AttrOfFile => MtimeIsAFiles
    <2> SUFFICES ASSUME AttrOfFile, Made, Sent({"ACMODTIME", "MODIFYTIME"}),
                        NEW t \in attr.mtime
                 PROVE  \E f \in seen :
                           Timed(f).exists /\ Sec(t) = SecondOf(Timed(f))
      BY DEF MtimeIsAFiles
    <2>1. CASE where = "local"
      <3>1. LocalTime(t)
        BY <2>1, Filling DEF AttrOfFile
      <3>2. PICK g \in seen :
               Followed(g).exists /\ t = Ticks * Sec(Followed(g).mtime)
        BY <3>1 DEF LocalTime
      <3>3. Followed(g).mtime \in Nat
        BY <3>2, FilesAreFiles DEF AttrOfFile, FileOK
      <3>4. Sec(t) = Sec(Followed(g).mtime)
        BY <3>2, <3>3, SecOfTicks
      <3> QED  BY <2>1, <3>2, <3>4 DEF Timed, SecondOf
    <2>2. CASE where = "remote"
      <3>1. PICK f \in seen : Meant(f).exists /\ attr = SftpAttributes(Meant(f))
        BY <2>2 DEF AttrOfFile
      <3>2. Meant(f).mtime \in Nat
        BY <3>1, MeantIsFile DEF FileOK
      <3>3. request \in Requests
        BY DEF AttrOfFile
      <3>4. Sec(t) = SecondOf(Meant(f))
        BY <2>2, <3>1, <3>2, <3>3, SftpTime
      <3> QED  BY <2>2, <3>1, <3>4 DEF Timed
    <2>3. CASE where = "none"
      BY <2>3 DEF AttrOfFile, Made
    <2> QED  BY <2>1, <2>2, <2>3 DEF AttrOfFile
  <1> QED  BY <1>1, AttrAlways, PTL
-----------------------------------------------------------------------------
(* The letters of ls -l.                                                    *)

\* Where the letters of the three triples stand in a string of ten.
Triples(all, u, g, o) ==
    /\ all[2] = u[1] /\ all[3] = u[2] /\ all[4] = u[3]
    /\ all[5] = g[1] /\ all[6] = g[2] /\ all[7] = g[3]
    /\ all[8] = o[1] /\ all[9] = o[2] /\ all[10] = o[3]

LEMMA Joined ==
    ASSUME NEW S, NEW t \in Seq(S), NEW u \in Seq(S), NEW g \in Seq(S),
           NEW o \in Seq(S), Len(t) = 1, Len(u) = 3, Len(g) = 3, Len(o) = 3
    PROVE  Triples(t \o u \o g \o o, u, g, o)
  <1> DEFINE tu == t \o u
             tug == tu \o g
             all == tug \o o
  <1>1. /\ tu \in Seq(S) /\ Len(tu) = Len(t) + Len(u)
        /\ \A i \in 1..Len(t) + Len(u) :
              tu[i] = IF i <= Len(t) THEN t[i] ELSE u[i - Len(t)]
    BY ConcatProperties
  <1>2. /\ Len(tu) = 1 + 3
        /\ \A i \in 1..1 + 3 : tu[i] = IF i <= 1 THEN t[i] ELSE u[i - 1]
    BY <1>1, Zenon
  <1>3. Len(tu) = 4
    <2>1. 1 + 3 = 4
      OBVIOUS
    <2> QED  BY <1>2, <2>1, Zenon
  <1> HIDE DEF tu
  <1>4. /\ tug \in Seq(S) /\ Len(tug) = Len(tu) + Len(g)
        /\ \A i \in 1..Len(tu) + Len(g) :
              tug[i] = IF i <= Len(tu) THEN tu[i] ELSE g[i - Len(tu)]
    <2>1. tu \in Seq(S)
      BY <1>1
    <2> QED  BY <2>1, ConcatProperties
  <1>5. /\ Len(tug) = 4 + 3
        /\ \A i \in 1..4 + 3 : tug[i] = IF i <= 4 THEN tu[i] ELSE g[i - 4]
    BY <1>3, <1>4, Zenon
  <1>6. Len(tug) = 7
    <2>1. 4 + 3 = 7
      OBVIOUS
    <2> QED  BY <1>5, <2>1, Zenon
  <1> HIDE DEF tug
  <1>7. \A i \in 1..Len(tug) + Len(o) :
           all[i] = IF i <= Len(tug) THEN tug[i] ELSE o[i - Len(tug)]
    <2>1. tug \in Seq(S)
      BY <1>4
    <2> QED  BY <2>1, ConcatProperties
  <1>8. \A i \in 1..7 + 3 : all[i] = IF i <= 7 THEN tug[i] ELSE o[i - 7]
    BY <1>6, <1>7, Zenon
  <1> HIDE DEF all
  <1>9. /\ tu[2] = u[1] /\ tu[3] = u[2] /\ tu[4] = u[3]
    BY <1>2
  <1>10. /\ tug[2] = tu[2] /\ tug[3] = tu[3] /\ tug[4] = tu[4]
         /\ tug[5] = g[1] /\ tug[6] = g[2] /\ tug[7] = g[3]
    BY <1>5
  <1>11. /\ all[2] = tug[2] /\ all[3] = tug[3] /\ all[4] = tug[4]
         /\ all[5] = tug[5] /\ all[6] = tug[6] /\ all[7] = tug[7]
         /\ all[8] = o[1] /\ all[9] = o[2] /\ all[10] = o[3]
    BY <1>8
  <1> QED  BY <1>9, <1>10, <1>11, Zenon DEF all, tug, tu, Triples

\* A flag of the owner, the group or the others is set when its bit is, also of
\* the lower bits alone.
LEMMA FlagIsBit ==
    ASSUME NEW mode, NEW low, low = mode \cap 0..11
    PROVE  /\ "READ" \in Named(User, low) <=> 8 \in mode
           /\ "WRITE" \in Named(User, low) <=> 7 \in mode
           /\ "EXEC" \in Named(User, low) <=> 6 \in mode
           /\ "READ" \in Named(Group, low) <=> 5 \in mode
           /\ "WRITE" \in Named(Group, low) <=> 4 \in mode
           /\ "EXEC" \in Named(Group, low) <=> 3 \in mode
           /\ "READ" \in Named(Other, low) <=> 2 \in mode
           /\ "WRITE" \in Named(Other, low) <=> 1 \in mode
           /\ "EXEC" \in Named(Other, low) <=> 0 \in mode
  <1>1. \A i \in 0..11 : i \in low <=> i \in mode
    OBVIOUS
  <1>2. {0, 1, 2, 3, 4, 5, 6, 7, 8} \subseteq 0..11
    OBVIOUS
  <1>3. \A flag \in {"READ", "WRITE", "EXEC"} :
           /\ flag \in Named(User, low) <=> User[flag] \in low
           /\ flag \in Named(Group, low) <=> Group[flag] \in low
           /\ flag \in Named(Other, low) <=> Other[flag] \in low
    BY DEF Named, User, Group, Other
  <1>4. /\ User["READ"] = 8 /\ User["WRITE"] = 7 /\ User["EXEC"] = 6
        /\ Group["READ"] = 5 /\ Group["WRITE"] = 4 /\ Group["EXEC"] = 3
        /\ Other["READ"] = 2 /\ Other["WRITE"] = 1 /\ Other["EXEC"] = 0
    BY DEF User, Group, Other
  <1> QED  BY <1>1, <1>2, <1>3, <1>4

\* mode_string of a local file.
LEMMA StringOfFile ==
    ASSUME NEW mode, NEW m, NEW c, NEW s
    PROVE  \A k \in 2..10 :
              mode_string(Filled(mode, m, c, s))[k] # "-" <=> (10 - k) \in mode
  <1> DEFINE a == Filled(mode, m, c, s)
             low == mode \cap 0..11
             S == {Letters[a.type], "r", "w", "x", "-"}
  <1>1. /\ a.uperm = Named(User, low) /\ a.gperm = Named(Group, low)
        /\ a.operm = Named(Other, low)
    BY DEF Filled
  <1> HIDE DEF a
  <1>2. /\ <<Letters[a.type]>> \in Seq(S) /\ Len(<<Letters[a.type]>>) = 1
    OBVIOUS
  <1>3. ASSUME NEW perm
        PROVE  /\ rwx(perm) \in Seq(S) /\ Len(rwx(perm)) = 3
               /\ rwx(perm)[1] # "-" <=> "READ" \in perm
               /\ rwx(perm)[2] # "-" <=> "WRITE" \in perm
               /\ rwx(perm)[3] # "-" <=> "EXEC" \in perm
    BY DEF rwx
  <1> HIDE DEF S
  <1>4. mode_string(a) = <<Letters[a.type]>> \o rwx(a.uperm) \o rwx(a.gperm)
                            \o rwx(a.operm)
    BY DEF mode_string
  <1>5. /\ mode_string(a)[2] = rwx(a.uperm)[1] /\ mode_string(a)[3] = rwx(a.uperm)[2]
        /\ mode_string(a)[4] = rwx(a.uperm)[3] /\ mode_string(a)[5] = rwx(a.gperm)[1]
        /\ mode_string(a)[6] = rwx(a.gperm)[2] /\ mode_string(a)[7] = rwx(a.gperm)[3]
        /\ mode_string(a)[8] = rwx(a.operm)[1] /\ mode_string(a)[9] = rwx(a.operm)[2]
        /\ mode_string(a)[10] = rwx(a.operm)[3]
    <2> DEFINE t == <<Letters[a.type]>>
               u == rwx(a.uperm)
               g == rwx(a.gperm)
               o == rwx(a.operm)
    <2>1. /\ t \in Seq(S) /\ u \in Seq(S) /\ g \in Seq(S) /\ o \in Seq(S)
          /\ Len(t) = 1 /\ Len(u) = 3 /\ Len(g) = 3 /\ Len(o) = 3
      BY <1>2, <1>3, Zenon
    <2>2. mode_string(a) = t \o u \o g \o o
      BY <1>4, Zenon
    <2> HIDE DEF t, u, g, o
    <2>3. Triples(t \o u \o g \o o, u, g, o)
      BY <2>1, Joined, Zenon
    <2> QED  BY <2>2, <2>3, Zenon DEF u, g, o, Triples
  <1>6. /\ mode_string(a)[2] # "-" <=> 8 \in mode
        /\ mode_string(a)[3] # "-" <=> 7 \in mode
        /\ mode_string(a)[4] # "-" <=> 6 \in mode
        /\ mode_string(a)[5] # "-" <=> 5 \in mode
        /\ mode_string(a)[6] # "-" <=> 4 \in mode
        /\ mode_string(a)[7] # "-" <=> 3 \in mode
        /\ mode_string(a)[8] # "-" <=> 2 \in mode
        /\ mode_string(a)[9] # "-" <=> 1 \in mode
        /\ mode_string(a)[10] # "-" <=> 0 \in mode
    BY <1>1, <1>3, <1>5, FlagIsBit, ZenonT(60)
  <1>7. ASSUME NEW k \in 2..10
        PROVE  mode_string(a)[k] # "-" <=> (10 - k) \in mode
    BY <1>6
  <1> QED  BY <1>7 DEF a

\* The string that ls prints of a local file shows the nine permissions of one
\* file that was there, each where it is looked for, whoever replaces it.
THEOREM StringAlwaysShowsBits == Spec => []StringShowsBits
  <1>1. AttrOfFile => StringShowsBits
    BY StringOfFile DEF AttrOfFile, StringShowsBits
  <1> QED  BY <1>1, AttrAlways, PTL
-----------------------------------------------------------------------------
(* When nobody interferes.                                                  *)

\* What the local access has filled in by now is the file's, as long as no
\* other file has come.
Undisturbed ==
    Made /\ where = "local" /\ seen = {disk} =>
        LET f == Followed(disk) IN
        /\ request.op # "entry" => Meant(disk).exists
        /\ pc # "mtime" /\ f.exists => attr.mtime = {Ticks * Sec(f.mtime)}
        /\ pc \notin {"mtime", "ctime", "size"} /\ f.exists /\ TypeOf(f.mode) = "FILE"
              => attr.size = {f.size}

\* The copy's mode came from the attributes, which are complete.
CopyOfAttr ==
    copy # NoMode =>
        /\ pc = "done"
        /\ \E umask \in Umasks :
              copy = TypeBits.FILE \cup ((get_mode(attr) \cap 0..11) \ umask)

\* The members of Filled attributes.
LEMMA Members ==
    ASSUME NEW mode, NEW m, NEW c, NEW s
    PROVE  Filled(mode, m, c, s).mtime = m /\ Filled(mode, m, c, s).size = s
  BY DEF Filled

\* The attributes that a local step finds have these members.
LEMMA LocalAttr ==
    ASSUME AttrOfFile, Made, where = "local"
    PROVE  \E mode, m, c, s : attr = Filled(mode, m, c, s)
  BY DEF AttrOfFile

LEMMA UndisturbedStep ==
    ASSUME AttrOfFile, Undisturbed, [Next]_vars
    PROVE  Undisturbed'
  <1>1. ASSUME UNCHANGED <<request, disk>>
        PROVE  /\ Followed(disk)' = Followed(disk) /\ Meant(disk)' = Meant(disk)
    BY <1>1 DEF Followed, Meant
  <1>2. CASE LocalStatus
    <2>1. /\ UNCHANGED <<request, disk>>
          /\ pc' = "mtime" => request.op = "entry" \/ Meant(disk).exists
          /\ pc' \in {"mtime", "thrown"}
      BY <1>2 DEF LocalStatus, Idle
    <2> QED  BY <1>1, <2>1 DEF Undisturbed, Made
  <1>3. CASE LastWriteTime
    <2>1. /\ At("mtime") /\ pc' = "ctime" /\ UNCHANGED <<request, disk, seen, where>>
          /\ Made /\ where = "local"
      BY <1>3 DEF LastWriteTime, At, Idle, Made
    <2>2. PICK mode, m, c, s : attr = Filled(mode, m, c, s)
      BY <2>1, LocalAttr
    <2> DEFINE x == {Ticks * Sec(Followed(disk).mtime)}
    <2>3. Followed(disk).exists => attr' = [attr EXCEPT !.mtime = x]
      BY <1>3 DEF LastWriteTime
    <2> HIDE DEF x
    <2>4. ASSUME Followed(disk).exists PROVE attr'.mtime = x
      <3>1. attr' = [Filled(mode, m, c, s) EXCEPT !.mtime = x]
        BY <2>2, <2>3, <2>4, Zenon
      <3>2. [Filled(mode, m, c, s) EXCEPT !.mtime = x] = Filled(mode, x, c, s)
        BY DEF Filled
      <3> QED  BY <3>1, <3>2, Members
    <2> QED  BY <1>1, <2>1, <2>4 DEF Undisturbed, Made, x
  <1>4. CASE CreationTime
    <2>1. /\ At("ctime") /\ pc' = "size" /\ UNCHANGED <<request, disk, seen, where>>
          /\ Made /\ where = "local" /\ pc = "ctime"
      BY <1>4 DEF CreationTime, At, Idle, Made
    <2>2. PICK mode, m, c, s : attr = Filled(mode, m, c, s)
      BY <2>1, LocalAttr
    <2>3. attr'.mtime = attr.mtime
      <3>1. ASSUME NEW x, attr' = [attr EXCEPT !.ctime = x]
            PROVE  attr'.mtime = attr.mtime
        <4>1. attr' = [Filled(mode, m, c, s) EXCEPT !.ctime = x]
          BY <2>2, <3>1, Zenon
        <4>2. [Filled(mode, m, c, s) EXCEPT !.ctime = x] = Filled(mode, m, x, s)
          BY DEF Filled
        <4> QED  BY <2>2, <4>1, <4>2, Members
      <3>2. CASE UNCHANGED attr
        BY <3>2
      <3> QED  BY <1>4, <3>1, <3>2 DEF CreationTime
    <2> QED  BY <1>1, <2>1, <2>3 DEF Undisturbed, Made
  <1>5. CASE FileSize
    <2>1. /\ At("size") /\ UNCHANGED <<request, disk, seen, where>>
          /\ Made /\ where = "local" /\ pc = "size"
      BY <1>5 DEF FileSize, At, Idle, Made
    <2>2. PICK mode, m, c, s : attr = Filled(mode, m, c, s)
      BY <2>1, LocalAttr
    <2> DEFINE f == Followed(disk)
               x == {f.size}
    <2>3. IF f.exists /\ TypeOf(f.mode) = "FILE"
          THEN attr' = [attr EXCEPT !.size = x] ELSE UNCHANGED attr
      BY <1>5 DEF FileSize
    <2> HIDE DEF x
    <2>4. /\ attr'.mtime = attr.mtime
          /\ f.exists /\ TypeOf(f.mode) = "FILE" => attr'.size = x
      <3>1. CASE f.exists /\ TypeOf(f.mode) = "FILE"
        <4>1. attr' = [attr EXCEPT !.size = x]
          BY <2>3, <3>1, Zenon
        <4>2. attr' = [Filled(mode, m, c, s) EXCEPT !.size = x]
          BY <2>2, <4>1, Zenon
        <4>3. [Filled(mode, m, c, s) EXCEPT !.size = x] = Filled(mode, m, c, x)
          BY DEF Filled
        <4> QED  BY <2>2, <4>2, <4>3, Members
      <3>2. CASE ~(f.exists /\ TypeOf(f.mode) = "FILE")
        BY <2>3, <3>2, Zenon
      <3> QED  BY <3>1, <3>2
    <2> QED  BY <1>1, <2>1, <2>4 DEF Undisturbed, Made, x
  <1>6. CASE SftpStat
    BY <1>6 DEF SftpStat, Undisturbed
  <1>7. CASE ReadLink
    <2>1. /\ UNCHANGED <<request, disk, seen, where, attr>> /\ Made
          /\ pc = "readlink"
      BY <1>7 DEF ReadLink, Idle, Made
    <2> QED  BY <1>1, <2>1 DEF Undisturbed
  <1>8. CASE Replace
    <2>1. disk' # disk /\ disk \in seen'
      BY <1>8 DEF Replace, AttrOfFile
    <2> QED  BY <2>1 DEF Undisturbed
  <1>9. CASE CreateCopy \/ UNCHANGED vars
    <2>1. UNCHANGED <<request, disk, seen, where, pc, attr>>
      BY <1>9 DEF CreateCopy, vars
    <2> QED  BY <1>1, <2>1 DEF Undisturbed, Made
  <1> QED
    BY <1>2, <1>3, <1>4, <1>5, <1>6, <1>7, <1>8, <1>9 DEF Next

LEMMA CopyOfAttrStep ==
    ASSUME CopyOfAttr, [Next]_vars
    PROVE  CopyOfAttr'
  <1>1. CASE CreateCopy
    BY <1>1 DEF CreateCopy, CopyOfAttr, get_mode
  <1>2. CASE UNCHANGED <<copy, pc, attr>>
    BY <1>2 DEF CopyOfAttr, get_mode
  <1>3. CASE pc # "done" /\ UNCHANGED copy
    BY <1>3 DEF CopyOfAttr
  <1>4. CASE LocalStatus \/ SftpStat \/ ReadLink \/ Replace
    <2>1. pc # "done" /\ UNCHANGED copy
      BY <1>4 DEF LocalStatus, SftpStat, ReadLink, Replace, Idle
    <2> QED  BY <1>3, <2>1
  <1>5. CASE LastWriteTime \/ CreationTime \/ FileSize
    <2>1. pc # "done" /\ UNCHANGED copy
      BY <1>5 DEF LastWriteTime, CreationTime, FileSize, At, Idle
    <2> QED  BY <1>3, <2>1
  <1>6. CASE UNCHANGED vars
    BY <1>2, <1>6 DEF vars
  <1> QED  BY <1>1, <1>4, <1>5, <1>6 DEF Next

\* What is true of the attributes all along.
AttrInv == AttrOfFile /\ Undisturbed /\ CopyOfAttr

LEMMA AttrInvAlways == Spec => []AttrInv
  <1>1. Init => AttrInv
    BY AttrStart DEF AttrInv, Init, Undisturbed, CopyOfAttr, Made
  <1>2. AttrInv /\ [Next]_vars => AttrInv'
    BY AttrStep, UndisturbedStep, CopyOfAttrStep DEF AttrInv
  <1> QED  BY <1>1, <1>2, PTL DEF Spec

\* The tables have the lower twelve bits only, so it makes no difference whether
\* set_mode sees those of the type.
LEMMA LocalIsSetMode ==
    ASSUME NEW mode
    PROVE  set_mode(mode) = LocalAttributes(mode)
  <1> DEFINE low == mode \cap 0..11
  <1>1. \A i \in 0..11 : i \in low <=> i \in mode
    OBVIOUS
  <1>2. ASSUME NEW table, \A flag \in DOMAIN table : table[flag] \in 0..11
        PROVE  Named(table, low) = Named(table, mode)
    BY <1>1, <1>2 DEF Named
  <1>3. /\ \A flag \in DOMAIN User : User[flag] \in 0..11
        /\ \A flag \in DOMAIN Group : Group[flag] \in 0..11
        /\ \A flag \in DOMAIN Other : Other[flag] \in 0..11
        /\ \A flag \in DOMAIN Special : Special[flag] \in 0..11
    BY DEF User, Group, Other, Special, S_ISUID, S_ISGID, S_ISVTX
  <1> HIDE DEF low
  <1>4. /\ Named(User, low) = Named(User, mode)
        /\ Named(Group, low) = Named(Group, mode)
        /\ Named(Other, low) = Named(Other, mode)
        /\ Named(Special, low) = Named(Special, mode)
    <2>1. Named(User, low) = Named(User, mode)
      BY <1>2, <1>3, Zenon
    <2>2. Named(Group, low) = Named(Group, mode)
      BY <1>2, <1>3, Zenon
    <2>3. Named(Other, low) = Named(Other, mode)
      BY <1>2, <1>3, Zenon
    <2>4. Named(Special, low) = Named(Special, mode)
      BY <1>2, <1>3, Zenon
    <2> QED  BY <2>1, <2>2, <2>3, <2>4
  <1>5. LocalAttributes(mode) = [set_mode(low) EXCEPT !.type = TypeOf(mode)]
    BY DEF LocalAttributes, low
  <1> QED  BY <1>4, <1>5 DEF set_mode

\* Type and permissions alone.
Permissions(a) ==
    [a EXCEPT !.size = {}, !.atime = {}, !.mtime = {}, !.ctime = {}, !.ids = {}]

\* The record with these two parts.
Parts(p, s, a, m, c, i) ==
    [type |-> p.type, mode |-> p.mode, uperm |-> p.uperm, gperm |-> p.gperm,
     operm |-> p.operm, size |-> s, atime |-> a, mtime |-> m, ctime |-> c, ids |-> i]

\* The optional members are put in one after the other.
PutIn(r, s, a, m, c, i) ==
    [r EXCEPT !.size = s, !.atime = a, !.mtime = m, !.ctime = c, !.ids = i]

LEMMA PartsPutIn ==
    ASSUME NEW p, NEW s, NEW a, NEW m, NEW c, NEW i,
           NEW s2, NEW a2, NEW m2, NEW c2, NEW i2
    PROVE  PutIn(Parts(p, s, a, m, c, i), s2, a2, m2, c2, i2)
           = Parts(p, s2, a2, m2, c2, i2)
  <1> DEFINE r0 == Parts(p, s, a, m, c, i)
             r1 == [r0 EXCEPT !.size = s2]
             r2 == [r1 EXCEPT !.atime = a2]
             r3 == [r2 EXCEPT !.mtime = m2]
             r4 == [r3 EXCEPT !.ctime = c2]
             r5 == [r4 EXCEPT !.ids = i2]
  <1>1. PutIn(r0, s2, a2, m2, c2, i2) = r5
    BY Zenon DEF PutIn
  <1> HIDE DEF r5
  <1>2. r1 = Parts(p, s2, a, m, c, i)
    BY DEF Parts
  <1> HIDE DEF r1
  <1>3. r2 = Parts(p, s2, a2, m, c, i)
    BY <1>2 DEF Parts
  <1> HIDE DEF r2
  <1>4. r3 = Parts(p, s2, a2, m2, c, i)
    BY <1>3 DEF Parts
  <1> HIDE DEF r3
  <1>5. r4 = Parts(p, s2, a2, m2, c2, i)
    BY <1>4 DEF Parts
  <1> HIDE DEF r4
  <1>6. r5 = Parts(p, s2, a2, m2, c2, i2)
    BY <1>5 DEF Parts, r5
  <1> QED  BY <1>1, <1>6, Zenon

LEMMA LocalPermissions ==
    ASSUME NEW mode, NEW m, NEW c, NEW s
    PROVE  Permissions(Filled(mode, m, c, s)) = LocalAttributes(mode)
  <1> DEFINE p == Filled(mode, {}, {}, {})
  <1>1. /\ Filled(mode, m, c, s) = Parts(p, s, {}, m, c, {})
        /\ p = Parts(p, {}, {}, {}, {}, {})
    BY DEF Filled, Parts
  <1> HIDE DEF p
  <1>2. Permissions(Parts(p, s, {}, m, c, {})) = Parts(p, {}, {}, {}, {}, {})
    <2>1. PutIn(Parts(p, s, {}, m, c, {}), {}, {}, {}, {}, {})
          = Parts(p, {}, {}, {}, {}, {})
      BY PartsPutIn
    <2> QED  BY <2>1, Zenon DEF Permissions, PutIn
  <1>3. p = LocalAttributes(mode)
    BY Filling DEF p
  <1> QED  BY <1>1, <1>2, <1>3, Zenon

LEMMA SftpPermissions ==
    ASSUME NEW f, Has("PERMISSIONS")
    PROVE  Permissions(SftpAttributes(f)) = LocalAttributes(f.mode)
  <1> DEFINE p == set_mode(f.mode)
  <1>1. SftpMode(f.mode) = p /\ p = Parts(p, {}, {}, {}, {}, {})
    BY DEF SftpMode, set_mode, Parts
  <1> HIDE DEF p
  <1> DEFINE
        times == Has("ACMODTIME")
        s == IF Has("SIZE") THEN {f.size} ELSE {}
        a == IF times \/ Has("ACCESSTIME")
             THEN {convert_file_time(Precise(f.atime, "ACCESSTIME"),
                                     Seconds(f.atime, "ACMODTIME"))} ELSE {}
        m == IF times \/ Has("MODIFYTIME")
             THEN {convert_file_time(Precise(f.mtime, "MODIFYTIME"),
                                     Seconds(f.mtime, "ACMODTIME"))} ELSE {}
        c == IF Has("CREATETIME") THEN {f.made} ELSE {}
        i == request.names \cup IF Has("UIDGID") THEN {"uid", "gid"} ELSE {}
  <1>2. SftpAttributes(f) = PutIn(SftpMode(f.mode), s, a, m, c, i)
    BY Zenon DEF SftpAttributes, PutIn
  <1> HIDE DEF s, a, m, c, i
  <1>3. SftpAttributes(f) = PutIn(Parts(p, {}, {}, {}, {}, {}), s, a, m, c, i)
    BY <1>1, <1>2, Zenon
  <1>4. SftpAttributes(f) = Parts(p, s, a, m, c, i)
    BY <1>3, PartsPutIn
  <1>5. Permissions(Parts(p, s, a, m, c, i)) = p
    <2>1. PutIn(Parts(p, s, a, m, c, i), {}, {}, {}, {}, {})
          = Parts(p, {}, {}, {}, {}, {})
      BY PartsPutIn
    <2> QED  BY <1>1, <2>1, Zenon DEF Permissions, PutIn
  <1>6. Permissions(SftpAttributes(f)) = set_mode(f.mode)
    BY <1>4, <1>5, Zenon DEF p
  <1> QED  BY <1>6, LocalIsSetMode

\* The members of a reply in which size and time were sent.
LEMMA SftpMembers ==
    ASSUME NEW f, request \in Requests, where = "remote"
    PROVE  /\ Sent({"SIZE"}) => SftpAttributes(f).size = {f.size}
           /\ Sent({"ACMODTIME", "MODIFYTIME"}) => SftpAttributes(f).mtime # {}
  <1>1. /\ Sent({"SIZE"}) => Has("SIZE")
        /\ Sent({"ACMODTIME", "MODIFYTIME"}) => Has("ACMODTIME") \/ Has("MODIFYTIME")
    BY DEF Sent, Has
  <1>2. /\ Has("SIZE") => SftpAttributes(f).size = {f.size}
        /\ Has("ACMODTIME") \/ Has("MODIFYTIME") => SftpAttributes(f).mtime # {}
    BY DEF SftpAttributes, SftpMode, set_mode, NoAttributes
  <1> QED  BY <1>1, <1>2

\* What a stat of one file has, whichever access is asked.
LEMMA BothKnow ==
    ASSUME AttrInv, pc = "done", seen = {disk}, disk.exists
    PROVE  Known(Meant(disk))
  <1> DEFINE f == Meant(disk)
  <1>1. /\ AttrOfFile /\ Undisturbed /\ Made /\ request \in Requests
        /\ where \in {"local", "remote"} /\ FileOK(f)
    BY MeantIsFile DEF AttrInv, AttrOfFile, Made
  <1>2. TypeOf(f.mode) # "LINK" => f = Followed(disk)
    BY DEF Meant, Followed
  <1>3. TypeOf(f.mode) = "FILE" => f.exists
    <2>1. TypeOf({}) # "FILE"
      BY DEF TypeOf, KnownTypes, TypeBits
    <2> QED  BY <1>1, <2>1 DEF FileOK, Gone
  <1>4. f.exists \/ request.op = "entry"
    BY <1>1 DEF Undisturbed, AttrOfFile
  <1>5. ASSUME where = "local" PROVE Known(f)
    <2>1. PICK m, c, s : attr = Filled(f.mode, m, c, s)
      BY <1>1, <1>5 DEF AttrOfFile
    <2>2. Permissions(attr) = LocalAttributes(f.mode)
      BY <2>1, LocalPermissions
    <2>3. ASSUME TypeOf(f.mode) # "LINK"
          PROVE  \E t \in attr.mtime : Sec(t) = SecondOf(f)
      <3>1. f.exists
        <4>1. CASE request.op = "stat"
          BY <1>4, <4>1
        <4>2. CASE request.op # "stat"
          BY <4>2 DEF Meant
        <4> QED  BY <4>1, <4>2
      <3>2. attr.mtime = {Ticks * Sec(f.mtime)}
        BY <1>1, <1>2, <1>5, <2>3, <3>1 DEF Undisturbed
      <3>3. Sec(Ticks * Sec(f.mtime)) = Sec(f.mtime)
        BY <1>1, <3>1, SecOfTicks DEF FileOK
      <3> QED  BY <1>5, <3>2, <3>3 DEF SecondOf
    <2>4. TypeOf(f.mode) = "FILE" => attr.size = {f.size}
      BY <1>1, <1>2, <1>3, <1>5 DEF Undisturbed
    <2> QED  BY <2>2, <2>3, <2>4, Zenon DEF Known, Permissions
  <1>6. ASSUME where = "remote" PROVE Known(f)
    <2>1. attr = SftpAttributes(f) /\ f.exists
      BY <1>1, <1>6 DEF AttrOfFile
    <2>2. Sent({"PERMISSIONS"}) => Permissions(attr) = LocalAttributes(f.mode)
      <3>1. Sent({"PERMISSIONS"}) => Has("PERMISSIONS")
        BY <1>6 DEF Sent, Has
      <3> QED  BY <2>1, <3>1, SftpPermissions
    <2>3. ASSUME Sent({"ACMODTIME", "MODIFYTIME"})
          PROVE  \E t \in attr.mtime : Sec(t) = SecondOf(f)
      <3>1. PICK t \in attr.mtime : TRUE
        BY <1>1, <1>6, <2>1, <2>3, SftpMembers
      <3>2. Sec(t) = SecondOf(f)
        BY <1>1, <1>6, <2>1, <2>3, SftpTime DEF FileOK
      <3> QED  BY <3>2
    <2>4. Sent({"SIZE"}) => attr.size = {f.size}
      BY <1>1, <1>6, <2>1, SftpMembers
    <2> QED  BY <2>2, <2>3, <2>4, Zenon DEF Known, Permissions
  <1> QED  BY <1>1, <1>5, <1>6

\* What the umask leaves of a regular file's mode, when the type is put in by
\* the system and the permissions by the caller.
LEMMA CopiedMode ==
    ASSUME NEW mode \in SUBSET Bits, NEW umask \in SUBSET (0..8),
           TypeOf(mode) = "FILE"
    PROVE  TypeBits.FILE \cup ((mode \cap 0..11) \ umask) = mode \ umask
  <1>1. mode \cap S_IFMT = TypeBits.FILE
    BY TypeRoundTrip DEF BitsOfType, KnownTypes, TypeBits
  <1>2. S_IFMT \cap umask = {}
    BY DEF S_IFMT
  <1>3. (mode \cap 0..11) \cup (mode \cap S_IFMT) = mode
    BY ModeHasTwoParts
  <1> HIDE DEF S_IFMT
  <1> QED  BY <1>1, <1>2, <1>3

\* A file that nobody touches is described alike by the local access and by the
\* server, in all that the server sends, and its copy has its mode but for the
\* umask: for every mode, every time and every set of members sent.
THEOREM AccessesAlwaysAgree == Spec => []AccessesAgree
  <1>1. AttrInv => AccessesAgree
    <2> SUFFICES ASSUME AttrInv, pc = "done", seen = {disk}, disk.exists
                 PROVE  AccessesAgree
      BY DEF AccessesAgree
    <2>1. Known(Meant(disk))
      BY BothKnow
    <2>2. ASSUME copy # NoMode, Sent({"PERMISSIONS"}),
                 TypeOf(Meant(disk).mode) = "FILE"
          PROVE  \E umask \in Umasks : copy = Meant(disk).mode \ umask
      <3> DEFINE mode == Meant(disk).mode
      <3>1. PICK umask \in Umasks :
               copy = TypeBits.FILE \cup ((get_mode(attr) \cap 0..11) \ umask)
        BY <2>2 DEF AttrInv, CopyOfAttr
      <3>2. get_mode(attr) = mode
        <4>1. "FILE" \in KnownTypes
          BY DEF KnownTypes, TypeBits
        <4>2. Made
          BY DEF Made
        <4> QED  BY <2>2, <4>1, <4>2, SurvivesNow DEF AttrInv, ModeSurvives
      <3>3. mode \in SUBSET Bits /\ umask \in SUBSET (0..8)
        BY MeantIsFile, StatAssumption DEF AttrInv, AttrOfFile, FileOK
      <3> QED  BY <2>2, <3>1, <3>2, <3>3, CopiedMode
    <2> QED  BY <2>1, <2>2 DEF AccessesAgree
  <1> QED  BY <1>1, AttrInvAlways, PTL
=============================================================================
