--------------------------- MODULE FileOperations ---------------------------
(* move_file and copy_file (core/operations.cpp) with make_dest_path, which *)
(* chooses the path the file goes to. One thread, the worker, makes calls   *)
(* one after the other on one source object; every i_access and i_file call *)
(* is an action, because between two of them                                *)
(*   - the rival, any other thread or process that uses the same directory  *)
(*     tree, may create, change or remove files;                            *)
(*   - another thread may raise the interruptor, which every call tests;    *)
(*   - the call may fail, and on a remote tree its effect may take place    *)
(*     although the reply is lost.                                          *)
(* The rival makes and removes files, never directories.                    *)
EXTENDS Paths

CONSTANTS
    Trees,          \* the directory trees a run starts from
    Contents,       \* the contents of the files of those trees, by number
    SourcePath,     \* the path the source object is constructed with
    Requests,       \* the calls the application may make
    Placeholder,    \* the stem a time placeholder stands for
    Stamps,         \* what an mtime may expand it to
    BufSize,        \* size of the copy buffer, 65536 in the code
    MaxCalls,       \* bound: calls made by the worker
    RivalPaths,     \* the paths the rival uses
    MaxRivalSteps,  \* bound: steps of the rival
    RivalByte       \* a byte only the rival writes

SourceFile == 1

\* What the application asks for: the function it calls, whether it passes an
\* sftp::access for the destination (for a move, the tree), and the destination
\* (`slash': the path ends with a separator).
RequestType ==
    [kind : {"move", "copy"}, remote : BOOLEAN, path : AllPaths, slash : BOOLEAN,
     policy : {"OVERWRITE", "AUTORENAME", "FAIL"}, create_parents : BOOLEAN,
     expand : BOOLEAN]

ASSUME FileOperationsAssumption ==
    /\ BufSize \in Nat \ {0} /\ MaxCalls \in Nat /\ MaxRivalSteps \in Nat
    /\ RivalByte \in Nat
    /\ Contents \in Seq(Seq(Nat))
    /\ Requests # {} /\ Requests \subseteq RequestType
    /\ Stamps \subseteq STRING
    /\ RivalPaths \subseteq AllPaths \ {<<>>}
    /\ SourcePath \in AllPaths \ {<<>>}
    /\ \A tree \in Trees :
          /\ TreeOK(tree, Len(Contents))
          /\ SourcePath \in DOMAIN tree /\ tree[SourcePath] = SourceFile

VARIABLES
    fs, content,                       \* the tree, and each file's contents
    source,                            \* the application's source object
    interrupted,                       \* has the interruptor been raised?
    pc, request, outcome,              \* the worker's call and how it ended
    new_path, suffix,                  \* locals of make_dest_path
    in, out, buf, pos, bytes_copied,   \* locals of copy_file
    calls, rival_steps,                \* what the bounds count
    from, before, edited, lost         \* history, read by properties only

app == <<source, interrupted, calls>>
naming == <<new_path, suffix>>
copying == <<in, out, buf, pos, bytes_copied>>
history == <<from, before, edited, lost>>
vars == <<fs, content, app, pc, request, outcome, naming, copying,
          rival_steps, history>>

Outcomes == {"none", "returned", "interrupted", "fault", "EINVAL", "EEXIST",
             "EISDIR", "ENOTDIR", "ENOENT", "mkdir_exists"}

Points == {"idle", "open_in", "resolve", "expand", "stat_dest", "stat_in_dir",
           "probe", "mkdir", "rename", "stat_mode", "open_out", "read", "write"}

Init ==
    /\ fs \in Trees /\ content = Contents
    /\ source = [orig_path |-> SourcePath, current_path |-> SourcePath]
    /\ interrupted = FALSE /\ calls = 0 /\ rival_steps = 0
    /\ pc = "idle" /\ request \in Requests /\ outcome = "none"
    /\ new_path = <<>> /\ suffix = 0
    /\ in = 0 /\ out = 0 /\ buf = <<>> /\ pos = 0 /\ bytes_copied = 0
    /\ from = SourcePath /\ before = <<>> /\ edited = {} /\ lost = FALSE
-----------------------------------------------------------------------------
(* How a call of the worker goes on.                                        *)

\* The worker is at `point' and throw_if_interrupted() lets it pass.
At(point) == pc = point /\ ~interrupted

Go(point) == pc' = point /\ outcome' = outcome

\* An exception leaves move_file or copy_file: the handles are closed, what
\* was already done to the tree stays.
Throw(error) == pc' = "idle" /\ outcome' = error

Return == pc' = "idle" /\ outcome' = "returned"

\* The effect took place on the server, and the caller sees an exception.
ReplyLost == request.remote /\ Throw("fault")

\* make_dest_path returns: what its caller does next with the path.
Resolved == Go(IF request.kind = "move" THEN "rename" ELSE "stat_mode")

\* The application calls move_file or copy_file.
Start ==
    /\ pc = "idle" /\ calls < MaxCalls
    /\ \E r \in Requests :
          /\ request' = r
          /\ new_path' = r.path
          /\ pc' = IF r.kind = "copy" THEN "open_in" ELSE "resolve"
    /\ calls' = calls + 1
    /\ outcome' = "none" /\ suffix' = 0
    /\ in' = 0 /\ out' = 0 /\ buf' = <<>> /\ pos' = 0 /\ bytes_copied' = 0
    /\ from' = source.current_path
    /\ before' = [p \in FilesOf(fs) |-> content[fs[p]]]
    /\ edited' = {}
    /\ UNCHANGED <<fs, content, source, interrupted, rival_steps, lost>>

\* throw_if_interrupted() throws; every i_access and i_file call makes it.
ThrowIfInterrupted ==
    /\ pc \notin {"idle", "resolve"} /\ interrupted
    /\ Throw("interrupted")
    /\ UNCHANGED <<fs, content, app, request, naming, copying, rival_steps,
                   history>>

\* The call fails and has no effect. (MkdirParents has its own failures.)
Fault ==
    /\ pc \notin {"idle", "resolve", "mkdir"} /\ ~interrupted
    /\ Throw("fault")
    /\ UNCHANGED <<fs, content, app, request, naming, copying, rival_steps,
                   history>>
-----------------------------------------------------------------------------
(* make_dest_path.                                                          *)

\* resolve_name_conflict: new_path is an existing file.
ResolveNameConflict(path) ==
    /\ new_path' = path
    /\ \/ request.policy = "OVERWRITE" /\ Resolved
       \/ request.policy = "AUTORENAME" /\ Go("probe")
       \/ request.policy = "FAIL" /\ Throw("EEXIST")

\* The entry: an empty path is refused before any call is made.
Resolve ==
    /\ pc = "resolve"
    /\ \/ new_path = <<>> /\ Throw("EINVAL")
       \/ new_path # <<>> /\ Go(IF request.expand THEN "expand" ELSE "stat_dest")
    /\ UNCHANGED <<fs, content, app, request, naming, copying, rival_steps,
                   history>>

\* The placeholders of the path are replaced by the source's mtime. A source
\* that is gone, or has no mtime, is a Fault.
ExpandTime ==
    /\ At("expand") /\ source.current_path \in DOMAIN fs
    /\ \E stamp \in Stamps :
          new_path' = [k \in DOMAIN new_path |->
                         IF new_path[k].stem = Placeholder
                         THEN [new_path[k] EXCEPT !.stem = stamp]
                         ELSE new_path[k]]
    /\ Go("stat_dest")
    /\ UNCHANGED <<fs, content, app, request, suffix, copying, rival_steps,
                   history>>

\* The branch taken when new_path does not exist.
PlaceNewFile ==
    LET path == IF request.slash
                THEN Append(new_path, filename(source.orig_path)) ELSE new_path
    IN  /\ new_path' = path
        /\ \/ ~has_parent_path(path) /\ Resolved
           \/ has_parent_path(path) /\ request.create_parents /\ Go("mkdir")
           \/ has_parent_path(path) /\ ~request.create_parents /\ Throw("ENOENT")

\* dest_access.try_stat(new_path). With a trailing separator the path of a
\* file is ENOTDIR, which a remote server reports as `no such file'.
StatDest ==
    /\ At("stat_dest")
    /\ \/ /\ IsDir(fs, new_path)
          /\ new_path' = Append(new_path, filename(source.orig_path))
          /\ Go("stat_in_dir")
       \/ IsFile(fs, new_path) /\ ~request.slash /\ ResolveNameConflict(new_path)
       \/ /\ IsFile(fs, new_path) /\ request.slash
          /\ Throw("ENOTDIR") /\ UNCHANGED new_path
       \/ /\ \/ new_path \notin DOMAIN fs
             \/ request.remote /\ IsFile(fs, new_path) /\ request.slash
          /\ PlaceNewFile
    /\ UNCHANGED <<fs, content, app, request, suffix, copying, rival_steps,
                   history>>

\* Mutant: a file of that name in the directory is not seen as a conflict.
StatInDirIgnoresFile ==
    /\ At("stat_in_dir")
    /\ \/ IsDir(fs, new_path) /\ Throw("EISDIR")
       \/ ~IsDir(fs, new_path) /\ Resolved
    /\ UNCHANGED <<fs, content, app, request, naming, copying, rival_steps, history>>

\* try_stat of the source's name in the directory new_path was.
StatInDir ==
    /\ At("stat_in_dir")
    /\ \/ IsDir(fs, new_path) /\ Throw("EISDIR") /\ UNCHANGED new_path
       \/ IsFile(fs, new_path) /\ ResolveNameConflict(new_path)
       \/ new_path \notin DOMAIN fs /\ Resolved /\ UNCHANGED new_path
    /\ UNCHANGED <<fs, content, app, request, suffix, copying, rival_steps,
                   history>>

\* Mutant: when the first candidate is taken everything starts over.
ProbeStartsOver ==
    /\ At("probe")
    /\ LET candidate == Renamed(new_path, suffix + 1) IN
       \/ candidate \in DOMAIN fs /\ Go("stat_dest") /\ UNCHANGED new_path
       \/ candidate \notin DOMAIN fs /\ new_path' = candidate /\ Resolved
    /\ UNCHANGED <<fs, content, app, request, suffix, copying, rival_steps, history>>

\* One turn of AUTORENAME's loop: is the next candidate taken?
Probe ==
    /\ At("probe")
    /\ LET candidate == Renamed(new_path, suffix + 1) IN
       /\ suffix' = suffix + 1
       /\ \/ candidate \in DOMAIN fs /\ Go("probe") /\ UNCHANGED new_path
          \/ candidate \notin DOMAIN fs /\ new_path' = candidate /\ Resolved
    /\ UNCHANGED <<fs, content, app, request, copying, rival_steps, history>>

\* dest_access.mkdir(parent, true). A local directory may exist already; the
\* SFTP server refuses to make one that does. A failure, or a file in the way,
\* leaves the ancestors made so far.
MkdirParents ==
    /\ At("mkdir")
    /\ LET parent == parent_path(new_path)
           Clear(n) == \A k \in 1..n : ~IsFile(fs, SubSeq(parent, 1, k))
           exists == request.remote /\ parent \in DOMAIN fs
       IN  \/ /\ ~exists /\ Clear(Len(parent))
              /\ fs' = WithDirs(fs, parent)
              /\ Resolved \/ ReplyLost
           \/ exists /\ Throw("mkdir_exists") /\ UNCHANGED fs
           \/ \E n \in 0..Len(parent) - 1 :
                 /\ Clear(n)
                 /\ fs' = WithDirs(fs, SubSeq(parent, 1, n))
                 /\ Throw("fault")
    /\ UNCHANGED <<content, app, request, naming, copying, rival_steps, history>>
-----------------------------------------------------------------------------
(* move_file and copy_file after the path is chosen.                        *)

\* Mutant: current_path is not updated.
RenameForgetsPath ==
    /\ At("rename")
    /\ IsFile(fs, source.current_path)
    /\ ~IsDir(fs, new_path) /\ Placeable(fs, new_path)
    /\ fs' = Put(Drop(fs, source.current_path), new_path, fs[source.current_path])
    /\ Return \/ ReplyLost
    /\ UNCHANGED <<content, app, request, naming, copying, rival_steps, history>>

\* Mutant: the old name stays, as after a link without the unlink.
RenameKeepsOld ==
    /\ At("rename")
    /\ IsFile(fs, source.current_path)
    /\ ~IsDir(fs, new_path) /\ Placeable(fs, new_path)
    /\ fs' = Put(fs, new_path, fs[source.current_path])
    /\ source' = [source EXCEPT !.current_path = new_path]
    /\ Return
    /\ UNCHANGED <<content, interrupted, calls, request, naming, copying,
                   rival_steps, history>>

\* access.rename(current_path, new_path); current_path = new_path. The local
\* rename replaces a file that is there, a server replaces or refuses it (then
\* the step is Fault). When the reply is lost current_path keeps the old path.
Rename ==
    /\ At("rename")
    /\ IsFile(fs, source.current_path)
    /\ ~IsDir(fs, new_path) /\ Placeable(fs, new_path)
    /\ fs' = Put(Drop(fs, source.current_path), new_path, fs[source.current_path])
    /\ \/ /\ source' = [source EXCEPT !.current_path = new_path]
          /\ Return /\ UNCHANGED lost
       \/ ReplyLost /\ lost' = TRUE /\ UNCHANGED source
    /\ UNCHANGED <<content, interrupted, calls, request, naming, copying,
                   rival_steps, from, before, edited>>

\* source_access.open(current_path, O_RDONLY)
OpenIn ==
    /\ At("open_in") /\ IsFile(fs, source.current_path)
    /\ in' = fs[source.current_path]
    /\ Go("resolve")
    /\ UNCHANGED <<fs, content, app, request, naming, out, buf, pos,
                   bytes_copied, rival_steps, history>>

\* source_access.stat(current_path).get_mode(), an argument of the open below
StatMode ==
    /\ At("stat_mode") /\ source.current_path \in DOMAIN fs
    /\ Go("open_out")
    /\ UNCHANGED <<fs, content, app, request, naming, copying, rival_steps,
                   history>>

\* dest_access.open(dest_path, O_WRONLY | O_CREAT | O_TRUNC): a file there is
\* emptied, otherwise a new one is made. There is no O_EXCL.
OpenOut ==
    /\ At("open_out")
    /\ ~IsDir(fs, new_path) /\ Placeable(fs, new_path)
    /\ LET file == IF IsFile(fs, new_path) THEN fs[new_path] ELSE Len(content) + 1 IN
       /\ content' = IF IsFile(fs, new_path) THEN [content EXCEPT ![file] = <<>>]
                     ELSE Append(content, <<>>)
       /\ fs' = Put(fs, new_path, file)
       /\ \/ Go("read") /\ out' = file
          \/ ReplyLost /\ UNCHANGED out
    /\ UNCHANGED <<app, request, naming, in, buf, pos, bytes_copied,
                   rival_steps, history>>

\* in->read(buf): up to a buffer of what is there; nothing at the end of file.
ReadBlock ==
    /\ At("read")
    /\ \/ Len(content[in]) <= pos /\ Return /\ UNCHANGED <<buf, pos>>
       \/ \E n \in 1..BufSize :
             /\ pos + n <= Len(content[in])
             /\ buf' = SubSeq(content[in], pos + 1, pos + n)
             /\ pos' = pos + n
             /\ Go("write")
    /\ UNCHANGED <<fs, content, app, request, naming, in, out, bytes_copied,
                   rival_steps, history>>

\* Mutant: after a short write ptr is not advanced.
WriteBlockSamePtr ==
    /\ At("write")
    /\ \E n \in 1..Len(buf) :
          /\ content' = [content EXCEPT
                           ![out] = Spliced(@, bytes_copied, SubSeq(buf, 1, n))]
          /\ buf' = SubSeq(buf, 1, Len(buf) - n)
          /\ bytes_copied' = bytes_copied + n
          /\ Go(IF n = Len(buf) THEN "read" ELSE "write")
    /\ UNCHANGED <<fs, app, request, naming, in, out, pos, rival_steps, history>>

\* out->write(ptr, writecount): any part of the block may be written; the loop
\* writes the rest, then reads the next block. on_progress is passed.
WriteBlock ==
    /\ At("write")
    /\ \E n \in 1..Len(buf) :
          /\ content' = [content EXCEPT
                           ![out] = Spliced(@, bytes_copied, SubSeq(buf, 1, n))]
          /\ \/ /\ buf' = SubSeq(buf, n + 1, Len(buf))
                /\ bytes_copied' = bytes_copied + n
                /\ Go(IF n = Len(buf) THEN "read" ELSE "write")
             \/ ReplyLost /\ UNCHANGED <<buf, bytes_copied>>
    /\ UNCHANGED <<fs, app, request, naming, in, out, pos, rival_steps, history>>
-----------------------------------------------------------------------------
(* Everybody else.                                                          *)

\* Another thread raises the interruptor.
Interrupt ==
    /\ ~interrupted /\ interrupted' = TRUE
    /\ UNCHANGED <<fs, content, source, calls, pc, request, outcome, naming,
                   copying, rival_steps, history>>

RivalTurn ==
    /\ rival_steps < MaxRivalSteps /\ rival_steps' = rival_steps + 1
    /\ UNCHANGED <<app, pc, request, outcome, naming, copying, from, lost>>

RivalCreate(p) ==
    /\ RivalTurn
    /\ p \notin DOMAIN fs /\ Placeable(fs, p)
    /\ fs' = Put(fs, p, Len(content) + 1)
    /\ content' = Append(content, <<RivalByte>>)
    /\ UNCHANGED <<before, edited>>

RivalRemove(p) ==
    /\ RivalTurn
    /\ IsFile(fs, p)
    /\ fs' = Drop(fs, p)
    /\ before' = [q \in DOMAIN before \ {p} |-> before[q]]
    /\ UNCHANGED <<content, edited>>

RivalWrite(p) ==
    /\ RivalTurn
    /\ IsFile(fs, p)
    /\ \E new \in {<<>>, Append(content[fs[p]], RivalByte)} :
          content' = [content EXCEPT ![fs[p]] = new]
    /\ before' = [q \in DOMAIN before \ {p} |-> before[q]]
    /\ edited' = edited \cup {fs[p]}
    /\ UNCHANGED fs
-----------------------------------------------------------------------------
Worker ==
    \/ Start \/ ThrowIfInterrupted \/ Fault
    \/ Resolve \/ ExpandTime \/ StatDest \/ StatInDir \/ Probe \/ MkdirParents
    \/ Rename
    \/ OpenIn \/ StatMode \/ OpenOut \/ ReadBlock \/ WriteBlock

Rival == \E p \in RivalPaths : RivalCreate(p) \/ RivalRemove(p) \/ RivalWrite(p)

Next == Worker \/ Interrupt \/ Rival

\* The thread that made a call keeps running and its system calls and requests
\* come back; nobody else is obliged to do anything.
Fairness == WF_vars(pc # "idle" /\ Worker)

Spec == Init /\ [][Next]_vars /\ Fairness
-----------------------------------------------------------------------------
(* Properties.                                                              *)

\* The variables stay in their types, and the tree stays a tree: every entry
\* has its directory, no two paths name one file, and the worker's handles are
\* files that exist or existed.
TypeOK ==
    /\ content \in Seq(Seq(Nat))
    /\ TreeOK(fs, Len(content))
    /\ source \in [orig_path : AllPaths \ {<<>>}, current_path : AllPaths \ {<<>>}]
    /\ interrupted \in BOOLEAN /\ lost \in BOOLEAN
    /\ pc \in Points /\ request \in Requests /\ outcome \in Outcomes
    /\ new_path \in AllPaths /\ from \in AllPaths
    /\ suffix \in Nat /\ pos \in Nat /\ bytes_copied \in Nat
    /\ calls \in 0..MaxCalls /\ rival_steps \in 0..MaxRivalSteps
    /\ in \in 0..Len(content) /\ out \in 0..Len(content)
    /\ buf \in Seq(Nat)
    /\ edited \subseteq 1..Len(content)

\* What a call is allowed to take away: the file a move moves, and the file
\* at the chosen path under OVERWRITE.
Excused(p) ==
    \/ request.kind = "move" /\ p = from
    \/ request.policy = "OVERWRITE" /\ p = new_path

\* However a call ends - return, exception, interruption, lost reply - every
\* file that was there when it began and that nobody else touched since is
\* still there with the same contents, save what the call was asked to replace
\* or move (destination.h:41 with make_dest_path and its two callers).
Intact ==
    \A p \in DOMAIN before :
        Excused(p) \/ (IsFile(fs, p) /\ content[fs[p]] = before[p])

\* Why Intact is inductive. Nothing is touched while the path is chosen; the
\* path chosen without OVERWRITE names no file of the snapshot; and the file
\* open for writing is reached by no path of the snapshot that is not excused.
Untouched ==
    \A p \in DOMAIN before : IsFile(fs, p) /\ content[fs[p]] = before[p]

Chosen == {"mkdir", "rename", "stat_mode", "open_out"}

Choosing == Chosen \cup {"open_in", "resolve", "expand", "stat_dest",
                         "stat_in_dir", "probe"}

OutIsExcused ==
    \A p \in DOMAIN before :
        IsFile(fs, p) /\ fs[p] = out
            => request.policy = "OVERWRITE" /\ p = new_path

CallShape ==
    /\ pc # "idle" => from = source.current_path
    /\ pc \notin {"idle", "open_in", "resolve"} => new_path # <<>>
    /\ pc = "rename" => request.kind = "move"
    /\ pc \in {"open_in", "stat_mode", "open_out", "read", "write"}
          => request.kind = "copy"
    /\ request.kind = "copy" /\ pc \notin {"idle", "open_in"} => in # 0
    /\ pc \in {"read", "write"} => out # 0

IInv ==
    /\ TypeOK /\ CallShape
    /\ pc \in Choosing => Untouched
    /\ pc \in Chosen => request.policy = "OVERWRITE" \/ new_path \notin DOMAIN before
    /\ pc \in {"read", "write"} => OutIsExcused
    /\ Intact

\* The source object knows where its file is: after any number of moves and
\* failed moves the file is found nowhere else than at current_path, unless
\* the reply to a remote rename was lost (source.h:19).
SourceFollowed ==
    lost \/ \A p \in DOMAIN fs :
                fs[p] = SourceFile => p = source.current_path

\* Short reads and short writes lose, repeat and reorder nothing
\* (operations.cpp:39-63): while nobody edits either file, what a copy has
\* written is at every moment a prefix of the source, also after it threw, and
\* when it returns it is all of it and the progress reported is its size.
CopyFaithful ==
    /\ request.kind = "copy" /\ out # 0 /\ in # out
    /\ in \notin edited /\ out \notin edited
    =>
    /\ IsPrefix(content[out], content[in])
    /\ outcome = "returned" =>
          content[out] = content[in] /\ bytes_copied = Len(content[in])

\* Every call ends, by a return or an exception, in whatever state the tree is
\* and whatever the rival does in its bounded number of steps: the search for a
\* free name and the copy loop terminate.
EveryCallEnds == pc # "idle" ~> pc = "idle"

\* What the policies promise (destination.h:41): unless told to overwrite, a
\* step of a call leaves every file that exists at that moment alone, except
\* the file that it moves and the one it has opened for writing itself.
NoClobber ==
    [][ rival_steps' = rival_steps /\ request.policy # "OVERWRITE" /\ pc # "idle" =>
        \A p \in FilesOf(fs) :
            \/ p = from \/ fs[p] = out
            \/ IsFile(fs', p) /\ fs'[p] = fs[p] /\ content'[fs[p]] = content[fs[p]]
      ]_vars

\* A destination directory that exists does not make a call fail for want of
\* it or because it is there (destination.h:39).
ExistingParentAccepted ==
    outcome \in {"ENOENT", "mkdir_exists"} => ~IsDir(fs, parent_path(new_path))
=============================================================================
