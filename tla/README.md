# flexfs in TLA+

flexfs is a C++ library that gives an application one interface to a local file
system and to a directory tree on an SFTP server. The application asks for small
things (stat, open, rename, make a directory, watch a directory) and for two
larger ones that are made of these (`move_file`, `copy_file`). There is hardly
any shared memory in it; what is hard is that every operation is a *sequence* of
calls on something that other processes change in between, any of which may
fail, be interrupted, or, on a server, take effect although its reply is lost.
These modules model the sequences, call by call.

Paths below are relative to `src/src/flexfs/`.

## 1. Inventory

| Component | State it keeps | Operations | Hard behaviour | What makes it correct |
|---|---|---|---|---|
| **File operations** `core/operations`, `core/make_dest_path`, `core/source`, `core/destination` | the application's `source` (`orig_path`, `current_path`); the locals of a call | `move_file`, `copy_file`, both by way of `make_dest_path` | check of the destination and use of it are different calls; short reads and writes; a failure at any call | no other file is harmed; `current_path` leads to the file; a copy is faithful; calls end |
| **Directory access** `core/i_access`, `local/local_access`, `sftp/sftp_access` | none of its own: a tree, and on a server a session with the error it remembers (`sftp_get_error`) | `ls`, `exists`, `try_stat`, `stat`, `lstat`, `remove`, `mkdir`, `rename`, `open`, `create_watcher` | recursive `mkdir` is many requests; a local `stat` is four or five system calls; why a request failed is asked for afterwards; the two implementations should agree | a `mkdir` that returns has made it all, one that refuses has a cause; what is said to be absent was; attributes are a file's own |
| **Files** `core/i_file`, `local/local_file`, `sftp/sftp_file` | a descriptor or handle; the SFTP one a share of the session | `read`, `write`, destructor | short counts, a write whose reply is lost, dropped before or after the access | with file operations; closed before the session goes |
| **Local watcher** `local/local_watcher` | inotify descriptor, `cancelfd`; per call a buffer of events and the last IN_CREATE | `watch` | events of several processes in one queue, cut into buffers; pairs of events; overflow; cancelling | every file that arrives is returned, once |
| **SFTP watcher** `sftp/sftp_watcher` | `files_`, the last listing | constructor, `watch` | a listing is not a snapshot; it can fail half-way | no file becomes known unreported; no report without an arrival |
| **SFTP session** `sftp/sftp_session` with `ssh_connection`, `ssh_server_pubkey`, `ssh_pubkey_hash`, `ssh_private_key`, `ssh_public_key` | three libssh handles | constructor, destructor | some fifteen requests in a row, each may fail; host-key policy; several ways to authenticate; scattered interruption points; shared by access, files and watchers, which are dropped in any order | an open session is authenticated, to a host that is known; handles are given back in order; it stays as long as it has an owner and no longer |
| **Attributes** `core/attributes`, `local/make_attributes`, `make_attributes` in `sftp/sftp_access.cpp` | `attributes` values | `set_mode`, `get_mode`, `mode_string`, two conversions | overlapping bits of types and of a reply's flags; optional fields; times in seconds, 32 bits or fractions; a file replaced between two calls | modes survive the way there and back; a time is a file's own; both accesses agree |
| **Interruptor** `core/i_interruptor`, `core/noop_interruptor` | a flag of the application | `throw_if_interrupted` | raised by another thread at any moment | operations stop soon (part of the modules above) |
| Exceptions, libssh forwards `sftp/ssh_api`, logging, uuid, version, build files, example | none that others read | | | not modelled, see section 8 |

How they interact: the application owns a `source`, an access and an
interruptor. `move_file` calls `make_dest_path`, which stats and makes
directories through the access, then `rename`; `copy_file` opens the source,
calls `make_dest_path`, stats, opens the destination, and moves blocks between
two files. Every member of an access and of a file calls the interruptor first.
An SFTP access makes a session; the access and its watchers own it through the
access's `impl`, a file owns it directly (all `shared_ptr`), and the last owner to go frees
it inside its own destructor. A watcher is made by `create_watcher`, and the local one is
cancelled by a file descriptor, the remote one by the interruptor only. All of
them throw; no operation undoes what it did before it threw.

## 2. Modules

| Module | Models | Built from |
|---|---|---|
| `Paths` | directory trees, paths, automatic names | |
| `FileOperations` | `move_file`, `copy_file`, `make_dest_path`, with accesses and files underneath, and a rival | `Paths` |
| `Access` | `remove`, `mkdir`, `rename` and the stats of several clients, local or SFTP, on one tree | `Paths` |
| `Feed` | abstract: what a directory watcher promises | |
| `SftpWatcher` | polling watcher, `ls`, `directory_reader` | implements `Feed` |
| `LocalWatcher` | inotify watcher, the kernel's queue | implements `Feed` |
| `SftpSession` | constructor and destructor of a session | |
| `SharedSession` | abstract: what the objects that share a session promise about it | |
| `SftpClient` | access, files, watchers and listings, composed with the session they own | `SftpSession`; implements `SharedSession` |
| `Attributes` | the pure conversions of modes and types | |
| `Stat` | how attributes come about, call by call, and the mode of a copy | `Attributes` |
| `MC...` | constants of the small instances | one each |
| `Paths_proofs`, `FileOperations_proofs`, `Access_proofs`, `SftpWatcher_proofs`, `LocalWatcher_proofs`, `SftpSession_proofs`, `SftpClient_proofs`, `Attributes_proofs` | theorems; `Attributes_proofs` has those of `Stat` | the module of the name, `Access_proofs` and `FileOperations_proofs` also `Paths_proofs` |

### Correspondence with the code

*FileOperations.* `pc` is the i_access or i_file call that comes next: `open_in`,
`stat_mode`, `open_out`, `read`, `write` are the calls of `copy_file`
(operations.cpp:23-66), `rename` that of `move_file` (16-21), and `expand`,
`stat_dest`, `stat_in_dir`, `probe`, `mkdir` those of `make_dest_path`
(make_dest_path.cpp:22-124). What the code does between two calls belongs to the
action of the first. `ResolveNameConflict` and `PlaceNewFile` are the two shared
tails of `make_dest_path`. A file is a number into `content`, so that a rename
keeps a file's identity and an open handle survives it. `MkdirParents` is the
access's recursive `mkdir` as seen from the caller: it makes some of the missing
directories or all, and on a server refuses one that exists; its own steps are in
`Access`. A local error and an exception of libssh are one outcome, `fault`, except
where `make_dest_path` itself throws (`EINVAL`, `EEXIST`, `ENOENT`, ...).
`request.remote` says that the access is an SFTP one: then `ReplyLost` is
another outcome of every call with an effect.

*Access.* `pending[c]` is the stack of directories that `mkdir` has still to ask
for. The SFTP access recurses when the server says that the parent is missing
(sftp_access.cpp:342-357); the local one calls boost, whose `create_directories`
looks for an ancestor that exists, going up, makes what is missing, going down, and takes a directory that is there
for success; between any two of these steps another client may act. A path below a file is ENOTDIR: the
local `try_stat` refuses it, everybody else takes it for absent (`BelowFile`). `Remotes` are the clients that use the SFTP access; the other
ones are processes on the machine that holds the tree. `slot[c]` is what `sftp_get_error`
says: only status replies of the server write it (an SSH_FXP_ATTRS does not), so that a
request without an answer (`NoAnswer`) may leave the status of an earlier one there; what the
code makes of it is `AskedInVain` and `Recurse`, and `misled` records that it was taken in.
A call's `slash` is a trailing separator, for which `parent_path()` is the same directory:
`mkdir` then makes it twice.

*SftpWatcher.* A listing is `OpenDir`, a `ReadDir` per entry and `ReadDirEof`
(directory_reader, sftp_access.cpp:150-202; make_direntry's readlink of a symbolic
link can fail when the link has gone, which ends the listing). `must` is what
was there since the listing began, `may` what was there at any time since: that
is all that readdir promises. `files_` is the member of the same name.

*LocalWatcher.* The other processes' operations put events in `queue`; `Read` takes
a buffer, and each event of it is one action, chosen by its mask as in
local_watcher.cpp:218-277. `createdFile`, `createdFileEventIndex`, `eventIndex`
and `result` are the locals of `watch`. `entry` is what `is_directory` and
`get_direntry` see at the moment the event is looked at. The operations are those whose masks `watch` tells apart, of files
and of directories: a directory can be moved in and be gone, or be a file, by the time its event is looked at (line 250 does not
test IN_ISDIR), and `MakeNode` (a symbolic link, a device, a link that no unlink follows) makes an IN_CREATE that stays alone.
IN_MOVED_FROM, and IN_DELETE of a directory, are passed over by the code. `FirstReadable` is the order in
which the code tests the descriptors that select has found readable.

The history variables of `LocalWatcher` are the two sides of a balance. On one side `arrivals` counts the files that were
closed after writing or moved in, by name, and `renamed` those of them that came by link and unlink; `strays` counts what looks like an arrival and is
none: a directory moved in, an IN_CREATE on its own. On the other side `reports` and `extra` count what `watch` has returned
because of the one or the other, and `lost` the arrivals whose announcement is given up:
by the kernel when the queue is full, with the rest of a buffer by an exception, and with an event about a name
that had become a directory. To tell the two apart an event carries as history the name `made` whose IN_CREATE it belongs to, and an entry of `result` whether it is
`due`; no guard of `watch` reads either. `Held` is what `watch` still knows: the rest of its buffer, and the IN_CREATE put aside
if the event at hand is the next one. `late` counts the calls that returned since `cancelfd` became readable.

*SftpSession.* `pc` is the libssh call or member of the database that comes next in
the constructor (sftp_session.cpp:101-303). `owned` is the stack of C++ objects,
`live` the handles libssh has given out; `Release` ends a scope, `Destroy` unwinds. `user`
is whom the *server* takes the client for, `authenticated` is the code's variable.
After it has authenticated the client, a server ignores further requests, which libssh ends with an error or leaves at
SSH_AUTH_AGAIN: the code throws for the first and goes on for the second.
`ThrowIfInterrupted` names the points where the code checks; `late` counts the
requests that go out after the interruptor was raised.

*SftpClient.* A step of the constructor or destructor is `SessionStep`; the others are what
the application does with an open session. `open` holds the libssh handles of files and the
directory being listed, `call` who lists it: the access, the constructor of a watcher
(`"create"`), or a watcher. `ReleaseSession` is the release of a `shared_ptr` at the end of a destructor:
if it was the last, the session's destructor runs (`Close`). The refinement mapping to
`SharedSession` takes the session for alive as long as libssh's SFTP handle is.

*Attributes, Stat.* A mode is the set of its bit numbers, flags and permissions are sets,
the tables `User`, `Group`, `Other`, `Special` are the code's `switch`es and `if`s. A member
that may be unset is a set of at most one value. `LocalStatus`, `LastWriteTime`, `CreationTime`,
`FileSize` and `ReadLink` are the calls of local/make_attributes.cpp and make_direntry in their order; the calls but the
first follow links. `SftpStat` is a reply, with the members its flags name. `Replace` is
another process. Times are in half seconds and `Width` stands for 2^32, so that fractions and
the wrap of 32 bits both occur.

## 3. Plan

1. `Paths`, `FileOperations`: the operations applications rely on for not losing
   files. Properties `Intact`, `SourceFollowed`, `CopyFaithful`, `EveryCallEnds`. *(done)*
2. `FileOperations_proofs`: type correctness and `Intact` for every tree, request and
   number of calls, then `SourceFollowed` and `CopyFaithful`. *(done)*
3. `Feed`, `SftpWatcher`, `LocalWatcher`: one abstract promise, two implementations. *(done;
   proved but for liveness, the refinements included)*
4. `SftpSession`: the constructor's order of requests. *(done; proved but for liveness)*
5. `Access`: recursive `mkdir` among several clients; then the remembered error, requests without an
   answer and trailing separators. *(done; proved)*
6. `Attributes`, then `Stat`: attributes of files that are replaced meanwhile, times, sizes. *(done; proved)*
7. `SharedSession`, `SftpClient`: who keeps a session and who frees it. *(done; safety proved,
   the refinement included)*

Every safety property that a run checks is now a theorem. Left:

- modes of files in `FileOperations`, so that the copy of a file that is replaced between `open` and `stat` shows
  whose mode it has;
- for the liveness properties, the safety half of an argument: a measure that no step of the worker raises.

## 4. Runs

All runs set `CHECK_DEADLOCK FALSE`: the application may make no more calls, and then
nothing need happen. Where a bound counts something, the action that counts is
the only one that tests it.

| Run | Question | Instance, and why it is enough |
|---|---|---|
| `FileOperations` | do calls harm other files, lose the source, make a bad copy, or go on for ever? | Three trees (a name clash inside the destination directory; an empty directory; the destination and its first automatic name taken), 24 requests: both operations, three policies, directory and file destinations, directories to be made, trailing separator, placeholder, the source itself, no path. Two calls with one source, so that the second sees what the first left, also after it threw. One step of a rival at any moment, on the source, the destination, a file in the directory, or a name that AUTORENAME may come to: check and use are one call apart, so one step suffices to fall in between. Contents of 3 bytes with a buffer of 2: a short read, a full one, and short writes of each. A fault, an interruption or a lost reply at every call. 1.4 million states |
| `FileOperations_clobber` | is a file that appears in time kept under FAIL and AUTORENAME? | the local requests, one call: **no**; a local move under AUTORENAME renames over a file that came after `try_stat` had found its path free, see section 7 |
| `FileOperations_parent` | can a file be put in an existing directory of a server with `create_parents`? | one request: **no** |
| `SftpWatcher` | is the promise of `Feed` kept, is every new file taken in, does an interruption end `watch`? | a plain file and a symbolic link, four changes (gone and back within one listing, for either), one failing request |
| `SftpWatcher_cancel` | does `cancelfd` end the remote `watch`? | **no** |
| `LocalWatcher` | is every arrival returned once, and nothing else but once what could be taken for one, when pairs of events come together? | two names (a rename by link and unlink needs two, and so does an IN_CREATE followed by another's IN_DELETE), three operations of up to two events (a directory moved in, out again, and one more), buffers of 2 or 3 events so that reads end at every place the assumption allows, a queue of 3 so that it overflows with an operation still to come, one fault. 0.3 million states |
| `LocalWatcher_torn` | what is left when pairs are torn apart? Does cancelling end `watch`, also when events are queued? | the same without the assumption, with a queue of 5 and without faults; four operations: link, another process's event and unlink, and one more. With four events queued and buffers of 2 or 3, a `watch` that preferred events to `cancelfd` would return twice more. 0.8 million states |
| `LocalWatcher_missed` | are renames by link and unlink noticed then? | **no** |
| `SftpSession` | authentication, host key, handles, interruption, end of the constructor; is the session kept and freed as `SharedSession` says? | four policies, two identities (after the first one another request), two sessions (what the first leaves in the database matters to the second), two steps of others: a key saved and a key changed; two files and a watcher, so that each kind of object can be the last owner, or not, and one file can be closed while another stays. 0.5 million states |
| `SftpSession_kept` | does a successful authentication stand? | **no** |
| `Access` | does `mkdir` make what it says, and refuse only for a cause? Is what is said to be absent absent? | a local and a remote client, three calls between them, paths of up to three names, one with a trailing separator, one fault or lost answer: two `mkdir`s that race and a third call that removes or moves a directory under them; or a call that leaves "no such file" behind and one whose answer is lost. 0.9 million states |
| `Stat` | are modes, types, times and sizes kept, also of a file that is replaced during the call? | every set of the twelve lower bits of a regular file, and every type with a choice of them; every combination of the flags of version 3, and of version 4 with fractions; files, directories, links and dangling links that turn into one another, or go, between any two calls. Two ticks to a second and seconds modulo 3: times beyond either. 0.6 million states |

What the properties say is written above each in its module. Those that are not what
one would write first:

- `Intact` compares every file with a snapshot made when the call began, at every
  state including those after an exception. Files the rival changes leave the
  snapshot; what is excused is the file that a move moves and, under OVERWRITE, the one at the
  chosen path.
- `SourceFollowed` is about identity: the file that the source object named at first
  is found nowhere but at `current_path`, over several calls.
- `CaughtUp` and `WrittenNeverMissed` compare arrivals with reports whenever `watch` has
  returned and the queue is empty. `CaughtUp` is an equation, with `lost` on the side of the reports: not only
  may these arrivals be missed, nothing else may, also in what follows an overflow or an exception. What is returned
  without being due is bounded by `strays`, so that each directory moved in and each lone IN_CREATE makes one entry too many at most.
  `WrittenNeverMissed` is two-sided, too: a return that is not due cannot make up for an arrival that was missed, as it is counted in `extra`.
- `LocalWatcher!FeedSpec` is `Feed` twice: `reports` never exceed `arrivals`, and `extra` never exceeds
  `strays`, at any moment and whether pairs come together or not.
- `CancelIsPrompt` is about the order of the tests (local_watcher.cpp:195-204): a `watch` that had looked at `cancelfd` before may
  still return, and none after it, however many events are queued. `CancelEnds` is about a `watch` that waits.
- `MkdirRefusesForCause` lists the causes; that another client's `mkdir` was quicker
  is one only on a server, and so are a trailing separator and an error remembered from an earlier request.
- `ClosedInTime` speaks of handles between calls, however a listing ended; `SharedSpec` of every
  step, and it is what forbids that a session goes while a file is held.
- `MtimeIsAFiles` asks for one file that was at the path during the call, not for the same file that the mode is of:
  a local `stat` of a file that is replaced may mix the two, and the code does nothing about it.
- `HandlesInOrder` lets the handle of an exported key that is not public leak, because
  it does (ssh_public_key.cpp:24).

## 5. Fairness

- `FileOperations`: weak fairness of the worker's steps *within a call*; a thread that made
  a system call or a request gets an answer or an error. Nobody has to make calls. That
  `AUTORENAME`'s search and the copy loop end rests on the rival's bounded number of steps.
- `SftpWatcher`, `LocalWatcher`: weak fairness of the watcher, which includes that the
  application calls `watch` again after it returned or threw, as its return value is a
  batch and not the end. Others owe nothing; that a file stays is a premise of
  `NewFilesNoticed`, not an assumption.
- `SftpSession`: weak fairness of the constructor and destructor; libssh's calls return,
  by an answer or its timeout.
- `SftpClient`: the same fairness, of `SessionStep`; nobody has to make, use or drop an access, a
  file or a watcher. `DroppedIsFreed` follows as the destructor of the last owner runs to its end.
- `Access`, `Stat`: no liveness is claimed.

The liveness properties `EveryCallEnds`, `NewFilesNoticed`, `InterruptEnds`,
`ArrivalsReported`, `CancelEnds`, `ConstructionEnds`, `DroppedIsFreed` are model-checked only.

## 6. What is proved

TLAPS checks the following for every value of the constants that meets the named
assumptions (`FileOperationsAssumption`, `SftpWatcherAssumption`, ...), which only give
types: any trees that are trees, any requests, any number of calls, names, keys and
steps of others.

| Theorem | Says |
|---|---|
| `FileOperations_proofs!TypeCorrect` | `[]TypeOK`: the tree stays a tree, and no two paths come to name one file |
| `FileOperations_proofs!OthersIntact` | `[]Intact` |
| `FileOperations_proofs!SourceIsFollowed` | `[]SourceFollowed` |
| `FileOperations_proofs!CopiesFaithfully` | `[]CopyFaithful`, for any contents and block size |
| `Access_proofs!TypeCorrect` | `[]TypeOK`: every operation leaves a tree, also the rename of a directory with all that is in it |
| `Access_proofs!AbsentAlwaysWas`, `MkdirAlwaysForCause` | `[]AbsentWasAbsent`, `[]MkdirRefusesForCause` |
| `Access_proofs!MkdirAlwaysMakes` | `MkdirMakes`, an action property |
| `SftpWatcher_proofs!TypeCorrect`, `KnownReported` | `[]TypeOK`, `[]KnownWasReported` |
| `SftpWatcher_proofs!ImplementsFeed` | `Spec => FeedSpec`: the refinement |
| `LocalWatcher_proofs!IInvHolds` | `[]IInv`: the books balance |
| `LocalWatcher_proofs!TypeCorrect`, `WrittenIsNoticed`, `PromptCancel` | `[]TypeOK`, `[]WrittenNeverMissed`, `[]CancelIsPrompt`, whether pairs of events stay together or not |
| `LocalWatcher_proofs!ImplementsFeed` | `Spec => FeedSpec`, the refinement, without that hypothesis too: no arrival is told of twice, and what is told without one is matched by what looked like one |
| `LocalWatcher_proofs!NothingElseLost` | under `PairsTogether`: `[]CaughtUp` |
| `SftpSession_proofs!HostAlwaysKnownFirst` | `[]HostIsKnownFirst` |
| `SftpSession_proofs!OpenAlwaysAuthenticated` | `[]OpenMeansAuthenticated` |
| `SftpSession_proofs!KeyAlwaysPinned` | `KeyPinned`, an action property |
| `SftpSession_proofs!TypeCorrect`, `HandlesAlwaysInOrder`, `InterruptAlwaysPrompt` | `[]TypeOK`, `[]HandlesInOrder`, `[]InterruptIsPrompt` |
| `SftpClient_proofs!ClientHostAlwaysKnownFirst`, `ClientAlwaysAuthenticated`, `ClientKeyPinned`, `ClientSessionTypes`, `ClientHandlesInOrder`, `ClientInterruptIsPrompt` | the same six of a session inside a client, under `ClientSpec` |
| `SftpClient_proofs!ClientTypeCorrect`, `AlwaysClosedInTime` | `[]ClientTypeOK`, `[]ClosedInTime` |
| `SftpClient_proofs!ImplementsSharedSession` | `ClientSpec => SharedSpec`: the refinement |
| `Attributes_proofs!ModeAlwaysSurvives`, `MtimeIsAlwaysAFiles`, `StringAlwaysShowsBits`, `AccessesAlwaysAgree` | `[]ModeSurvives`, `[]MtimeIsAFiles`, `[]StringShowsBits`, `[]AccessesAgree`, for any files, requests, umasks and width of seconds |

*FileOperations.* `Intact` says nothing about why the next step will keep it. The
inductive invariant `IInv` adds: `TypeOK`, whose conjunct that no two paths name one
file is what lets a write touch one path only; `CallShape`, which ties `pc` to the
request and the handles; `Untouched`, that nothing at all has changed while the path
is being chosen; that the path chosen without OVERWRITE is in no snapshot; and
`OutIsExcused`, that the file open for writing is under no path of the snapshot but an
excused one, which is what makes each `WriteBlock` harmless. There is one lemma per
action. A path that the rival takes between check and use is not in the snapshot: this
is why `Intact` holds where `NoClobber` does not. `SourceFollowed` follows from
`TypeOK` with the current path updated in the step that renames, and is inductive itself
beside it. `Paths_proofs` has what the operators of trees preserve.

`CopyFaithful` compares two contents; `CopyInv` says why they agree. `Progress`, which holds as long as nobody else
has edited either file, ties the locals of the loop to them: the destination is a prefix of the source,
as long as `bytes_copied`; between a read and the writes that empty its block the block holds exactly what comes next, so that
`bytes_copied` and what is left of the block make up the position of the source. A short write leaves the rest of the block, a
short read ends nothing, and the loop is left only at the end of the source.

*Trees.* `TreeOK` says of every entry that *all* paths above it are directories. That follows from the same said of the
parent alone, but by induction on the length of a path, which no installed backend does; said like this it
is what the proofs use, and TLC checks it on every run. `Paths_proofs` shows that putting in
a file or directory, taking one out and making missing parents leave a tree; `Access_proofs` the same of a directory that is
moved: the paths below the old name and the paths below the new one correspond (`Instead`), ancestors included.

*SftpWatcher.* `IInv` adds `Unreported` to `TypeOK` and `KnownWasReported`: a name in a listing that
is not in `files_` has arrived more often than it was reported. With it the step that ends a listing is a
`Report` step of `Feed` and every other one an `Arrive` or a stutter.

*SftpSession.* Each property has its own small invariant (what has been established at
each `pc`), with a lemma for a step. `HandlesInOrder` does not say why a destructor leaves the others' handles alone: `HandleInv`
adds the height of the stack `owned` at each `pc` and which handle may stand at which height, so that none stands
twice; owning and releasing are two lemmas about stacks.

*SftpClient.* Every step of a client is, to the session, one of its own or a stutter, which carries the
session's invariants over. `ClientInv` says that the session is open exactly as long as somebody owns it, and that
a listing has its directory open and its caller held; from it every step is one of
`SharedSession` or a stutter.

*Access.* During a call the path asked for is at the bottom of `pending`, and what the tree had
at the start it has still, or another client has been recorded. The step that empties `pending` made or saw that very
directory; so `MkdirMakes` needs no word about other clients.

For `MkdirRefusesForCause` one must know, of every entry of `pending`, what its refusal would prove. `AtMkdir` says
it: the stack goes down parent by parent (`Orderly`); while no other client has removed or moved anything, all that was there is there
and no file has come (`Kept`), and a directory asked for again after its parent has it (`Ready`); the server said of
every parent on the stack that it was missing (`Missing`); and as long as no other client has made a directory, what is still to be made is not there by this call's
own doing (`OwnOnly`), trailing separator aside. A refusal then leaves a file on the way, a missing parent that was not asked for,
or one of the server's cases. TLC has checked `AtMkdir` on the run `Access` before the proof.

*LocalWatcher.* `CaughtUp` speaks of an empty queue; the invariant, of every moment. `Balance` has three parts. `AllTold`: the arrivals of each
name are those reported, collected in `result` as due, told by what `watch` holds, told by `queue`, and `lost`.
An event counts by its mask and by its neighbour: an IN_CREATE tells of an
arrival when the IN_DELETE that belongs to it follows at once, so the counts of two sequences add up only if no pair is torn
apart where they meet. This is what `PairsTogether` gives, a constant of the model and the hypothesis of
`NothingElseLost`; the code assumes it in a comment (local_watcher.cpp:136), and `LocalWatcher_missed` shows what happens without.
`AllWritten` is the same of events that have no neighbour, files written or moved in, and `AllStray` of what looks like an arrival: here inequalities hold
without any hypothesis, as an IN_CREATE is one stray or one rename whatever follows it. Hence `WrittenIsNoticed` and
`ImplementsFeed`. `Shape` has the rest: the queue's last place is for the overflow, a buffer is no longer than what is
left of it, and a name is remembered only from one event to the next. `Prompt` says that nothing is late as long as
`cancelfd` is unreadable or a buffer is being looked at, from which `CancelIsPrompt` follows, as only a `watch` that found it unreadable gets a buffer.
The prover counts with sets of positions, which are finite; each step of `watch` takes one
position off one set and adds one to another place.

*Attributes.* A chain of set equations: a table there and back keeps its bits, the
four tables make up the lower twelve bits, the type the other four. For `MtimeIsAFiles` the invariant is that what has been
filled in so far is of a file in `seen`. `AccessesAgree` needs more of a file that nobody touches: `Undisturbed`, that each member the
local access has got to is that very file's, and `CopyOfAttr`, that a copy's mode comes from complete attributes. The reply of a server
needs no invariant; that both describe one file alike is an equation between the two `make_attributes`, since `set_mode` looks
at the lower twelve bits only (`LocalIsSetMode`).

Assumptions worth a word: `NoName`, the model's value for an unset name in `LocalWatcher`, is no name; a reply with a
modification time of version 4 has fractions (`StatAssumption`, see section 8). All others give types and say that bounds
are numbers.

Only model-checked: liveness (`EveryCallEnds`, `NewFilesNoticed`, `InterruptEnds`, `ArrivalsReported`, `CancelEnds`,
`ConstructionEnds`, `DroppedIsFreed`), as the prover has no rule for fairness, whose meaning is ENABLED; and what the runs that expect a
violation show.

## 7. Where code and documentation part

With a run:

- **The policies race** (`FileOperations_clobber`). FAIL and AUTORENAME look whether the
  path is free, and use it in a later call. The run shows a local move under AUTORENAME: after `try_stat` a file appears at the path,
  and the rename (operations.cpp:19) replaces it. `copy_file`'s open with O_CREAT | O_TRUNC (operations.cpp:33-34) has the same gap,
  and FAIL is no different.
- **Existing parents on a server** (`FileOperations_parent`). `create_parents` calls `mkdir` for
  every new file, and the SFTP `mkdir` fails on a directory that exists.
- **`cancelfd` is dropped** by the SFTP access (`SftpWatcher_cancel`), against i_access.h:61-66.
- **Renames are missed** (`LocalWatcher_missed`) when another event or the end of the buffer comes
  between their IN_CREATE and IN_DELETE. The comment at local_watcher.cpp:136 says they always *seem*
  to come consecutively.
- **A success is thrown away** (`SftpSession_kept`): the loop over identities does not stop
  after the one that authenticated, and the error of the next one throws.

Noticed, without a run of their own:

- Without `create_parents` every new file whose path has a parent is refused with ENOENT
  (make_dest_path.cpp:117-121), whether the directory exists or not. The same property,
  `ExistingParentAccepted`, fails on such a request.
- `remove` of an absent path returns on the local access (as test_local_access.cpp:91 expects and
  i_access.h:56 says) and throws on the SFTP access; `RemovePath` has both.
- `sftp_access` asks `sftp_get_error` why a request failed, also one that never got an answer. Then
  the slot holds the status of an earlier request, and after "no such file" `exists` and `try_stat` say of a file that is there
  that it is absent: `AbsentWasAbsent` has to name this exception (`misled`), and `MkdirRefusesForCause`, too.
- The local `try_stat` throws for a path below a file (ENOTDIR, local_access.cpp:71-78), the remote one says that there is none, as
  `exists` does on both.
- The SFTP `mkdir` of `a/b/` with parents makes `a/b` as its own parent, then fails to make it again: it throws although the
  directory is made. The local one succeeds.
- `lstat` of a link has the link's own times and size on a server, those of the file it leads to on the local access
  (`last_write_time` and `file_size` follow links, make_attributes.cpp:106-125).
- A reply of version 4 with the access time alone sets `mtime`, too, as SSH_FILEXFER_ATTR_ACCESSTIME is the bit of ACMODTIME
  (sftp_access.cpp:86-96): `MtimeIsAFiles` leaves such a reply out.
- The local `watch` returns names of which no file was "closed after writing or moved" (local_watcher.cpp:107-108), also when pairs of events come
  together. A directory that is moved in and is gone, or is a file, by the time line 245 looks is taken for a file moved in, as
  line 250 does not test IN_ISDIR. And an IN_CREATE that nothing follows (a symbolic link, a device, a link) is taken for a rename
  if the next event is an IN_DELETE of another name (267-276); so is, when pairs are torn apart, the IN_CREATE of a file about to be written, which is then
  returned before it is closed and again after. `CaughtUp` and `FeedSpec` say how far this goes: each such operation makes one
  entry too many at most (`extra` and `strays`), and none is lost for it. That nothing at all is returned without an arrival is false of the
  code, as these traces of `LocalWatcher` show; it has no run of its own.

## 8. Not modelled

- Logging, formatting, exceptions' messages, uuid, version, build files, the example: no
  state that other parts read.
- `ssh_api`: one forward per call. What libssh answers is a choice in the models; its inner state but for the remembered error, and what
  happens when two threads use one session at once, which the library does not support, are left out.
- Version 4 replies with times but without SUBSECOND_TIMES, which `StatAssumption` excludes.
- Throwing through libssh's C frames (sftp_session.cpp:97): the model lets the exception arrive.
- Values of owners and groups, `owner_or_uid`, `group_or_gid` and the comparison of attributes; the text of paths and placeholders; the letters of `mode_string` beyond
  which bit shows where.
- A rival in `FileOperations` that makes or removes directories, and hard or symbolic links to
  the files; `Access` has clients that move directories.
- Recovery: nothing is persisted by the library but what the operations themselves do, so a crash is an exception
  after which no further call is made, and its states are among those checked.
