------------------------------- MODULE Access -------------------------------
(* The operations of i_access that change the directory tree, and the ones   *)
(* that ask for an entry, as local/local_access.cpp and sftp/sftp_access.cpp *)
(* make them, for several clients (processes, threads with an access each)   *)
(* on one tree. A request to the server or a call of the operating system is *)
(* one step; sftp's mkdir is several, and so is boost's create_directories.  *)
(* sftp::access learns why a request failed from sftp_get_error, a slot of   *)
(* the session that only the status replies of the server write.             *)
EXTENDS Paths

CONSTANTS
    Clients,
    Remotes,    \* the clients that use sftp::access, the others local::access
    Trees,      \* the trees a run starts from
    Calls,      \* the calls a client may make
    MaxCalls,   \* bound: calls made
    MaxFaults   \* bound: requests that fail

CallType == [op : {"exists", "try_stat", "stat", "remove", "mkdir", "rename"},
             path : AllPaths, slash : BOOLEAN, to : AllPaths, parents : BOOLEAN]

Files == 3

Remote(c) == c \in Remotes

ASSUME AccessAssumption ==
    /\ Remotes \subseteq Clients /\ MaxCalls \in Nat /\ MaxFaults \in Nat
    /\ Calls \subseteq CallType /\ Calls # {}
    /\ \A call \in Calls : call.path # <<>> /\ (call.op = "rename" => call.to # <<>>)
    /\ \A tree \in Trees : TreeOK(tree, Files)

VARIABLES
    fs,
    interrupted,    \* each client has its interruptor
    call, outcome,  \* what a client is at, and how its last call ended
    pending,        \* the directories mkdir has still to ask for, last one first;
                    \* empty between calls
    slot,           \* what sftp_get_error says in each session
    calls, faults,                  \* what the bounds count
    start, disturbed, shared,       \* history, read by properties only: the tree
                                    \* when the call began; another client has
                                    \* removed or moved an entry since, or made a
                                    \* directory
    misled                          \* history: a request of the call without an
                                    \* answer was taken for one of `no such file'

history == <<start, disturbed, shared, misled>>
vars == <<fs, interrupted, call, outcome, pending, slot, calls, faults, history>>

Outcomes == {"none", "returned", "absent", "refused", "interrupted", "fault"}

\* SSH_FX_*, as far as they are told apart
Slots == {"OK", "NO_SUCH_FILE", "FAILURE"}

Init ==
    /\ fs \in Trees
    /\ interrupted = [c \in Clients |-> FALSE]
    /\ call \in [Clients -> {CHOOSE any \in Calls : TRUE}]
    /\ outcome = [c \in Clients |-> "none"]
    /\ pending = [c \in Clients |-> <<>>]
    /\ slot = [c \in Clients |-> "OK"]
    /\ calls = 0 /\ faults = 0
    /\ start = [c \in Clients |-> <<>>]
    /\ disturbed = interrupted /\ shared = interrupted /\ misled = interrupted
-----------------------------------------------------------------------------
\* What mkdir is asked for. A path may end with a separator, of which boost's
\* functions take no notice.
Want(path, slash, parents) == [path |-> path, slash |-> slash, parents |-> parents]

Wanted(c, new) == Want(new.path, Remote(c) /\ new.slash, new.parents)

\* The client may go on with its call of op.
At(c, op) ==
    /\ pending[c] # <<>> /\ call[c].op = op /\ ~interrupted[c]
    /\ UNCHANGED <<interrupted, call, calls, start>>

\* The server answers with a status; the local access has no slot.
Status(c, status) ==
    /\ slot' = IF Remote(c) THEN [slot EXCEPT ![c] = status] ELSE slot
    /\ UNCHANGED <<faults, misled>>

Refused(there) == IF there THEN "FAILURE" ELSE "NO_SUCH_FILE"

End(c, how) ==
    /\ outcome' = [outcome EXCEPT ![c] = how]
    /\ pending' = [pending EXCEPT ![c] = <<>>]

Others(flag, c) == [d \in Clients |-> flag[d] \/ (d # c /\ pending[d] # <<>>)]

Made(c) == shared' = Others(shared, c) /\ UNCHANGED disturbed
Took(c) == disturbed' = Others(disturbed, c) /\ UNCHANGED shared
Touched == UNCHANGED <<fs, disturbed, shared>>

Call(c) ==
    /\ pending[c] = <<>> /\ calls < MaxCalls /\ calls' = calls + 1
    /\ \E new \in Calls :
          /\ call' = [call EXCEPT ![c] = new]
          /\ pending' = [pending EXCEPT ![c] = <<Wanted(c, new)>>]
    /\ outcome' = [outcome EXCEPT ![c] = "none"]
    /\ start' = [start EXCEPT ![c] = fs]
    /\ disturbed' = [disturbed EXCEPT ![c] = FALSE]
    /\ shared' = [shared EXCEPT ![c] = FALSE]
    /\ misled' = [misled EXCEPT ![c] = FALSE]
    /\ UNCHANGED <<fs, interrupted, slot, faults>>

\* create_directories is on its way.
Begun(c) == pending[c] # <<Wanted(c, call[c])>>

\* throw_if_interrupted(), before every request; boost does not call it.
ThrowIfInterrupted(c) ==
    /\ pending[c] # <<>> /\ interrupted[c]
    /\ ~Remote(c) => ~Begun(c)
    /\ End(c, "interrupted") /\ Touched
    /\ UNCHANGED <<interrupted, call, slot, calls, faults, start, misled>>

\* A call of the operating system fails.
Fault(c) ==
    /\ ~Remote(c) /\ pending[c] # <<>> /\ faults < MaxFaults /\ faults' = faults + 1
    /\ End(c, "fault") /\ Touched
    /\ UNCHANGED <<interrupted, call, slot, calls, start, misled>>

\* A request without an answer, because the connection is broken for instance.
\* libssh may leave the slot as the last status reply has set it.
NoAnswer(c) ==
    /\ Remote(c) /\ faults < MaxFaults /\ faults' = faults + 1
    /\ \E last \in {slot[c], "FAILURE"} : slot' = [slot EXCEPT ![c] = last]

Misled(c) == misled' = [misled EXCEPT ![c] = slot'[c] = "NO_SUCH_FILE"]

\* remove, rename, stat and lstat throw whatever the slot says.
RequestLost(c) ==
    /\ \/ At(c, "remove") \/ At(c, "rename") \/ At(c, "stat")
    /\ NoAnswer(c) /\ UNCHANGED misled
    /\ End(c, "fault") /\ Touched
-----------------------------------------------------------------------------
Asks(c) == At(c, "exists") \/ At(c, "try_stat")

\* Mutant: exists and try_stat take every error for one of a missing file.
AbsentOnError(c) == Asks(c) /\ NoAnswer(c) /\ Misled(c) /\ End(c, "absent") /\ Touched

\* exists and try_stat, when there is no answer: only SSH_FX_NO_SUCH_FILE is no
\* error.
AskedInVain(c) ==
    /\ Asks(c) /\ NoAnswer(c) /\ Misled(c)
    /\ End(c, IF slot'[c] = "NO_SUCH_FILE" THEN "absent" ELSE "fault")
    /\ Touched

\* ENOTDIR, which to the local try_stat is not `no such file'.
BelowFile(c) == ~Remote(c) /\ \E p \in Ancestry(call[c].path) : IsFile(fs, p)

\* exists, try_stat, stat and lstat. Attributes are not a status reply.
Stat(c) ==
    /\ Asks(c) \/ At(c, "stat")
    /\ \/ /\ call[c].path \in DOMAIN fs /\ End(c, "returned")
          /\ UNCHANGED <<slot, faults, misled>>
       \/ /\ call[c].path \notin DOMAIN fs /\ Status(c, "NO_SUCH_FILE")
          /\ LET refuses == \/ call[c].op = "stat"
                            \/ call[c].op = "try_stat" /\ BelowFile(c)
             IN  End(c, IF refuses THEN "refused" ELSE "absent")
    /\ Touched

HasEntries(p) == \E q \in DOMAIN fs : has_parent_path(q) /\ parent_path(q) = p

\* Mutant: the directory is removed with what is in it, or rather without.
RemovePathAnyway(c) ==
    /\ At(c, "remove")
    /\ fs' = Drop(fs, call[c].path)
    /\ Took(c) /\ End(c, "returned") /\ Status(c, "OK")

\* boost's remove takes a file or an empty directory and does not mind when
\* there is nothing; sftp_unlink takes a file.
RemovePath(c) ==
    /\ At(c, "remove")
    /\ LET p == call[c].path
           possible == IsFile(fs, p) \/ (~Remote(c) /\ IsDir(fs, p) /\ ~HasEntries(p))
       IN  \/ /\ possible /\ fs' = Drop(fs, p) /\ Took(c)
              /\ End(c, "returned") /\ Status(c, "OK")
           \/ /\ p \notin DOMAIN fs /\ ~Remote(c) /\ Touched
              /\ End(c, "returned") /\ Status(c, "OK")
           \/ /\ ~possible /\ (p \in DOMAIN fs \/ Remote(c)) /\ Touched
              /\ End(c, "refused") /\ Status(c, Refused(p \in DOMAIN fs))

\* The tree after the entry old, with what is in it, is moved to new.
Moved(old, new) ==
    LET moving == {p \in DOMAIN fs : old \in Ancestry(p)}
        there(p) == new \o SubSeq(p, Len(old) + 1, Len(p))
        staying == DOMAIN fs \ (moving \cup {new})
        back(q) == old \o SubSeq(q, Len(new) + 1, Len(q))
    IN  [q \in staying \cup {there(p) : p \in moving} |->
            IF q \in staying THEN fs[q] ELSE fs[back(q)]]

\* rename(2), and a server that does the same or refuses a name that exists.
Rename(c) ==
    /\ At(c, "rename")
    /\ LET old == call[c].path
           new == call[c].to
           possible == /\ old \in DOMAIN fs /\ Placeable(fs, new)
                       /\ old \notin Ancestry(new) /\ new \notin Ancestry(old)
                       /\ IF IsDir(fs, old) THEN ~IsFile(fs, new) /\ ~HasEntries(new)
                          ELSE ~IsDir(fs, new)
       IN  \/ /\ possible
              /\ fs' = Moved(old, new) /\ Took(c)
              /\ End(c, "returned") /\ Status(c, "OK")
           \/ /\ ~possible \/ (Remote(c) /\ new \in DOMAIN fs)
              /\ End(c, "refused") /\ Touched
              /\ Status(c, Refused(old \in DOMAIN fs /\ Placeable(fs, new)))
-----------------------------------------------------------------------------
(* mkdir.                                                                   *)

Top(c) == Head(pending[c])

\* parent_path() of a path that ends with a separator is the path without it.
HasParent(want) == want.slash \/ has_parent_path(want.path)
Parent(want) == IF want.slash THEN want.path ELSE parent_path(want.path)

Makeable(p) == p \notin DOMAIN fs /\ Placeable(fs, p)

\* The directory at the top is there now; what is left of the call?
Next_(c) ==
    IF Len(pending[c]) = 1 THEN End(c, "returned")
    ELSE /\ pending' = [pending EXCEPT ![c] = Tail(@)] /\ UNCHANGED outcome

MakeDirectory(c) ==
    /\ Makeable(Top(c).path)
    /\ fs' = Put(fs, Top(c).path, Dir) /\ Made(c) /\ Next_(c)

\* Mutant: after the parents are made the directory itself is forgotten.
ParentsOnly(c) ==
    /\ pending' = [pending EXCEPT ![c] =
                     <<Want(Parent(Top(c)), FALSE, TRUE)>> \o Tail(@)]
    /\ UNCHANGED outcome

\* mkdir(path.parent_path(), true); mkdir(path, false)
Parents(c) ==
    /\ pending' = [pending EXCEPT ![c] =
                     <<Want(Parent(Top(c)), FALSE, TRUE),
                       [Top(c) EXCEPT !.parents = FALSE]>> \o Tail(@)]
    /\ UNCHANGED outcome

\* sftp_mkdir has failed; is it worth while to make the parents?
Recurse(c, how) ==
    IF Top(c).parents /\ HasParent(Top(c)) /\ slot'[c] = "NO_SUCH_FILE"
    THEN Parents(c) ELSE End(c, how)

\* The server says `no such file' when the parent is missing, or is a file. A
\* directory that exists is another error.
SftpMkdir(c) ==
    /\ Remote(c) /\ At(c, "mkdir")
    /\ LET p == Top(c).path IN
       \/ MakeDirectory(c) /\ Status(c, "OK")
       \/ /\ ~Makeable(p) /\ Touched
          /\ Status(c, Refused(Placeable(fs, p)))
          /\ Recurse(c, "refused")

\* Without an answer, whether the directory was made or not.
MkdirLost(c) ==
    /\ At(c, "mkdir") /\ NoAnswer(c) /\ Misled(c)
    /\ \/ Touched
       \/ /\ Makeable(Top(c).path)
          /\ fs' = Put(fs, Top(c).path, Dir) /\ Made(c)
    /\ Recurse(c, "fault")

\* Mutant: a directory that exists by now is an error.
ThereIsAnError(c) == IsDir(fs, Top(c).path) /\ End(c, "refused") /\ Touched

\* A directory that exists by now is no error to boost.
AlreadyThere(c) == IsDir(fs, Top(c).path) /\ Next_(c) /\ Touched

\* boost's create_directory, or create_directories: it looks for an ancestor that
\* exists, going up, and makes what is missing, going down. (Of a path without a
\* parent the look-up and the mkdir are one step: whether the directory is there
\* shows in the second, too.)
LocalMkdir(c) ==
    /\ ~Remote(c) /\ pending[c] # <<>> /\ call[c].op = "mkdir"
    /\ Begun(c) \/ ~interrupted[c]
    /\ LET p == Top(c).path
           goingUp == Top(c).parents /\ has_parent_path(p)
       IN  \/ AlreadyThere(c)
           \/ goingUp /\ ~IsDir(fs, p) /\ Parents(c) /\ Touched
           \/ ~goingUp /\ MakeDirectory(c)
           \/ /\ ~goingUp /\ ~Makeable(p) /\ ~IsDir(fs, p)
              /\ End(c, "refused") /\ Touched
    /\ Status(c, "OK")
    /\ UNCHANGED <<interrupted, call, calls, start>>
-----------------------------------------------------------------------------
Interrupt(c) ==
    /\ ~interrupted[c] /\ interrupted' = [interrupted EXCEPT ![c] = TRUE]
    /\ UNCHANGED <<fs, call, outcome, pending, slot, calls, faults, history>>

Next ==
    \E c \in Clients :
        \/ Call(c) \/ ThrowIfInterrupted(c) \/ Fault(c) \/ Interrupt(c)
        \/ Stat(c) \/ RemovePath(c) \/ Rename(c) \/ SftpMkdir(c) \/ LocalMkdir(c)
        \/ AskedInVain(c) \/ RequestLost(c) \/ MkdirLost(c)

Spec == Init /\ [][Next]_vars
-----------------------------------------------------------------------------
(* Properties.                                                              *)

\* The variables stay in their types, and the tree stays a tree.
TypeOK ==
    /\ TreeOK(fs, Files)
    /\ interrupted \in [Clients -> BOOLEAN]
    /\ call \in [Clients -> Calls] /\ outcome \in [Clients -> Outcomes]
    /\ \A c \in Clients : \A k \in DOMAIN pending[c] :
          pending[c][k].path \in Ancestry(call[c].path)
    /\ slot \in [Clients -> Slots]
    /\ calls \in 0..MaxCalls /\ faults \in 0..MaxFaults

\* When mkdir returns, the directory is there at that moment, with all its
\* parents, whoever else makes, moves or removes directories at the same time.
MkdirMakes ==
    [][ \A c \in Clients :
          call[c].op = "mkdir" /\ outcome[c] = "none" /\ outcome'[c] = "returned"
          => IsDir(fs', call[c].path) ]_vars

\* mkdir refuses only for a cause: a file in the way, a parent that it was not
\* asked to make, an entry another client took away, and on a server a
\* directory that was there or that another client was quicker to make, an
\* answer that did not come, or a missing parent of a path that ends with a
\* separator, for which the directory is made twice.
MkdirRefusesForCause ==
    \A c \in Clients :
        call[c].op = "mkdir" /\ outcome[c] = "refused" =>
            \/ disturbed[c]
            \/ \E p \in Ancestry(call[c].path) : IsFile(start[c], p)
            \/ ~call[c].parents /\ ~Placeable(start[c], call[c].path)
            \/ Remote(c) /\ (IsDir(start[c], call[c].path) \/ shared[c] \/ misled[c])
            \/ Remote(c) /\ call[c].slash /\ ~Placeable(start[c], call[c].path)

\* An entry that is said to be absent was absent when the call began, or another
\* client has been at work since; unless the server has not answered and the
\* last status it had sent, for whatever request, was `no such file'.
AbsentWasAbsent ==
    \A c \in Clients :
        outcome[c] = "absent" => \/ call[c].path \notin DOMAIN start[c]
                                \/ disturbed[c] \/ misled[c]
=============================================================================
