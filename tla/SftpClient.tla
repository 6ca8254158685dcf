----------------------------- MODULE SftpClient ------------------------------
(* The objects that share a session, composed with it: the application's     *)
(* sftp::access, whose impl owns the session (sftp/sftp_access.cpp); its     *)
(* files (sftp/sftp_file.cpp), which own the session, too, and a handle of   *)
(* their own; its watchers (sftp/sftp_watcher.cpp), which own the impl; and  *)
(* the directory_reader of a listing. All of it is shared_ptr: the last      *)
(* owner to go destroys the session, inside its own destructor. The          *)
(* application drops what it has in any order; a watcher may be in use in    *)
(* another thread meanwhile, but two threads never send requests at once,    *)
(* which libssh does not support.                                            *)
EXTENDS SftpSession

CONSTANTS Files, Watchers   \* bounds: the files and watchers one may have

\* The application's access, and the directory that is being listed.
Access == "access"
Dir == "dir"

ASSUME SftpClientAssumption ==
    /\ Files \cap Watchers = {}
    /\ {"none", "create", Access, Dir} \cap (Files \cup Watchers) = {}

VARIABLES
    access,     \* the application has the access
    files, watchers,    \* those it has
    open,       \* the handles of libssh that are open: files and Dir
    call        \* who lists a directory: "none", the access, "create" (the
                \* constructor of a watcher), or a watcher

client == <<access, files, watchers, open, call>>
clientVars == <<vars, client>>

ClientInit ==
    /\ Init
    /\ access = FALSE /\ files = {} /\ watchers = {} /\ open = {} /\ call = "none"
-----------------------------------------------------------------------------
\* The session's constructor, or the destructor. The constructor of the access
\* and its impl is nothing else: the application has the access when it returns.
SessionStep ==
    /\ Constructor
    /\ access' = (pc' = "open")
    /\ UNCHANGED <<files, watchers, open, call>>

\* Mutant: a file has the handle only.
OwnedNotByFiles == access \/ watchers # {}

\* Somebody owns the session: a watcher does by its impl.
Owned == access \/ files # {} \/ watchers # {}

\* The end of an object's destructor: its shared_ptr is released.
ReleaseSession == IF Owned' THEN UNCHANGED vars ELSE Close

\* No request is in progress, and the next one passes throw_if_interrupted().
MayRequest == call = "none" /\ ~interrupted

\* access::impl::open; when sftp_open fails there is neither file nor handle.
OpenFile(f) ==
    /\ access /\ MayRequest
    /\ files' = files \cup {f} /\ open' = open \cup {f}
    /\ UNCHANGED <<vars, access, watchers, call>>

\* Mutant: the session is not among what a file's destructor releases.
DropFileKeepsSession(f) ==
    /\ f \in files /\ call = "none"
    /\ files' = files \ {f} /\ open' = open \ {f}
    /\ UNCHANGED <<vars, access, watchers, call>>

\* ~file: sftp_close, then the members go.
DropFile(f) ==
    /\ f \in files /\ call = "none"
    /\ files' = files \ {f} /\ open' = open \ {f}
    /\ UNCHANGED <<access, watchers, call>>
    /\ ReleaseSession

DropAccess ==
    /\ access /\ call \notin {Access, "create"}
    /\ access' = FALSE
    /\ UNCHANGED <<files, watchers, open, call>>
    /\ ReleaseSession

DropWatcher(w) ==
    /\ w \in watchers /\ call # w
    /\ watchers' = watchers \ {w}
    /\ UNCHANGED <<access, files, open, call>>
    /\ ReleaseSession
-----------------------------------------------------------------------------
\* ls, by the access, by the constructor of a watcher or by a watcher's watch().
\* When sftp_opendir fails there is no directory_reader.
List(by) ==
    /\ IF by \in {Access, "create"} THEN access ELSE by \in watchers
    /\ MayRequest
    /\ call' = by /\ open' = open \cup {Dir}
    /\ UNCHANGED <<vars, access, files, watchers>>

\* Mutant: an exception goes past the directory_reader without closing it.
ListThrowsKeepsDir ==
    /\ call # "none" /\ call' = "none"
    /\ UNCHANGED <<vars, access, files, watchers, open>>

\* An entry cannot be read, or its symbolic link, or the interruptor was raised:
\* ~directory_reader closes the directory. A watcher that was to be made goes
\* with its reference to the impl.
ListThrows ==
    /\ call # "none" /\ call' = "none"
    /\ open' = open \ {Dir}
    /\ UNCHANGED <<vars, access, files, watchers>>

\* Mutant: what is returned is not the new watcher.
ListReturnsCaller ==
    /\ call # "none" /\ call' = "none"
    /\ open' = open \ {Dir} /\ watchers' = watchers \cup {call}
    /\ UNCHANGED <<vars, access, files>>

\* sftp_dir_eof. Nobody has called throw_if_interrupted() since the last entry.
ListReturns ==
    /\ call # "none" /\ call' = "none"
    /\ open' = open \ {Dir}
    /\ \/ call # "create" /\ UNCHANGED watchers
       \/ call = "create" /\ \E w \in Watchers : watchers' = watchers \cup {w}
    /\ UNCHANGED <<vars, access, files>>
-----------------------------------------------------------------------------
\* Everybody else; the application makes an access.
OthersStep ==
    /\ Construct \/ Interrupt \/ RivalPersist \/ HostKeyChanges
    /\ UNCHANGED client

ClientNext ==
    \/ SessionStep \/ OthersStep \/ DropAccess \/ ListThrows \/ ListReturns
    \/ \E f \in Files : OpenFile(f) \/ DropFile(f)
    \/ \E w \in Watchers : DropWatcher(w)
    \/ \E by \in {Access, "create"} \cup Watchers : List(by)

\* The fairness of SftpSession; nobody has to make, use or drop anything.
ClientFairness == WF_clientVars(SessionStep)

ClientSpec == ClientInit /\ [][ClientNext]_clientVars /\ ClientFairness
-----------------------------------------------------------------------------
(* Properties.                                                              *)

\* The variables stay in their types.
ClientTypeOK ==
    /\ access \in BOOLEAN /\ files \subseteq Files /\ watchers \subseteq Watchers
    /\ open \subseteq Files \cup {Dir}
    /\ call \in {"none", Access, "create"} \cup Watchers

\* A handle is open only on a session that is: the destructors close it before
\* the last of them frees the session. And none is lost: between calls those of
\* the application's files are open and no other, however the listings ended.
ClosedInTime ==
    /\ open # {} => pc = "open" /\ "sftp" \in live
    /\ call = "none" => open = files

Shared == INSTANCE SharedSession WITH
    Objects <- {Access} \cup Files \cup Watchers,
    Listing <- Dir,
    alive <- "sftp" \in live,
    held <- (IF access THEN {Access} ELSE {}) \cup files \cup watchers,
    open <- open

\* The client keeps the promise of SharedSession: as long as the application
\* has any of the objects, dropped in whatever order, the session stays, and it
\* is not freed with a handle left on it.
SharedSpec == Shared!Spec

\* When the application has dropped the last of them the session is freed, also
\* after an interruption, and so is one that the constructor gave up.
DroppedIsFreed == Shared!Liveness
=============================================================================
