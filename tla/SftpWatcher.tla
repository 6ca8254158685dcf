---------------------------- MODULE SftpWatcher -----------------------------
(* The polling watcher of sftp/sftp_watcher.cpp, with access::ls and the    *)
(* directory_reader of sftp/sftp_access.cpp that it lists the directory by. *)
(*                                                                          *)
(* A listing is many requests, and the directory changes between them. The  *)
(* server's promise is the usual one of readdir: a name that is there from  *)
(* opendir to end of file is returned, one that is never there is not, and  *)
(* of the others nothing is promised; a name removed and made again may be  *)
(* returned twice.                                                          *)
EXTENDS Naturals, FiniteSets

CONSTANTS
    Names,       \* the names used in the watched directory
    Links,       \* those that are symbolic links, which ls also reads
    MaxChanges,  \* bound: files made and removed by others
    MaxFaults    \* bound: requests that fail

ASSUME SftpWatcherAssumption ==
    /\ Links \subseteq Names
    /\ MaxChanges \in Nat /\ MaxFaults \in Nat

VARIABLES
    present,     \* the names in the directory now
    pc,          \* "new": the constructor is to run; "idle"; "waiting";
                 \* "listing"; "dead": the constructor threw
    ready,       \* has the constructor returned?
    files_,      \* the names of the last complete listing
    must, may,   \* what this listing still has to return, and may return
    listed,      \* what it has returned
    interrupted, cancelled,  \* the interruptor; cancelfd is readable
    outcome,     \* how the last watch() ended
    changes, faults,              \* what the bounds count
    arrivals, reports, baseline   \* history, read by properties only

directory == <<present, changes, arrivals>>
scan == <<must, may, listed>>
signals == <<interrupted, cancelled>>
vars == <<directory, pc, ready, files_, scan, signals, outcome, faults,
          reports, baseline>>

Init ==
    /\ present \in SUBSET Names
    /\ arrivals = [n \in Names |-> IF n \in present THEN 1 ELSE 0]
    /\ pc = "new" /\ ready = FALSE /\ files_ = {} /\ baseline = {}
    /\ must = {} /\ may = {} /\ listed = {}
    /\ interrupted = FALSE /\ cancelled = FALSE
    /\ outcome = "none" /\ changes = 0 /\ faults = 0
    /\ reports = [n \in Names |-> 0]
-----------------------------------------------------------------------------
\* Mutant: entries go straight into files_, so a failed listing leaves some.
ThrowKeepsPartial(error) ==
    /\ pc' = IF ready THEN "idle" ELSE "dead"
    /\ outcome' = error
    /\ files_' = files_ \cup listed
    /\ UNCHANGED <<directory, ready, scan, signals, reports, baseline>>

\* An exception leaves the constructor or watch(): files_ stays as it was.
Throw(error) ==
    /\ pc' = IF ready THEN "idle" ELSE "dead"
    /\ outcome' = error
    /\ UNCHANGED <<directory, ready, files_, scan, signals, reports, baseline>>

\* throw_if_interrupted() of ls, before opendir and after every entry, and the
\* wait between two scans.
ThrowIfInterrupted ==
    /\ pc \in {"new", "waiting", "listing"} /\ interrupted
    /\ pc = "listing" => may # {}
    /\ Throw("interrupted")
    /\ UNCHANGED faults

\* opendir, readdir or the connection fails.
Fault ==
    /\ pc \in {"new", "waiting", "listing"} /\ (interrupted => pc = "listing")
    /\ faults < MaxFaults /\ faults' = faults + 1
    /\ Throw("fault")

\* The application calls watch(), which waits for scan_interval_ms_.
Watch ==
    /\ pc = "idle"
    /\ pc' = "waiting" /\ outcome' = "none"
    /\ UNCHANGED <<directory, ready, files_, scan, signals, faults, reports,
                   baseline>>

\* Mutant: the result of wait_for_interruption is not looked at.
OpenDirIgnoresInterrupt ==
    /\ pc \in {"new", "waiting"}
    /\ pc' = "listing"
    /\ must' = present /\ may' = present /\ listed' = {}
    /\ UNCHANGED <<directory, ready, files_, signals, outcome, faults, reports,
                   baseline>>

\* The wait is over (or this is the constructor): opendir.
OpenDir ==
    /\ pc \in {"new", "waiting"} /\ ~interrupted
    /\ pc' = "listing"
    /\ must' = present /\ may' = present /\ listed' = {}
    /\ UNCHANGED <<directory, ready, files_, signals, outcome, faults,
                   reports, baseline>>

\* Mutant: an entry is read and still to come.
ReadDirNotConsumed ==
    /\ pc = "listing" /\ ~interrupted
    /\ \E n \in may : may' = may \ {n} /\ listed' = listed \cup {n}
    /\ UNCHANGED <<directory, pc, ready, files_, must, signals, outcome,
                   faults, reports, baseline>>

\* readdir returns an entry; a link is read as well, which fails when it is
\* gone by now and takes the whole listing with it.
ReadDir ==
    /\ pc = "listing" /\ ~interrupted
    /\ \E n \in may :
          \/ /\ n \in Links => n \in present
             /\ must' = must \ {n} /\ may' = may \ {n} /\ listed' = listed \cup {n}
             /\ UNCHANGED <<directory, pc, ready, files_, signals, outcome,
                            faults, reports, baseline>>
          \/ /\ n \in Links /\ n \notin present
             /\ Throw("readlink") /\ UNCHANGED faults

\* Mutant: files_ is not swapped for the new listing.
ReadDirEofNoSwap ==
    /\ pc = "listing" /\ must = {}
    /\ pc' = "idle" /\ ready' = TRUE
    /\ IF ready
       THEN /\ reports' = [n \in Names |-> IF n \in listed \ files_
                                           THEN reports[n] + 1 ELSE reports[n]]
            /\ outcome' = "returned" /\ UNCHANGED <<files_, baseline>>
       ELSE /\ files_' = listed /\ baseline' = listed
            /\ UNCHANGED <<reports, outcome>>
    /\ must' = {} /\ may' = {} /\ listed' = {}
    /\ UNCHANGED <<directory, signals, faults>>

\* Mutant: as many entries as before are taken for no change.
ReadDirEofComparesCounts ==
    /\ pc = "listing" /\ must = {}
    /\ pc' = "idle" /\ ready' = TRUE
    /\ IF ready /\ Cardinality(listed) = Cardinality(files_)
       THEN outcome' = "returned" /\ UNCHANGED <<files_, reports, baseline>>
       ELSE /\ files_' = listed
            /\ baseline' = IF ready THEN baseline ELSE listed
            /\ UNCHANGED <<reports, outcome>>
    /\ must' = {} /\ may' = {} /\ listed' = {}
    /\ UNCHANGED <<directory, signals, faults>>

\* readdir is at the end of the directory; list_files() returns its map. The
\* constructor keeps it; watch() returns what is not in files_ and swaps.
ReadDirEof ==
    /\ pc = "listing" /\ must = {}
    /\ pc' = "idle" /\ ready' = TRUE
    /\ files_' = listed
    /\ IF ready
       THEN /\ reports' = [n \in Names |-> IF n \in listed \ files_
                                           THEN reports[n] + 1 ELSE reports[n]]
            /\ outcome' = "returned" /\ UNCHANGED baseline
       ELSE /\ baseline' = listed
            /\ UNCHANGED <<reports, outcome>>
    /\ must' = {} /\ may' = {} /\ listed' = {}
    /\ UNCHANGED <<directory, signals, faults>>
-----------------------------------------------------------------------------
(* Everybody else: other users of the directory, other threads.             *)

Create(n) ==
    /\ n \notin present /\ changes < MaxChanges /\ changes' = changes + 1
    /\ present' = present \cup {n}
    /\ arrivals' = [arrivals EXCEPT ![n] = @ + 1]
    /\ may' = IF pc = "listing" THEN may \cup {n} ELSE may
    /\ UNCHANGED <<pc, ready, files_, must, listed, signals, outcome, 
                   faults, reports, baseline>>

Remove(n) ==
    /\ n \in present /\ changes < MaxChanges /\ changes' = changes + 1
    /\ present' = present \ {n}
    /\ must' = must \ {n}
    /\ UNCHANGED <<pc, ready, files_, may, listed, signals, outcome, 
                   faults, arrivals, reports, baseline>>

\* The interruptor is raised. It is never lowered again.
Interrupt ==
    /\ ~interrupted /\ interrupted' = TRUE
    /\ UNCHANGED <<directory, pc, ready, files_, scan, cancelled, outcome,
                   faults, reports, baseline>>

\* The application makes the cancelfd it gave to create_watcher readable; the
\* watcher was not given it.
Cancel ==
    /\ ~cancelled /\ cancelled' = TRUE
    /\ UNCHANGED <<directory, pc, ready, files_, scan, interrupted, outcome,
                   faults, reports, baseline>>

Watcher == ThrowIfInterrupted \/ Fault \/ Watch \/ OpenDir \/ ReadDir \/ ReadDirEof

Others == Interrupt \/ Cancel \/ \E n \in Names : Create(n) \/ Remove(n)

Next == Watcher \/ Others

\* The thread in watch() keeps running, its requests are answered, and the
\* application calls watch() again: that is what a watcher is for. Others owe
\* nothing.
Fairness == WF_vars(Watcher)

Spec == Init /\ [][Next]_vars /\ Fairness
-----------------------------------------------------------------------------
(* Properties.                                                              *)

\* The variables stay in their types; a listing owes only what is there and
\* what it may return.
TypeOK ==
    /\ present \subseteq Names /\ files_ \subseteq Names /\ baseline \subseteq Names
    /\ must \subseteq present \cap may /\ may \subseteq Names /\ listed \subseteq Names
    /\ pc \in {"new", "idle", "waiting", "listing", "dead"}
    /\ ready \in BOOLEAN /\ interrupted \in BOOLEAN /\ cancelled \in BOOLEAN
    /\ outcome \in {"none", "returned", "interrupted", "fault", "readlink"}
    /\ changes \in 0..MaxChanges /\ faults \in 0..MaxFaults
    /\ arrivals \in [Names -> Nat] /\ reports \in [Names -> Nat]

\* What a watcher promises.
F == INSTANCE Feed

\* watch() returns a file only after it arrived and once per arrival, although
\* a listing is not a snapshot and may fail half-way.
FeedSpec == F!Spec

\* A name the watcher knows, and will not report while it stays, was there from
\* the start or has been returned to the caller: no listing that failed, and no
\* exception, takes a new file into files_ unreported.
KnownWasReported == \A n \in files_ \ baseline : reports[n] > 0

\* A file that comes and stays is taken into files_ for good, which by
\* KnownWasReported means that watch() returns it; failures only delay it.
NewFilesNoticed ==
    \A n \in Names :
        <>[](n \in present /\ ~interrupted /\ pc # "dead") => <>[](n \in files_)

\* Raising the interruptor ends watch() with interrupted_exception, whatever
\* the directory does.
InterruptEnds == interrupted ~> (outcome = "interrupted" \/ pc = "dead")

\* The caller can cancel the watcher by making the file descriptor readable
\* (i_access.h:61-66).
CancelEnds == cancelled ~> (outcome = "interrupted" \/ pc = "dead")
=============================================================================
