---------------------------- MODULE LocalWatcher ----------------------------
(* The inotify watcher of local/local_watcher.cpp. The kernel queues what    *)
(* other processes do to the directory; watch() reads one buffer of events   *)
(* and turns it into directory entries, and what it holds between the two    *)
(* events of a pair it forgets when the buffer ends.                         *)
(*                                                                           *)
(* PairsTogether is what the comment on lines 128-137 relies on: the events  *)
(* of creating and opening a file, and those of a rename by link and unlink, *)
(* follow each other and come in one read. Without it other processes' events*)
(* come in between, and a read may end between them.                         *)
EXTENDS Integers, Sequences, SequencesExt

CONSTANTS
    Names,          \* the names used in the watched directory
    PairsTogether,  \* the assumption of the comment
    ReadMax,        \* events one read takes at most (10 or more in the code)
    QueueMax,       \* events the kernel keeps
    MaxOps,         \* bound: operations of the other processes
    MaxFaults       \* bound: calls that fail, thread interruptions

\* createdFile when it is std::nullopt, which is no name
NoName == "none"

ASSUME LocalWatcherAssumption ==
    /\ NoName \notin Names
    /\ PairsTogether \in BOOLEAN
    /\ ReadMax \in Nat \ {0, 1} /\ QueueMax \in Nat \ {0}
    /\ MaxOps \in Nat /\ MaxFaults \in Nat

VARIABLES
    entry,        \* what each name is now: "absent", "file" or "dir"
    stage,        \* how far another process is with it: "none", "created" (not
                  \* opened yet), "writing", "linked" or "leaving" (a rename by
                  \* link and unlink under way, its new and its old name)
    queue,        \* the kernel's event queue
    gone,         \* was the watched directory removed or moved?
    cancelled,    \* is cancelfd readable?
    pc, outcome,  \* "idle", "select" or "events"; how the last watch() ended
    batch,        \* the events of the buffer still to be looked at
    eventIndex, createdFileEventIndex, createdFile,
    result,       \* the entries collected, and whether each is of an arrival
    ops, faults,                     \* what the bounds count
    \* History, read by properties only. By name: files that arrived, those of
    \* them by link and unlink, and what is no arrival but looks like one,
    arrivals, renamed, strays,
    \* the returns for arrivals and the others, the arrivals whose events were
    \* lost, and how many calls returned since cancelfd became readable.
    reports, extra, lost, late

history == <<arrivals, renamed, strays>>
others == <<entry, stage, gone, ops, history>>
locals == <<batch, eventIndex, createdFileEventIndex, createdFile, result>>
returns == <<reports, extra, late>>
vars == <<others, queue, cancelled, pc, outcome, locals, faults, returns, lost>>

\* What inotify tells, and for the history the name whose IN_CREATE the event
\* belongs to: the IN_OPEN of that file, the IN_DELETE of its other name.
Second(mask, name, made) == [mask |-> mask, name |-> name, made |-> made]
Event(mask, name) == Second(mask, name, NoName)

Init ==
    /\ entry \in [Names -> {"absent", "file", "dir"}]
    /\ stage = [n \in Names |-> "none"]
    /\ queue = <<>> /\ gone = FALSE /\ cancelled = FALSE
    /\ pc = "idle" /\ outcome = "none"
    /\ batch = <<>> /\ eventIndex = 0 /\ createdFileEventIndex = -1
    /\ createdFile = NoName /\ result = <<>>
    /\ ops = 0 /\ faults = 0
    /\ arrivals = [n \in Names |-> 0] /\ renamed = arrivals /\ strays = arrivals
    /\ reports = arrivals /\ extra = arrivals /\ lost = arrivals /\ late = 0
-----------------------------------------------------------------------------
(* The other processes and the kernel's queue.                              *)

\* The arrivals that a sequence of events tells of.
Announced(events) ==
    [n \in Names |->
        Cardinality({k \in DOMAIN events :
            /\ events[k].name = n
            /\ \/ events[k].mask \in {"MOVED_TO", "CLOSE_WRITE"}
               \/ /\ events[k].mask = "CREATE" /\ k < Len(events)
                  /\ events[k + 1].mask = "DELETE" /\ events[k + 1].made = n})]

\* Their events were before, and only after is left of them.
Lose(before, after) ==
    lost' = [n \in Names |-> lost[n] + before[n] - after[n]]

None == [n \in Names |-> 0]

\* A full queue drops what comes, and says so once with IN_Q_OVERFLOW.
Emit(events) ==
    IF Len(queue) + Len(events) <= QueueMax
    THEN queue' = queue \o events /\ UNCHANGED lost
    ELSE /\ queue' = IF queue # <<>> /\ Last(queue).mask = "Q_OVERFLOW" THEN queue
                     ELSE Append(queue, Event("Q_OVERFLOW", NoName))
         /\ Lose(Announced(events), None)

Op ==
    /\ ops < MaxOps /\ ops' = ops + 1 /\ ~gone
    /\ UNCHANGED <<cancelled, pc, outcome, locals, faults, returns>>

Arrived(n) ==
    /\ arrivals' = [arrivals EXCEPT ![n] = @ + 1] /\ UNCHANGED <<renamed, strays>>

Renamed(n) ==
    /\ arrivals' = [arrivals EXCEPT ![n] = @ + 1]
    /\ renamed' = [renamed EXCEPT ![n] = @ + 1] /\ UNCHANGED strays

\* An event that watch() may take for an arrival, as those of a directory moved
\* in that goes away, and of an IN_CREATE that no second event follows.
Strayed(n) ==
    /\ strays' = [strays EXCEPT ![n] = @ + 1] /\ UNCHANGED <<arrivals, renamed>>

\* open(O_CREAT) makes two events, of which others' may come in between.
CreateFile(n) ==
    /\ Op /\ entry[n] = "absent" /\ stage[n] = "none"
    /\ entry' = [entry EXCEPT ![n] = "file"]
    /\ IF PairsTogether
       THEN /\ Emit(<<Event("CREATE", n), Second("OPEN", n, n)>>)
            /\ stage' = [stage EXCEPT ![n] = "writing"] /\ UNCHANGED history
       ELSE /\ Emit(<<Event("CREATE", n)>>)
            /\ stage' = [stage EXCEPT ![n] = "created"] /\ Strayed(n)
    /\ UNCHANGED gone

OpenFile(n) ==
    /\ Op
    /\ \/ stage[n] = "created" /\ Emit(<<Second("OPEN", n, n)>>)
       \/ entry[n] = "file" /\ stage[n] = "none" /\ Emit(<<Event("OPEN", n)>>)
    /\ stage' = [stage EXCEPT ![n] = "writing"]
    /\ UNCHANGED <<entry, gone, history>>

CloseFile(n) ==
    /\ Op /\ stage[n] = "writing"
    /\ Emit(<<Event("CLOSE_WRITE", n)>>)
    /\ stage' = [stage EXCEPT ![n] = "none"]
    /\ Arrived(n) /\ UNCHANGED <<entry, gone>>

\* rename(2) into the directory, or over a file of it
MoveIn(n) ==
    /\ Op /\ entry[n] # "dir" /\ stage[n] = "none"
    /\ Emit(<<Event("MOVED_TO", n)>>)
    /\ entry' = [entry EXCEPT ![n] = "file"]
    /\ Arrived(n) /\ UNCHANGED <<stage, gone>>

\* openssh's SSH_FXP_RENAME: link(old, new), then unlink(old)
Link(old, new) ==
    /\ Op /\ old # new
    /\ entry[old] = "file" /\ stage[old] = "none"
    /\ entry[new] = "absent" /\ stage[new] = "none"
    /\ IF PairsTogether
       THEN /\ Emit(<<Event("CREATE", new), Second("DELETE", old, new)>>)
            /\ entry' = [entry EXCEPT ![new] = "file", ![old] = "absent"]
            /\ Renamed(new) /\ UNCHANGED stage
       ELSE /\ Emit(<<Event("CREATE", new)>>)
            /\ entry' = [entry EXCEPT ![new] = "file"]
            /\ stage' = [stage EXCEPT ![new] = "linked", ![old] = "leaving"]
            /\ Strayed(new)
    /\ UNCHANGED gone

Unlink(old, new) ==
    /\ Op /\ old # new /\ stage[new] = "linked" /\ stage[old] = "leaving"
    /\ Emit(<<Second("DELETE", old, new)>>)
    /\ entry' = [entry EXCEPT ![old] = "absent"]
    /\ stage' = [stage EXCEPT ![new] = "none", ![old] = "none"]
    /\ Renamed(new) /\ UNCHANGED gone

DeleteFile(n) ==
    /\ Op /\ entry[n] = "file" /\ stage[n] = "none"
    /\ Emit(<<Event("DELETE", n)>>)
    /\ entry' = [entry EXCEPT ![n] = "absent"]
    /\ UNCHANGED <<stage, gone, history>>

\* rename(2) of a file or a directory to somewhere else; an rmdir is the same to
\* watch(), which makes nothing of IN_MOVED_FROM, nor of IN_DELETE with IN_ISDIR
MoveOut(n) ==
    /\ Op /\ entry[n] # "absent" /\ stage[n] = "none"
    /\ Emit(<<Event("MOVED_FROM", n)>>)
    /\ entry' = [entry EXCEPT ![n] = "absent"]
    /\ UNCHANGED <<stage, gone, history>>

\* symlink, mknod, or a link that no unlink follows: no second event
MakeNode(n) ==
    /\ Op /\ entry[n] = "absent" /\ stage[n] = "none"
    /\ Emit(<<Event("CREATE", n)>>)
    /\ entry' = [entry EXCEPT ![n] = "file"]
    /\ Strayed(n) /\ UNCHANGED <<stage, gone>>

\* mkdir: IN_CREATE with IN_ISDIR
MakeDir(n) ==
    /\ Op /\ entry[n] = "absent" /\ stage[n] = "none"
    /\ Emit(<<Event("CREATE|ISDIR", n)>>)
    /\ entry' = [entry EXCEPT ![n] = "dir"]
    /\ UNCHANGED <<stage, gone, history>>

\* rename(2) of a directory into this one, or over an empty one of it
MoveInDir(n) ==
    /\ Op /\ entry[n] # "file" /\ stage[n] = "none"
    /\ Emit(<<Event("MOVED_TO|ISDIR", n)>>)
    /\ entry' = [entry EXCEPT ![n] = "dir"]
    /\ Strayed(n) /\ UNCHANGED <<stage, gone>>

\* The watched directory is removed or moved away.
DirectoryGone ==
    /\ Op /\ gone' = TRUE
    /\ Emit(<<Event("SELF", NoName)>>)
    /\ UNCHANGED <<entry, stage, history>>

Cancel ==
    /\ ~cancelled /\ cancelled' = TRUE
    /\ UNCHANGED <<others, queue, pc, outcome, locals, faults, returns, lost>>

Others ==
    \/ Cancel \/ DirectoryGone
    \/ \E n \in Names : \/ CreateFile(n) \/ OpenFile(n) \/ CloseFile(n)
                        \/ MoveIn(n) \/ MoveOut(n) \/ DeleteFile(n) \/ MakeNode(n)
                        \/ MakeDir(n) \/ MoveInDir(n)
    \/ \E old, new \in Names : Link(old, new) \/ Unlink(old, new)
-----------------------------------------------------------------------------
(* watch().                                                                 *)

Watch ==
    /\ pc = "idle" /\ pc' = "select" /\ outcome' = "none"
    /\ UNCHANGED <<others, queue, cancelled, locals, faults, returns, lost>>

AfterCreate == eventIndex > 0 /\ eventIndex = createdFileEventIndex + 1
                /\ createdFile # NoName

\* The events watch() still knows of.
Held == IF AfterCreate /\ batch # <<>> THEN <<Event("CREATE", createdFile)>> \o batch
        ELSE batch

\* An entry to be returned, and for the history whether an arrival is its due.
Return(name, due) == [name |-> name, due |-> due]

Collected(due) ==
    [n \in Names |-> Cardinality({k \in DOMAIN result : result[k] = Return(n, due)})]

\* An exception leaves watch(): what was read and collected is lost.
Throw(error) ==
    /\ pc' = "idle" /\ outcome' = error
    /\ batch' = <<>> /\ result' = <<>>
    /\ Lose([n \in Names |-> Announced(Held)[n] + Collected(TRUE)[n]], None)
    /\ UNCHANGED <<others, queue, cancelled, eventIndex, createdFileEventIndex,
                   createdFile, returns>>

\* Mutant: inotifyfd is tested before cancelfd.
FirstReadableEvents ==
    IF queue # <<>> THEN "events" ELSE IF cancelled THEN "cancel" ELSE "nothing"

\* Mutant: cancelfd is not in the set given to select.
FirstReadableDeaf == IF queue # <<>> THEN "events" ELSE "nothing"

\* What select finds readable, in the order of the tests; it waits for something.
FirstReadable ==
    IF cancelled THEN "cancel" ELSE IF queue # <<>> THEN "events" ELSE "nothing"

SelectCancelled ==
    /\ pc = "select" /\ FirstReadable = "cancel"
    /\ Throw("interrupted") /\ UNCHANGED faults

\* select or read fails, or between two events the thread is interrupted, or
\* the entry of a noticed file cannot be read any more.
Fault ==
    /\ faults < MaxFaults /\ faults' = faults + 1
    /\ pc = "select" \/ (pc = "events" /\ batch # <<>>)
    /\ Throw("fault")

\* read(): the queued events as far as the buffer holds them; events differ in
\* length, so a buffer that is too small for all takes one more or one less.
SplitsPair(k) ==
    k < Len(queue) /\ queue[k].mask = "CREATE" /\ queue[k + 1].made = queue[k].name

Read ==
    /\ pc = "select" /\ FirstReadable = "events"
    /\ \E k \in 1..Len(queue) :
          /\ k = Len(queue) \/ k \in {ReadMax - 1, ReadMax}
          /\ k <= ReadMax
          /\ PairsTogether => ~SplitsPair(k)
          /\ batch' = SubSeq(queue, 1, k)
          /\ queue' = SubSeq(queue, k + 1, Len(queue))
    /\ pc' = "events"
    /\ eventIndex' = 0 /\ createdFileEventIndex' = -1 /\ createdFile' = NoName
    /\ result' = <<>>
    /\ UNCHANGED <<others, cancelled, outcome, faults, returns, lost>>

\* The watched directory itself is gone.
SelfEvent ==
    /\ pc = "events" /\ batch # <<>> /\ Head(batch).mask = "SELF"
    /\ Throw("gone") /\ UNCHANGED faults

NextEvent(keep) ==
    /\ batch' = Tail(batch) /\ eventIndex' = eventIndex + 1
    /\ IF keep THEN UNCHANGED <<createdFile, createdFileEventIndex>>
       ELSE createdFile' = NoName /\ createdFileEventIndex' = -1
    /\ UNCHANGED <<others, queue, cancelled, pc, outcome, faults, returns>>

\* No name, a directory by now, or an event that means nothing.
SkipEvent ==
    /\ pc = "events" /\ batch # <<>>
    /\ LET e == Head(batch) IN
          \/ e.mask = "Q_OVERFLOW"
          \/ e.name # NoName /\ entry[e.name] = "dir"
          \/ e.mask \in {"MOVED_FROM", "CREATE|ISDIR"}
          \/ e.mask = "OPEN" /\ ~(AfterCreate /\ createdFile = e.name)
          \/ e.mask = "DELETE" /\ ~(AfterCreate /\ createdFile # e.name)
    /\ Lose(Announced(Held), Announced(Tail(batch)))
    /\ NextEvent(TRUE) /\ UNCHANGED result

\* The event at hand is one of a file, or of nothing any more.
FileEvent(mask) ==
    /\ pc = "events" /\ batch # <<>>
    /\ Head(batch).mask = mask /\ entry[Head(batch).name] # "dir"

\* Mutant: the name is remembered without its index.
CreateEventNoIndex ==
    /\ FileEvent("CREATE")
    /\ createdFile' = Head(batch).name /\ UNCHANGED createdFileEventIndex
    /\ batch' = Tail(batch) /\ eventIndex' = eventIndex + 1
    /\ UNCHANGED <<others, queue, cancelled, pc, outcome, result, faults,
                   returns, lost>>

\* IN_CREATE is remembered, for the event that follows.
CreateEvent ==
    /\ FileEvent("CREATE")
    /\ createdFile' = Head(batch).name /\ createdFileEventIndex' = eventIndex
    /\ batch' = Tail(batch) /\ eventIndex' = eventIndex + 1
    /\ UNCHANGED <<others, queue, cancelled, pc, outcome, result, faults,
                   returns, lost>>

\* IN_OPEN right after the file's own IN_CREATE: it is being written.
OpenEvent ==
    /\ FileEvent("OPEN")
    /\ AfterCreate /\ createdFile = Head(batch).name
    /\ NextEvent(FALSE) /\ UNCHANGED <<result, lost>>

\* IN_MOVED_TO or IN_CLOSE_WRITE, among other bits of the mask. What was moved in
\* as a directory and is none now is noticed too: the entry may be of no file.
Notice ==
    /\ FileEvent("MOVED_TO") \/ FileEvent("CLOSE_WRITE") \/ FileEvent("MOVED_TO|ISDIR")
    /\ result' = Append(result, Return(Head(batch).name, Head(batch).mask # "MOVED_TO|ISDIR"))

\* Mutant: one file ends the search, the rest of the buffer is dropped.
ArrivalEventLast ==
    /\ Notice
    /\ batch' = <<>> /\ eventIndex' = eventIndex + 1
    /\ UNCHANGED <<others, queue, cancelled, pc, outcome, createdFile,
                   createdFileEventIndex, faults, returns, lost>>

ArrivalEvent ==
    /\ Notice /\ NextEvent(TRUE) /\ UNCHANGED lost

\* Mutant: the entry of the old name is returned.
DeleteEventOldName ==
    /\ FileEvent("DELETE")
    /\ AfterCreate /\ createdFile # Head(batch).name
    /\ result' = Append(result, Return(Head(batch).name, FALSE))
    /\ NextEvent(FALSE) /\ UNCHANGED lost

\* IN_DELETE right after the IN_CREATE of another name: a rename to it, whether
\* or not the two have to do with each other.
DeleteEvent ==
    /\ FileEvent("DELETE")
    /\ AfterCreate /\ createdFile # Head(batch).name
    /\ result' = Append(result, Return(createdFile, Head(batch).made = createdFile))
    /\ NextEvent(FALSE) /\ UNCHANGED lost

WatchReturns ==
    /\ pc = "events" /\ batch = <<>>
    /\ pc' = "idle" /\ outcome' = "returned"
    /\ reports' = [n \in Names |-> reports[n] + Collected(TRUE)[n]]
    /\ extra' = [n \in Names |-> extra[n] + Collected(FALSE)[n]]
    /\ late' = IF cancelled THEN late + 1 ELSE late
    /\ result' = <<>>
    /\ UNCHANGED <<others, queue, cancelled, batch, eventIndex,
                   createdFileEventIndex, createdFile, faults, lost>>

Watcher ==
    \/ Watch \/ SelectCancelled \/ Fault \/ Read
    \/ SelfEvent \/ SkipEvent \/ CreateEvent \/ OpenEvent \/ ArrivalEvent
    \/ DeleteEvent \/ WatchReturns

Next == Watcher \/ Others

\* The watching thread runs, and the application calls watch() again and again.
Fairness == WF_vars(Watcher)

Spec == Init /\ [][Next]_vars /\ Fairness
-----------------------------------------------------------------------------
(* Properties.                                                              *)

\* The variables stay in their types.
TypeOK ==
    /\ entry \in [Names -> {"absent", "file", "dir"}]
    /\ stage \in [Names -> {"none", "created", "writing", "linked", "leaving"}]
    /\ Len(queue) <= QueueMax + 1 /\ Len(batch) <= ReadMax
    /\ pc \in {"idle", "select", "events"}
    /\ outcome \in {"none", "returned", "interrupted", "fault", "gone"}
    /\ createdFile \in Names \cup {NoName}
    /\ createdFileEventIndex \in -1..ReadMax /\ eventIndex \in 0..ReadMax
    /\ createdFile # NoName <=> createdFileEventIndex # -1
    /\ result \in Seq([name : Names, due : BOOLEAN])
    /\ \A count \in {arrivals, renamed, strays, reports, extra} : count \in [Names -> Nat]

\* What a watcher promises: see Feed. A file is returned when it was closed
\* after writing or was moved in (lines 107-108), and once for that. What else
\* is returned is, once, what the events of another process could be taken for.
F == INSTANCE Feed
S == INSTANCE Feed WITH arrivals <- strays, reports <- extra
FeedSpec == F!Spec /\ S!Spec

\* Once the watcher has caught up with the kernel it has returned every file
\* that arrived, and once, except those whose events it never got to: the queue
\* was full, they were in a buffer whose watch() ended with an exception, or the
\* name was a directory by the time they were looked at. Nothing else is lost,
\* between the reads, in the pairing, or after one of these; and nothing else is
\* returned but a directory moved in that is none any more, and a name whose
\* lone IN_CREATE the IN_DELETE of another followed (each once).
CaughtUp ==
    pc = "idle" /\ queue = <<>> =>
        \A n \in Names : reports[n] + lost[n] = arrivals[n] /\ extra[n] <= strays[n]

\* Also when pairs are torn apart: a file that was closed after writing or moved
\* in by rename(2) is not missed, only a rename by link and unlink may be; and no
\* arrival is returned twice, even if its events are read apart.
WrittenNeverMissed ==
    pc = "idle" /\ queue = <<>> =>
        \A n \in Names : /\ reports[n] + lost[n] >= arrivals[n] - renamed[n]
                          /\ reports[n] + lost[n] <= arrivals[n]

\* Files that are moved or renamed into the directory are noticed (lines 107-108),
\* a rename by link and unlink included (lines 128-137).
RenamesNoticed ==
    pc = "idle" /\ queue = <<>> =>
        \A n \in Names : reports[n] + lost[n] >= arrivals[n]

\* Every file that arrives is returned by some watch(), or was among those lost.
ArrivalsReported ==
    \A n \in Names : \A k \in 1..MaxOps :
        arrivals[n] >= k ~> (reports[n] + lost[n] >= k \/ cancelled)

\* However many events are queued, at most one call returns once cancelfd is
\* readable: the one that had found it unreadable (lines 195-204).
CancelIsPrompt == late <= 1

\* Making cancelfd readable ends watch() with interrupted_exception, also a watch()
\* that waits for events (i_access.h:61-66).
CancelEnds == cancelled ~> outcome = "interrupted"
=============================================================================
