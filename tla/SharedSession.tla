---------------------------- MODULE SharedSession ----------------------------
(* What an SFTP access, its files and its watchers promise about the session *)
(* that they share: it stays while the application has any of them, no       *)
(* handle on it is left when it goes, and it goes when nobody has it.        *)

CONSTANTS
    Objects,  \* the access, the files and the watchers
    Listing   \* the handle of the directory that is being listed

VARIABLES
    alive,    \* there is a session
    held,     \* the objects the application has
    open      \* the handles on the session that are open, by their object

vars == <<alive, held, open>>

Init == alive = FALSE /\ held = {} /\ open = {}

Make == ~alive /\ alive' = TRUE /\ UNCHANGED <<held, open>>

\* The application gets an object, which may come with a handle; a watcher comes
\* at the end of a listing.
Receive(o) ==
    /\ alive /\ UNCHANGED alive
    /\ held' = held \cup {o}
    /\ open' \in {open, open \cup {o}, open \ {Listing}}

List == alive /\ held # {} /\ open' = open \cup {Listing} /\ UNCHANGED <<alive, held>>

EndList == alive /\ open' = open \ {Listing} /\ UNCHANGED <<alive, held>>

Drop(o) == held' = held \ {o} /\ open' = open \ {o} /\ UNCHANGED alive

Free ==
    /\ alive /\ alive' = FALSE
    /\ held = {} /\ open = {} /\ UNCHANGED <<held, open>>

Next ==
    \/ Make \/ List \/ EndList \/ Free
    \/ \E o \in Objects : Receive(o) \/ Drop(o)

Spec == Init /\ [][Next]_vars

Liveness == WF_vars(Free)
=============================================================================
