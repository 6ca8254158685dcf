-------------------------------- MODULE Feed --------------------------------
(* What a directory watcher (i_watcher) promises: it tells of a file only   *)
(* after the file arrived, and never twice of one arrival. How files arrive *)
(* and when a watcher notices is left open. SftpWatcher keeps this promise of *)
(* the files that come, LocalWatcher of these and, with counts of their own, *)
(* of the events that look like an arrival and are none.                     *)
EXTENDS Naturals

CONSTANT Names

VARIABLES
    arrivals,   \* how many times a file of each name arrived
    reports     \* how many times watch() has returned each name

Init ==
    /\ arrivals \in [Names -> Nat]
    /\ reports = [n \in Names |-> 0]

Arrive(n) ==
    /\ arrivals' = [arrivals EXCEPT ![n] = @ + 1]
    /\ UNCHANGED reports

\* watch() returns: the arrivals it tells of had not all been told before.
Report ==
    /\ reports' \in [Names -> Nat]
    /\ \A n \in Names : reports[n] <= reports'[n] /\ reports'[n] <= arrivals[n]
    /\ UNCHANGED arrivals

Next == (\E n \in Names : Arrive(n)) \/ Report

Spec == Init /\ [][Next]_<<arrivals, reports>>
=============================================================================
