------------------------ MODULE SftpWatcher_proofs --------------------------
(* The polling watcher reports every arrival at most once, for any names,   *)
(* any number of changes in the middle of listings, and any failures.       *)
EXTENDS SftpWatcher, TLAPS

\* What a name that is not known, or is known and came back during this very
\* listing, has to its credit: an arrival that was not reported yet.
Unreported ==
    \A n \in Names :
        /\ reports[n] <= arrivals[n]
        /\ n \notin files_ /\ n \in present \cup may \cup listed
              => reports[n] < arrivals[n]
        /\ pc = "listing" /\ n \in present /\ n \notin must \cup listed
              => reports[n] < arrivals[n]

IInv == TypeOK /\ Unreported /\ KnownWasReported

\* Before the constructor has listed anything nothing is known or reported.
LEMMA InitIInv == Init => IInv
<1> SUFFICES ASSUME Init PROVE IInv
  OBVIOUS
<1> USE SftpWatcherAssumption DEF Init
<1>1. TypeOK
  <2>1. arrivals \in [Names -> Nat] /\ reports \in [Names -> Nat]
    OBVIOUS
  <2>2. changes \in 0..MaxChanges /\ faults \in 0..MaxFaults
    OBVIOUS
  <2>3. /\ present \subseteq Names /\ files_ = {} /\ baseline = {}
        /\ must = {} /\ may = {} /\ listed = {}
    OBVIOUS
  <2> HIDE SftpWatcherAssumption
  <2> QED BY <2>1, <2>2, <2>3 DEF TypeOK
<1>2. Unreported
  BY DEF Unreported
<1> QED BY <1>1, <1>2 DEF IInv, KnownWasReported

\* Every step preserves the types.
LEMMA TypeStep == TypeOK /\ [Next]_vars => TypeOK'
<1> SUFFICES ASSUME TypeOK, [Next]_vars PROVE TypeOK'
  OBVIOUS
<1> USE SftpWatcherAssumption DEF TypeOK, directory, scan, signals
<1>1. CASE ThrowIfInterrupted
  BY <1>1 DEF ThrowIfInterrupted, Throw
<1>2. CASE Fault
  BY <1>2 DEF Fault, Throw
<1>3. CASE Watch
  BY <1>3 DEF Watch
<1>4. CASE OpenDir
  BY <1>4 DEF OpenDir
<1>5. CASE ReadDir
  BY <1>5 DEF ReadDir, Throw
<1>6. CASE ReadDirEof
  BY <1>6 DEF ReadDirEof
<1>7. CASE Interrupt \/ Cancel
  BY <1>7 DEF Interrupt, Cancel
<1>8. ASSUME NEW n \in Names, Create(n) PROVE TypeOK'
  BY <1>8 DEF Create
<1>9. ASSUME NEW n \in Names, Remove(n) PROVE TypeOK'
  BY <1>9 DEF Remove
<1>10. CASE UNCHANGED vars
  BY <1>10 DEF vars
<1> QED BY <1>1, <1>2, <1>3, <1>4, <1>5, <1>6, <1>7, <1>8, <1>9, <1>10
        DEF Next, Watcher, Others

\* A name the watcher does not know, or that this listing met after an absence,
\* has an arrival that was not reported yet.
LEMMA UnreportedStep == IInv /\ [Next]_vars => Unreported'
<1> SUFFICES ASSUME IInv, [Next]_vars, NEW n \in Names
             PROVE  /\ reports'[n] <= arrivals'[n]
                    /\ n \notin files_' /\ n \in present' \cup may' \cup listed'
                          => reports'[n] < arrivals'[n]
                    /\ pc' = "listing" /\ n \in present' /\ n \notin must' \cup listed'
                          => reports'[n] < arrivals'[n]
  BY DEF Unreported
<1>1. arrivals[n] \in Nat /\ reports[n] \in Nat
  BY DEF IInv, TypeOK
<1> USE <1>1 DEF IInv, Unreported, directory, scan, signals
<1>2. CASE ThrowIfInterrupted \/ Fault
  BY <1>2 DEF ThrowIfInterrupted, Fault, Throw
<1>3. CASE Watch \/ Interrupt \/ Cancel
  BY <1>3 DEF Watch, Interrupt, Cancel
<1>4. CASE OpenDir
  BY <1>4 DEF OpenDir
<1>5. CASE ReadDir
  BY <1>5 DEF ReadDir, Throw
<1>6. CASE ReadDirEof
  <2>1. /\ files_' = listed /\ must = {} /\ pc = "listing" /\ pc' = "idle"
        /\ may' = {} /\ listed' = {} /\ present' = present /\ arrivals' = arrivals
    BY <1>6 DEF ReadDirEof
  <2>2. reports'[n] = reports[n]
        \/ (n \in listed \ files_ /\ reports'[n] = reports[n] + 1)
    BY <1>6 DEF ReadDirEof
  <2>3. n \notin listed => reports'[n] = reports[n]
    BY <2>2
  <2> QED BY <2>1, <2>2, <2>3
<1>7. ASSUME NEW m \in Names, Create(m)
      PROVE  /\ reports' = reports /\ arrivals' = [arrivals EXCEPT ![m] = @ + 1]
             /\ files_' = files_ /\ pc' = pc /\ must' = must /\ listed' = listed
             /\ present' = present \cup {m} /\ may' \subseteq may \cup {m}
  BY <1>7 DEF Create
<1>8. ASSUME NEW m \in Names, Create(m)
      PROVE  /\ n = m => arrivals'[n] = arrivals[n] + 1
             /\ n # m => arrivals'[n] = arrivals[n]
  BY <1>7, <1>8 DEF TypeOK
<1>9. ASSUME NEW m \in Names, Remove(m)
      PROVE  /\ UNCHANGED <<reports, arrivals, files_, pc, listed, may>>
             /\ present' = present \ {m} /\ must' = must \ {m}
  BY <1>9 DEF Remove
<1>10. CASE UNCHANGED vars
  BY <1>10 DEF vars
<1>11. CASE \E m \in Names : Create(m)
  BY <1>7, <1>8, <1>11
<1>12. CASE \E m \in Names : Remove(m)
  BY <1>9, <1>12
<1> QED BY <1>2, <1>3, <1>4, <1>5, <1>6, <1>10, <1>11, <1>12
        DEF Next, Watcher, Others

\* files_ changes only with a complete listing, whose new names are reported.
LEMMA KnownStep == IInv /\ [Next]_vars => KnownWasReported'
<1> SUFFICES ASSUME IInv, [Next]_vars PROVE KnownWasReported'
  OBVIOUS
<1> USE DEF IInv, KnownWasReported, directory, scan, signals
<1>1. CASE UNCHANGED <<files_, baseline, reports>>
  BY <1>1
<1>2. CASE ReadDirEof
  BY <1>2 DEF ReadDirEof, TypeOK
<1>3. CASE Watcher /\ ~ReadDirEof
  BY <1>1, <1>3
  DEF Watcher, ThrowIfInterrupted, Fault, Throw, Watch, OpenDir, ReadDir
<1>4. CASE Others
  BY <1>1, <1>4 DEF Others, Interrupt, Cancel, Create, Remove
<1>5. CASE UNCHANGED vars
  BY <1>1, <1>5 DEF vars
<1> QED BY <1>2, <1>3, <1>4, <1>5 DEF Next

\* The variables of the watcher stay in their types.
THEOREM TypeCorrect == Spec => []TypeOK
<1>1. Init => TypeOK
  BY InitIInv DEF IInv
<1> QED BY <1>1, TypeStep, PTL DEF Spec

\* The inductive invariant holds in every state of every run.
THEOREM IInvHolds == Spec => []IInv
<1>1. IInv /\ [Next]_vars => IInv'
  BY TypeStep, UnreportedStep, KnownStep DEF IInv
<1> QED BY <1>1, InitIInv, PTL DEF Spec

\* No listing that failed takes a new name into files_ without a report.
THEOREM KnownReported == Spec => []KnownWasReported
<1>1. IInv => KnownWasReported
  BY DEF IInv
<1> QED BY <1>1, IInvHolds, PTL

\* The watcher implements the abstract feed: a name is reported only after an
\* arrival, and at most once for it.
THEOREM ImplementsFeed == Spec => FeedSpec
<1>1. Init => F!Init
  BY DEF Init, F!Init
<1>2. IInv /\ [Next]_vars => [F!Next]_<<arrivals, reports>>
  <2> SUFFICES ASSUME IInv, [Next]_vars,
                      ~(UNCHANGED <<arrivals, reports>>)
               PROVE  F!Next
    OBVIOUS
  <2> USE DEF directory, scan, signals
  <2>1. ASSUME NEW n \in Names, Create(n) PROVE F!Arrive(n)
    BY <2>1 DEF Create, F!Arrive
  <2>2. CASE ReadDirEof
    <3>1. /\ listed \ files_ \subseteq Names
          /\ reports \in [Names -> Nat] /\ arrivals \in [Names -> Nat]
      BY DEF IInv, TypeOK
    <3>2. /\ reports' \in [Names -> Nat] /\ UNCHANGED arrivals
          /\ \A n \in Names : reports'[n] =
                IF n \in listed \ files_ /\ ready THEN reports[n] + 1 ELSE reports[n]
      BY <2>2, <3>1 DEF ReadDirEof
    <3>3. F!Report
      BY <3>1, <3>2 DEF F!Report, IInv, Unreported
    <3> QED BY <3>3 DEF F!Next
  <2>3. CASE Watcher /\ ~ReadDirEof
    BY <2>3
    DEF Watcher, ThrowIfInterrupted, Fault, Throw, Watch, OpenDir, ReadDir
  <2>4. CASE Others
    BY <2>1, <2>4 DEF Others, Interrupt, Cancel, Remove, F!Next
  <2> QED BY <2>2, <2>3, <2>4 DEF Next, vars
<1> QED BY <1>1, <1>2, IInvHolds, PTL DEF Spec, FeedSpec, F!Spec
=============================================================================
