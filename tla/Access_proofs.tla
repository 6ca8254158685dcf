---------------------------- MODULE Access_proofs ----------------------------
(* mkdir makes its directory or has a cause to refuse, what is said to be     *)
(* absent was, and every operation leaves a tree, for any clients, local or   *)
(* remote, trees and calls.                                                   *)
EXTENDS Access, Paths_proofs

Wants == [path : AllPaths, slash : BOOLEAN, parents : BOOLEAN]

\* A stack of directories to make, the one that was asked for at its bottom.
StackFor(s, path) == s \in Seq(Wants) /\ s # <<>> /\ s[Len(s)].path = path

\* What ties the variables of a client together during a call: it has no outcome
\* yet, and the tree still has what it had at the start, unless another client
\* took it away.
DuringCall(c) ==
    pending[c] # <<>> =>
        /\ outcome[c] = "none" /\ StackFor(pending[c], call[c].path)
        /\ disturbed[c] \/ DOMAIN start[c] \subseteq DOMAIN fs

IInv ==
    /\ call \in [Clients -> Calls] /\ outcome \in [Clients -> Outcomes]
    /\ DOMAIN pending = Clients /\ DOMAIN start = Clients
    /\ DOMAIN disturbed = Clients /\ DOMAIN misled = Clients
    /\ \A c \in Clients : DuringCall(c)
    /\ AbsentWasAbsent
-----------------------------------------------------------------------------
(* Stacks.                                                                   *)

\* The first directory is made, others are left.
LEMMA TailOfStack ==
    ASSUME NEW s, NEW path, StackFor(s, path), Len(s) # 1
    PROVE  StackFor(Tail(s), path)
  <1>1. /\ Tail(s) \in Seq(Wants) /\ Len(Tail(s)) = Len(s) - 1 /\ Len(s) > 1
        /\ \A k \in 1..(Len(s) - 1) : Tail(s)[k] = s[k + 1]
    BY DEF StackFor
  <1>2. Len(s) - 1 \in 1..(Len(s) - 1) /\ (Len(s) - 1) + 1 = Len(s)
    BY <1>1 DEF StackFor
  <1>3. Tail(s)[Len(s) - 1] = s[Len(s)]
    BY <1>1, <1>2
  <1>4. Tail(s) # <<>>
    BY <1>1, <1>2, SMTT(30)
  <1> QED  BY <1>1, <1>3, <1>4 DEF StackFor

\* The first directory has to wait for its parents.
LEMMA ParentsOnStack ==
    ASSUME NEW s, NEW path, StackFor(s, path), NEW parent \in Wants,
           NEW again \in Wants, again.path = Head(s).path
    PROVE  StackFor(<<parent, again>> \o Tail(s), path)
  <1> DEFINE t == <<parent, again>> \o Tail(s)
  <1>1. /\ Tail(s) \in Seq(Wants) /\ Len(Tail(s)) = Len(s) - 1 /\ Len(s) >= 1
        /\ \A k \in 1..(Len(s) - 1) : Tail(s)[k] = s[k + 1]
    BY DEF StackFor
  <1>2. <<parent, again>> \in Seq(Wants) /\ Len(<<parent, again>>) = 2
    OBVIOUS
  <1>3. /\ t \in Seq(Wants) /\ Len(t) = Len(s) + 1
        /\ t[2] = again
        /\ \A k \in 1..(Len(s) - 1) : t[k + 2] = Tail(s)[k]
    BY <1>1, <1>2
  <1>4. t[Len(t)].path = path
    <2>1. CASE Len(s) = 1
      BY <1>3, <2>1 DEF StackFor
    <2>2. CASE Len(s) # 1
      <3>1. Len(s) - 1 \in 1..(Len(s) - 1) /\ (Len(s) - 1) + 2 = Len(s) + 1
        BY <1>1, <2>2 DEF StackFor
      <3>2. t[Len(s) + 1] = s[(Len(s) - 1) + 1]
        BY <1>1, <1>3, <3>1
      <3> QED  BY <1>1, <1>3, <3>2 DEF StackFor
    <2> QED  BY <2>1, <2>2
  <1> HIDE DEF t
  <1>5. StackFor(t, path)
    BY <1>1, <1>3, <1>4 DEF StackFor
  <1> QED  BY <1>5 DEF t
-----------------------------------------------------------------------------
(* Steps.                                                                    *)

\* Whoever takes something out of the tree, those at work are told.
Watched(c) ==
    \/ DOMAIN fs \subseteq DOMAIN fs' /\ UNCHANGED disturbed
    \/ Took(c)

MisledOnly(c) == misled' \in {misled, [misled EXCEPT ![c] = slot'[c] = "NO_SUCH_FILE"]}

\* The other clients.
LEMMA OthersKeep ==
    ASSUME IInv, NEW c \in Clients, NEW d \in Clients, d # c,
           Watched(c), pending'[d] = pending[d], outcome'[d] = outcome[d],
           start'[d] = start[d], call'[d] = call[d], misled'[d] = misled[d]
    PROVE  /\ DuringCall(d)'
           /\ outcome'[d] = "absent" => \/ call'[d].path \notin DOMAIN start'[d]
                                        \/ disturbed'[d] \/ misled'[d]
  <1>1. disturbed[d] => disturbed'[d]
    BY DEF Watched, Took, Others
  <1>2. pending[d] # <<>> => disturbed'[d] \/ DOMAIN fs \subseteq DOMAIN fs'
    BY DEF Watched, Took, Others
  <1>3. DuringCall(d)
    BY DEF IInv
  <1>4. outcome[d] = "absent" => \/ call[d].path \notin DOMAIN start[d]
                                 \/ disturbed[d] \/ misled[d]
    BY DEF IInv, AbsentWasAbsent
  <1>5. DuringCall(d)'
    BY <1>1, <1>2, <1>3 DEF DuringCall
  <1> QED  BY <1>1, <1>4, <1>5

\* A call ends.
LEMMA EndKeeps ==
    ASSUME IInv, NEW c \in Clients, NEW how \in Outcomes, End(c, how), Watched(c),
           UNCHANGED <<call, start>>, MisledOnly(c),
           how = "absent" => \/ call[c].path \notin DOMAIN start[c]
                             \/ disturbed[c] \/ misled'[c]
    PROVE  IInv'
  <1>1. /\ call' \in [Clients -> Calls] /\ outcome' \in [Clients -> Outcomes]
        /\ DOMAIN pending' = Clients /\ DOMAIN start' = Clients
        /\ DOMAIN disturbed' = Clients /\ DOMAIN misled' = Clients
    BY DEF IInv, End, Watched, Took, Others, MisledOnly
  <1>2. pending'[c] = <<>> /\ outcome'[c] = how
    BY DEF IInv, End
  <1>3. disturbed[c] => disturbed'[c]
    BY DEF IInv, Watched, Took, Others
  <1>4. ASSUME NEW d \in Clients, d # c
        PROVE  /\ DuringCall(d)'
               /\ outcome'[d] = "absent" => \/ call'[d].path \notin DOMAIN start'[d]
                                            \/ disturbed'[d] \/ misled'[d]
    <2>1. /\ pending'[d] = pending[d] /\ outcome'[d] = outcome[d]
          /\ misled'[d] = misled[d]
      BY <1>4 DEF IInv, End, MisledOnly
    <2> QED  BY <1>4, <2>1, OthersKeep
  <1>5. DuringCall(c)'
    BY <1>2 DEF DuringCall
  <1>6. AbsentWasAbsent'
    BY <1>2, <1>3, <1>4 DEF AbsentWasAbsent
  <1> QED  BY <1>1, <1>4, <1>5, <1>6 DEF IInv

\* A call goes on; the tree only grows.
LEMMA GoKeeps ==
    ASSUME IInv, NEW c \in Clients, pending[c] # <<>>, NEW s,
           StackFor(s, call[c].path), pending' = [pending EXCEPT ![c] = s],
           UNCHANGED <<call, start, outcome, disturbed>>, MisledOnly(c),
           DOMAIN fs \subseteq DOMAIN fs'
    PROVE  IInv'
  <1>1. /\ call' \in [Clients -> Calls] /\ outcome' \in [Clients -> Outcomes]
        /\ DOMAIN pending' = Clients /\ DOMAIN start' = Clients
        /\ DOMAIN disturbed' = Clients /\ DOMAIN misled' = Clients
    BY DEF IInv, MisledOnly
  <1>2. pending'[c] = s /\ DuringCall(c)
    BY DEF IInv
  <1>3. DuringCall(c)' /\ outcome'[c] # "absent"
    BY <1>2 DEF DuringCall
  <1>4. ASSUME NEW d \in Clients, d # c
        PROVE  /\ DuringCall(d)'
               /\ outcome'[d] = "absent" => \/ call'[d].path \notin DOMAIN start'[d]
                                            \/ disturbed'[d] \/ misled'[d]
    <2>1. pending'[d] = pending[d] /\ misled'[d] = misled[d] /\ Watched(c)
      BY <1>4 DEF IInv, MisledOnly, Watched
    <2> QED  BY <1>4, <2>1, OthersKeep
  <1>5. AbsentWasAbsent'
    BY <1>3, <1>4 DEF AbsentWasAbsent
  <1> QED  BY <1>1, <1>3, <1>4, <1>5 DEF IInv

\* The directory at the top is there: the call returns, or goes on with the next.
LEMMA NextKeeps ==
    ASSUME IInv, NEW c \in Clients, pending[c] # <<>>, Next_(c),
           UNCHANGED <<call, start, disturbed>>, MisledOnly(c),
           DOMAIN fs \subseteq DOMAIN fs'
    PROVE  /\ IInv'
           /\ outcome[c] # "returned"
           /\ outcome'[c] = "returned" => Top(c).path = call[c].path
  <1>1. StackFor(pending[c], call[c].path) /\ outcome[c] = "none"
    BY DEF IInv, DuringCall
  <1>2. CASE Len(pending[c]) = 1
    <2>1. End(c, "returned") /\ "returned" \in Outcomes
      BY <1>2 DEF Next_, Outcomes
    <2>2. Watched(c)
      BY DEF Watched
    <2> QED  BY <1>1, <1>2, <2>1, <2>2, EndKeeps DEF StackFor, Top
  <1>3. CASE Len(pending[c]) # 1
    <2>1. StackFor(Tail(pending[c]), call[c].path)
      BY <1>1, <1>3, TailOfStack
    <2>2. /\ pending' = [pending EXCEPT ![c] = Tail(pending[c])]
          /\ UNCHANGED outcome
      BY <1>3 DEF Next_
    <2> QED  BY <1>1, <2>1, <2>2, GoKeeps
  <1> QED  BY <1>2, <1>3

\* The parents are made first.
LEMMA ParentsKeep ==
    ASSUME IInv, NEW c \in Clients, pending[c] # <<>>, Parents(c),
           UNCHANGED <<call, start, disturbed>>, MisledOnly(c),
           DOMAIN fs \subseteq DOMAIN fs'
    PROVE  IInv' /\ outcome' = outcome
  <1>1. StackFor(pending[c], call[c].path) /\ Top(c) \in Wants
    BY DEF IInv, DuringCall, StackFor, Top
  <1>2. Parent(Top(c)) \in AllPaths
    BY <1>1 DEF Wants, Parent, parent_path, Front, AllPaths
  <1>3. Want(Parent(Top(c)), FALSE, TRUE) \in Wants
    BY <1>2 DEF Want, Wants
  <1>4. /\ [Top(c) EXCEPT !.parents = FALSE] \in Wants
        /\ [Top(c) EXCEPT !.parents = FALSE].path = Head(pending[c]).path
    BY <1>1 DEF Wants, Top
  <1> DEFINE s == <<Want(Parent(Top(c)), FALSE, TRUE),
                    [Top(c) EXCEPT !.parents = FALSE]>> \o Tail(pending[c])
  <1>5. StackFor(s, call[c].path)
    BY <1>1, <1>3, <1>4, ParentsOnStack
  <1>6. pending' = [pending EXCEPT ![c] = s] /\ outcome' = outcome
    BY DEF Parents
  <1> HIDE DEF s
  <1> QED  BY <1>5, <1>6, GoKeeps

\* A request to make a directory has failed.
LEMMA RecurseKeeps ==
    ASSUME IInv, NEW c \in Clients, pending[c] # <<>>, NEW how \in {"refused", "fault"},
           Recurse(c, how), UNCHANGED <<call, start, disturbed>>, MisledOnly(c),
           DOMAIN fs \subseteq DOMAIN fs'
    PROVE  IInv' /\ outcome'[c] # "returned"
  <1>1. outcome[c] = "none" /\ how \in Outcomes /\ Watched(c)
    BY DEF IInv, DuringCall, Outcomes, Watched
  <1>2. CASE Parents(c)
    BY <1>1, <1>2, ParentsKeep
  <1>3. CASE End(c, how)
    BY <1>1, <1>3, EndKeeps DEF End, IInv
  <1> QED  BY <1>2, <1>3 DEF Recurse

\* What mkdir returns to is a directory.
Makes(c) ==
    call[c].op = "mkdir" /\ outcome[c] = "none" /\ outcome'[c] = "returned"
        => IsDir(fs', call[c].path)

\* A directory that is made is there, and so is what was.
LEMMA PutGrows ==
    ASSUME NEW tree, NEW p
    PROVE  DOMAIN tree \subseteq DOMAIN Put(tree, p, Dir) /\ IsDir(Put(tree, p, Dir), p)
  BY DEF Put, IsDir

\* Every step of a client keeps IInv and makes what mkdir says.
LEMMA ClientStep ==
    ASSUME IInv, NEW c \in Clients,
           \/ ThrowIfInterrupted(c) \/ Fault(c) \/ Stat(c) \/ RemovePath(c)
           \/ Rename(c) \/ SftpMkdir(c) \/ LocalMkdir(c)
           \/ AskedInVain(c) \/ RequestLost(c) \/ MkdirLost(c)
    PROVE  IInv' /\ Makes(c)
  <1>1. pending[c] # <<>> /\ UNCHANGED <<call, start>>
    BY DEF ThrowIfInterrupted, Fault, Stat, Asks, RemovePath, Rename, SftpMkdir,
       LocalMkdir, AskedInVain, RequestLost, MkdirLost, At
  <1>2. CASE ThrowIfInterrupted(c)
    BY <1>1, <1>2, EndKeeps DEF ThrowIfInterrupted, Touched, Watched, MisledOnly,
       Outcomes, End, Makes, IInv
  <1>3. CASE Fault(c)
    BY <1>1, <1>3, EndKeeps DEF Fault, Touched, Watched, MisledOnly, Outcomes, End,
       Makes, IInv
  <1>4. CASE RequestLost(c)
    BY <1>1, <1>4, EndKeeps DEF RequestLost, Touched, Watched, MisledOnly, Outcomes,
       End, Makes, IInv
  <1>5. CASE Stat(c)
    <2>1. disturbed[c] \/ DOMAIN start[c] \subseteq DOMAIN fs
      BY <1>1 DEF IInv, DuringCall
    <2>2. Watched(c) /\ MisledOnly(c) /\ call[c].op # "mkdir"
      BY <1>5 DEF Stat, Asks, At, Touched, Watched, Status, MisledOnly
    <2>3. PICK how \in Outcomes :
              /\ End(c, how)
              /\ how = "absent" => call[c].path \notin DOMAIN fs
      BY <1>5 DEF Stat, Outcomes
    <2> QED  BY <1>1, <2>1, <2>2, <2>3, EndKeeps DEF Makes
  <1>6. CASE AskedInVain(c)
    <2>1. Watched(c) /\ MisledOnly(c) /\ call[c].op # "mkdir"
      BY <1>6 DEF AskedInVain, Asks, At, Touched, Watched, Misled, MisledOnly
    <2>2. PICK how \in Outcomes :
              End(c, how) /\ (how = "absent" => slot'[c] = "NO_SUCH_FILE")
      BY <1>6 DEF AskedInVain, Outcomes
    <2>3. slot'[c] = "NO_SUCH_FILE" => misled'[c]
      BY <1>6 DEF AskedInVain, Misled, IInv
    <2> QED  BY <1>1, <2>1, <2>2, <2>3, EndKeeps DEF Makes
  <1>7. CASE RemovePath(c)
    <2>1. Watched(c) /\ MisledOnly(c) /\ call[c].op # "mkdir"
      BY <1>7 DEF RemovePath, At, Touched, Watched, Status, MisledOnly
    <2>2. PICK how \in {"returned", "refused"} : End(c, how)
      BY <1>7 DEF RemovePath
    <2> QED  BY <1>1, <2>1, <2>2, EndKeeps DEF Makes, Outcomes
  <1>8. CASE Rename(c)
    <2>1. Watched(c) /\ MisledOnly(c) /\ call[c].op # "mkdir"
      BY <1>8 DEF Rename, At, Touched, Watched, Status, MisledOnly
    <2>2. PICK how \in {"returned", "refused"} : End(c, how)
      BY <1>8 DEF Rename
    <2> QED  BY <1>1, <2>1, <2>2, EndKeeps DEF Makes, Outcomes
  <1>9. CASE SftpMkdir(c)
    <2>1. MisledOnly(c)
      BY <1>9 DEF SftpMkdir, Status, MisledOnly
    <2>2. CASE MakeDirectory(c)
      <3>1. /\ UNCHANGED disturbed /\ DOMAIN fs \subseteq DOMAIN fs'
            /\ IsDir(fs', Top(c).path) /\ Next_(c)
        BY <2>2, PutGrows DEF MakeDirectory, Made
      <3> QED  BY <1>1, <2>1, <3>1, NextKeeps DEF Makes
    <2>3. CASE Touched /\ Recurse(c, "refused")
      BY <1>1, <2>1, <2>3, RecurseKeeps DEF Touched, Makes
    <2> QED  BY <1>9, <2>2, <2>3 DEF SftpMkdir
  <1>10. CASE MkdirLost(c)
    <2>1. MisledOnly(c) /\ Recurse(c, "fault")
      BY <1>10 DEF MkdirLost, Misled, MisledOnly
    <2>2. UNCHANGED disturbed /\ DOMAIN fs \subseteq DOMAIN fs'
      BY <1>10, PutGrows DEF MkdirLost, Touched, Made
    <2> QED  BY <1>1, <2>1, <2>2, RecurseKeeps DEF Makes
  <1>11. CASE LocalMkdir(c)
    <2>1. MisledOnly(c)
      BY <1>11 DEF LocalMkdir, Status, MisledOnly
    <2>2. CASE MakeDirectory(c)
      <3>1. /\ UNCHANGED disturbed /\ DOMAIN fs \subseteq DOMAIN fs'
            /\ IsDir(fs', Top(c).path) /\ Next_(c)
        BY <2>2, PutGrows DEF MakeDirectory, Made
      <3> QED  BY <1>1, <2>1, <3>1, NextKeeps DEF Makes
    <2>3. CASE AlreadyThere(c)
      <3>1. UNCHANGED <<fs, disturbed>> /\ IsDir(fs', Top(c).path) /\ Next_(c)
        BY <2>3 DEF AlreadyThere, Touched, IsDir
      <3> QED  BY <1>1, <2>1, <3>1, NextKeeps DEF Makes
    <2>4. CASE Parents(c) /\ Touched
      BY <1>1, <2>1, <2>4, ParentsKeep DEF Touched, Makes
    <2>5. CASE End(c, "refused") /\ Touched
      BY <1>1, <2>1, <2>5, EndKeeps DEF Touched, Watched, Outcomes, End, Makes, IInv
    <2> QED  BY <1>11, <2>2, <2>3, <2>4, <2>5 DEF LocalMkdir
  <1> QED
    BY <1>2, <1>3, <1>4, <1>5, <1>6, <1>7, <1>8, <1>9, <1>10, <1>11
-----------------------------------------------------------------------------
(* The theorems.                                                             *)

\* No call is in progress.
LEMMA Start == Init => IInv
  <1> SUFFICES ASSUME Init PROVE IInv
    OBVIOUS
  <1>1. \A c \in Clients : pending[c] = <<>> /\ outcome[c] = "none"
    BY DEF Init
  <1>2. call \in [Clients -> Calls]
    BY AccessAssumption DEF Init
  <1> QED  BY <1>1, <1>2 DEF Init, IInv, DuringCall, AbsentWasAbsent, Outcomes

\* A call begins with the directory that was asked for.
LEMMA CallStep ==
    ASSUME IInv, NEW c \in Clients, Call(c)
    PROVE  IInv' /\ outcome'[c] = "none" /\ UNCHANGED fs
  <1>1. PICK new \in Calls :
            /\ call' = [call EXCEPT ![c] = new]
            /\ pending' = [pending EXCEPT ![c] = <<Wanted(c, new)>>]
    BY DEF Call
  <1>2. Wanted(c, new) \in Wants /\ Wanted(c, new).path = new.path
    <2>1. new.path \in AllPaths /\ new.slash \in BOOLEAN /\ new.parents \in BOOLEAN
      BY AccessAssumption DEF CallType
    <2>2. (Remote(c) /\ new.slash) \in BOOLEAN
      OBVIOUS
    <2> QED  BY <2>1, <2>2 DEF Wanted, Want, Wants
  <1>3. /\ pending[c] = <<>> /\ outcome' = [outcome EXCEPT ![c] = "none"]
        /\ start' = [start EXCEPT ![c] = fs]
        /\ disturbed' = [disturbed EXCEPT ![c] = FALSE]
        /\ misled' = [misled EXCEPT ![c] = FALSE]
        /\ UNCHANGED fs
    BY DEF Call
  <1>4. StackFor(pending'[c], call'[c].path)
    BY <1>1, <1>2 DEF IInv, StackFor
  <1>5. DuringCall(c)' /\ outcome'[c] = "none"
    BY <1>3, <1>4 DEF IInv, DuringCall
  <1>6. ASSUME NEW d \in Clients, d # c
        PROVE  /\ DuringCall(d)'
               /\ outcome'[d] = "absent" => \/ call'[d].path \notin DOMAIN start'[d]
                                            \/ disturbed'[d] \/ misled'[d]
    BY <1>1, <1>3, <1>6 DEF IInv, DuringCall, AbsentWasAbsent
  <1>7. AbsentWasAbsent'
    BY <1>5, <1>6 DEF AbsentWasAbsent
  <1>8. /\ call' \in [Clients -> Calls] /\ outcome' \in [Clients -> Outcomes]
        /\ DOMAIN pending' = Clients /\ DOMAIN start' = Clients
        /\ DOMAIN disturbed' = Clients /\ DOMAIN misled' = Clients
    BY <1>1, <1>3 DEF IInv, Outcomes
  <1> QED  BY <1>3, <1>5, <1>6, <1>7, <1>8 DEF IInv

\* Nothing that IInv speaks of changes.
LEMMA IdleStep ==
    ASSUME IInv, UNCHANGED <<fs, call, outcome, pending, start, disturbed, misled>>
    PROVE  IInv'
  BY DEF IInv, DuringCall, AbsentWasAbsent

\* Every step.
LEMMA Step ==
    ASSUME IInv, [Next]_vars
    PROVE  IInv' /\ \A c \in Clients : Makes(c)
  <1>1. CASE UNCHANGED vars
    BY <1>1, IdleStep DEF vars, history, Makes
  <1>2. CASE Next
    <2>1. PICK d \in Clients :
              \/ Call(d) \/ ThrowIfInterrupted(d) \/ Fault(d) \/ Interrupt(d)
              \/ Stat(d) \/ RemovePath(d) \/ Rename(d) \/ SftpMkdir(d) \/ LocalMkdir(d)
              \/ AskedInVain(d) \/ RequestLost(d) \/ MkdirLost(d)
      BY <1>2 DEF Next
    <2>2. CASE Interrupt(d)
      BY <2>2, IdleStep DEF Interrupt, history, Makes
    <2>3. CASE Call(d)
      BY <2>3, CallStep DEF Call, Makes, IInv
    <2>4. CASE ~Call(d) /\ ~Interrupt(d)
      <3>1. IInv' /\ Makes(d)
        BY <2>1, <2>4, ClientStep
      <3>2. ASSUME NEW c \in Clients, c # d
            PROVE  outcome'[c] = outcome[c]
        BY <2>1, <2>4, <3>2
        DEF ThrowIfInterrupted, Fault, Stat, RemovePath, Rename, SftpMkdir, LocalMkdir,
            AskedInVain, RequestLost, MkdirLost, End, MakeDirectory, AlreadyThere,
            Next_, Parents, Recurse, IInv
      <3> QED  BY <3>1, <3>2 DEF Makes
    <2> QED  BY <2>2, <2>3, <2>4
  <1> QED  BY <1>1, <1>2

\* What is said to be absent was.
THEOREM AbsentAlwaysWas == Spec => []AbsentWasAbsent
  <1>1. IInv /\ [Next]_vars => IInv'
    BY Step
  <1>2. IInv => AbsentWasAbsent
    BY DEF IInv
  <1> QED  BY Start, <1>1, <1>2, PTL DEF Spec

\* A mkdir that returns has made the directory.
THEOREM MkdirAlwaysMakes == Spec => MkdirMakes
  <1>1. IInv /\ [Next]_vars => IInv'
    BY Step
  <1>2. IInv /\ [Next]_vars =>
            [\A c \in Clients :
               call[c].op = "mkdir" /\ outcome[c] = "none" /\ outcome'[c] = "returned"
               => IsDir(fs', call[c].path)]_vars
    BY Step DEF Makes
  <1> QED  BY Start, <1>1, <1>2, PTL DEF Spec, MkdirMakes
-----------------------------------------------------------------------------
(* What rename moves.                                                        *)

\* The path p, in or at old, after old has become new.
Instead(p, old, new) == new \o SubSeq(p, Len(old) + 1, Len(p))

\* It begins like new and goes on as p does after old.
LEMMA InsteadPieces ==
    ASSUME NEW p \in AllPaths, NEW old \in Ancestry(p), NEW new \in AllPaths, new # <<>>
    PROVE  /\ Instead(p, old, new) \in AllPaths /\ Instead(p, old, new) # <<>>
           /\ Len(Instead(p, old, new)) = Len(new) + (Len(p) - Len(old))
           /\ \A i \in 1..Len(new) : Instead(p, old, new)[i] = new[i]
           /\ \A i \in 1..(Len(p) - Len(old)) :
                 Instead(p, old, new)[Len(new) + i] = p[Len(old) + i]
  <1> DEFINE m == Len(old)
             l == Len(p)
             n == Len(new)
             s == SubSeq(p, m + 1, l)
  <1>1. m \in 1..l /\ l \in Nat /\ n \in Nat /\ n >= 1 /\ p \in Seq(Names) /\ new \in Seq(Names)
    BY AncestryFacts DEF AllPaths
  <1>2. s \in Seq(Names) /\ Len(s) = l - m /\ \A i \in 1..(l - m) : s[i] = p[m + i]
    <2>1. \A i \in (m + 1)..l : p[i] \in Names
      BY <1>1
    <2>2. /\ s \in Seq(Names)
          /\ Len(s) = IF m + 1 <= l THEN l - (m + 1) + 1 ELSE 0
          /\ \A i \in 1..(l - (m + 1) + 1) : s[i] = p[(m + 1) + i - 1]
      <3> HIDE DEF m, l
      <3> QED  BY <1>1, <2>1, SubSeqProperties
    <2> HIDE DEF m, l, s
    <2>3. (IF m + 1 <= l THEN l - (m + 1) + 1 ELSE 0) = l - m /\ l - (m + 1) + 1 = l - m
      BY <1>1
    <2>4. \A i \in 1..(l - m) : (m + 1) + i - 1 = m + i
      BY <1>1
    <2> QED  BY <2>2, <2>3, <2>4
  <1>3. /\ new \o s \in Seq(Names) /\ Len(new \o s) = n + (l - m)
        /\ \A i \in 1..n + (l - m) : (new \o s)[i] = IF i <= n THEN new[i] ELSE s[i - n]
    <2> HIDE DEF s
    <2>1. /\ new \o s \in Seq(Names) /\ Len(new \o s) = Len(new) + Len(s)
          /\ \A i \in 1..Len(new) + Len(s) :
                (new \o s)[i] = IF i <= Len(new) THEN new[i] ELSE s[i - Len(new)]
      BY <1>1, <1>2, ConcatProperties
    <2> QED  BY <1>2, <2>1, Zenon
  <1>4. Instead(p, old, new) = new \o s
    BY DEF Instead
  <1> HIDE DEF m, l, n, s
  <1>5. \A i \in 1..n : (new \o s)[i] = new[i]
    BY <1>1, <1>3
  <1>6. ASSUME NEW i \in 1..(l - m) PROVE (new \o s)[n + i] = p[m + i]
    <2>1. n + i \in 1..n + (l - m) /\ ~(n + i <= n) /\ (n + i) - n = i
      BY <1>1
    <2> QED  BY <1>2, <1>3, <2>1
  <1>7. new \o s # <<>>
    <2>1. n + (l - m) # 0
      BY <1>1
    <2> QED  BY <1>3, <2>1
  <1> QED  BY <1>3, <1>4, <1>5, <1>6, <1>7 DEF m, l, n, AllPaths

\* A path is above another when it is the shorter one and begins it.
LEMMA AboveIsBeginning ==
    ASSUME NEW p \in AllPaths, NEW q \in AllPaths, Len(q) \in 1..Len(p),
           \A i \in 1..Len(q) : q[i] = p[i]
    PROVE  q \in Ancestry(p)
  <1>1. /\ SubSeq(p, 1, Len(q)) \in AllPaths /\ Len(SubSeq(p, 1, Len(q))) = Len(q)
        /\ \A i \in 1..Len(q) : SubSeq(p, 1, Len(q))[i] = p[i]
    BY DEF AllPaths
  <1>2. SubSeq(p, 1, Len(q)) = q
    BY <1>1, SeqEqual DEF AllPaths
  <1> QED  BY <1>2 DEF Ancestry

\* The move can be undone: the entry is in or at new, and came from p.
LEMMA InsteadBack ==
    ASSUME NEW p \in AllPaths, NEW old \in Ancestry(p), NEW new \in AllPaths, new # <<>>
    PROVE  /\ new \in Ancestry(Instead(p, old, new))
           /\ Instead(Instead(p, old, new), new, old) = p
  <1> DEFINE q == Instead(p, old, new)
             m == Len(old)
             l == Len(p)
             n == Len(new)
             r == Instead(q, new, old)
  <1>1. /\ m \in 1..l /\ l \in Nat /\ n \in Nat /\ n >= 1
        /\ old \in AllPaths /\ old # <<>>
        /\ \A i \in 1..m : old[i] = p[i]
    <2>1. /\ old \in AllPaths /\ old # <<>> /\ m \in 1..l /\ old = SubSeq(p, 1, m)
      BY AncestryFacts
    <2>2. \A i \in 1..m : SubSeq(p, 1, m)[i] = p[i]
      BY <2>1 DEF AllPaths
    <2> QED  BY <2>1, <2>2 DEF AllPaths
  <1>2. /\ q \in AllPaths /\ Len(q) = n + (l - m)
        /\ \A i \in 1..n : q[i] = new[i]
        /\ \A i \in 1..(l - m) : q[n + i] = p[m + i]
    BY InsteadPieces
  <1> HIDE DEF q
  <1>3. n \in 1..Len(q) /\ Len(q) - n = l - m
    <2> HIDE DEF m, l, n
    <2> QED  BY <1>1, <1>2
  <1>4. new \in Ancestry(q)
    BY <1>2, <1>3, AboveIsBeginning
  <1>5. /\ r \in AllPaths /\ Len(r) = m + (Len(q) - n)
        /\ \A i \in 1..m : r[i] = old[i]
        /\ \A i \in 1..(Len(q) - n) : r[m + i] = q[n + i]
    BY <1>1, <1>2, <1>4, InsteadPieces
  <1> HIDE DEF r, m, l, n
  <1>6. Len(r) = l
    BY <1>1, <1>3, <1>5
  <1>7. ASSUME NEW i \in 1..l PROVE r[i] = p[i]
    <2>1. CASE i \in 1..m
      BY <1>1, <1>5, <2>1
    <2>2. CASE i \notin 1..m
      <3>1. i - m \in 1..(l - m) /\ m + (i - m) = i
        BY <1>1, <2>2
      <3> QED  BY <1>2, <1>3, <1>5, <3>1
    <2> QED  BY <2>1, <2>2
  <1>8. r = p
    BY <1>5, <1>6, <1>7, SeqEqual DEF AllPaths, l
  <1> QED  BY <1>4, <1>8 DEF q, r

\* What is above the entry now is above new, or was between old and the entry.
LEMMA InsteadAbove ==
    ASSUME NEW p \in AllPaths, NEW old \in Ancestry(p), NEW new \in AllPaths, new # <<>>,
           NEW above \in Ancestry(Instead(p, old, new)) \ {Instead(p, old, new)}
    PROVE  \/ above \in Ancestry(new) \ {new}
           \/ \E r \in Ancestry(p) \ {p} : old \in Ancestry(r) /\ above = Instead(r, old, new)
  <1> DEFINE q == Instead(p, old, new)
             m == Len(old)
             l == Len(p)
             n == Len(new)
             k == Len(above)
  <1>1. /\ m \in 1..l /\ l \in Nat /\ n \in Nat /\ n >= 1 /\ p \in Seq(Names)
        /\ old \in AllPaths /\ old # <<>>
        /\ \A i \in 1..m : old[i] = p[i]
    <2>1. /\ old \in AllPaths /\ old # <<>> /\ m \in 1..l /\ old = SubSeq(p, 1, m)
      BY AncestryFacts
    <2>2. \A i \in 1..m : SubSeq(p, 1, m)[i] = p[i]
      BY <2>1 DEF AllPaths
    <2> QED  BY <2>1, <2>2 DEF AllPaths
  <1>2. /\ q \in AllPaths /\ Len(q) = n + (l - m)
        /\ \A i \in 1..n : q[i] = new[i]
        /\ \A i \in 1..(l - m) : q[n + i] = p[m + i]
    BY InsteadPieces
  <1> HIDE DEF q
  <1>3. /\ above \in AllPaths /\ k \in 1..Len(q) /\ k < Len(q) /\ k \in Nat
        /\ \A i \in 1..k : above[i] = q[i]
    <2>1. /\ above \in AllPaths /\ k \in 1..Len(q) /\ k < Len(q)
          /\ above = SubSeq(q, 1, k)
      BY <1>2, AncestryFacts DEF q
    <2>2. \A i \in 1..k : SubSeq(q, 1, k)[i] = q[i]
      BY <1>2, <2>1 DEF AllPaths
    <2> QED  BY <2>1, <2>2
  <1>4. CASE k < n
    <2>1. k \in 1..n /\ k # n /\ \A i \in 1..k : i \in 1..n
      BY <1>1, <1>3, <1>4
    <2>2. above \in Ancestry(new)
      BY <1>2, <1>3, <2>1, AboveIsBeginning
    <2> QED  BY <2>1, <2>2
  <1>5. CASE k >= n
    <2> DEFINE j == m + (k - n)
               r == SubSeq(p, 1, j)
    <2>1. j \in 1..l /\ j < l /\ m \in 1..j /\ j \in Nat /\ j - m = k - n /\ n + (j - m) = k
      <3> HIDE DEF m, l, n, k
      <3> QED  BY <1>1, <1>2, <1>3, <1>5
    <2>2. /\ r \in AllPaths /\ Len(r) = j /\ r \in Ancestry(p)
          /\ \A i \in 1..j : r[i] = p[i]
      <3> HIDE DEF j
      <3> QED  BY <1>1, <2>1, PrefixFacts DEF Ancestry
    <2> HIDE DEF r
    <2>3. r # p
      BY <2>1, <2>2
    <2>4. old \in Ancestry(r)
      <3>1. \A i \in 1..m : i \in 1..j
        BY <2>1
      <3> QED  BY <1>1, <2>1, <2>2, <3>1, AboveIsBeginning
    <2>5. /\ Instead(r, old, new) \in AllPaths /\ Len(Instead(r, old, new)) = n + (j - m)
          /\ \A i \in 1..n : Instead(r, old, new)[i] = new[i]
          /\ \A i \in 1..(j - m) : Instead(r, old, new)[n + i] = r[m + i]
      <3>1. /\ Instead(r, old, new) \in AllPaths
            /\ Len(Instead(r, old, new)) = n + (Len(r) - m)
            /\ \A i \in 1..n : Instead(r, old, new)[i] = new[i]
            /\ \A i \in 1..(Len(r) - m) : Instead(r, old, new)[n + i] = r[m + i]
        <4> HIDE DEF j
        <4> QED  BY <2>2, <2>4, InsteadPieces
      <3> HIDE DEF m, n, j
      <3> QED  BY <2>2, <3>1, Zenon
    <2>6. ASSUME NEW i \in 1..k PROVE above[i] = Instead(r, old, new)[i]
      <3> HIDE DEF m, l, n, k, j
      <3>1. CASE i \in 1..n
        BY <1>2, <1>3, <2>5, <3>1
      <3>2. CASE i \notin 1..n
        <4>1. /\ i - n \in 1..(j - m) /\ n + (i - n) = i /\ i - n \in 1..(l - m)
              /\ m + (i - n) \in 1..j
          BY <1>1, <1>3, <2>1, <3>2
        <4> QED  BY <1>2, <1>3, <2>2, <2>5, <4>1
      <3> QED  BY <3>1, <3>2
    <2>7. above = Instead(r, old, new)
      <3>1. Len(above) = Len(Instead(r, old, new))
        BY <2>1, <2>5
      <3> QED  BY <1>3, <2>5, <2>6, <3>1, SeqEqual DEF AllPaths
    <2> QED  BY <2>2, <2>3, <2>4, <2>7
  <1> QED  BY <1>1, <1>3, <1>4, <1>5

\* A file, or a directory to a place where nothing or an empty directory is.
Movable(old, new) ==
    /\ old \in DOMAIN fs /\ Placeable(fs, new)
    /\ old \notin Ancestry(new) /\ new \notin Ancestry(old)
    /\ IF IsDir(fs, old) THEN ~IsFile(fs, new) /\ ~HasEntries(new)
       ELSE ~IsDir(fs, new)

\* Nothing but what is moved is in or at old, and nothing is in new.
LEMMA MovedApart ==
    ASSUME TreeOK(fs, Files), NEW new \in AllPaths, new # <<>>, NEW old, Movable(old, new),
           NEW q \in DOMAIN fs
    PROVE  /\ q # old /\ old \in Ancestry(q) => IsDir(fs, old)
           /\ q # new /\ new \in Ancestry(q) => FALSE
  <1>1. q \in AllPaths /\ \A above \in Ancestry(q) \ {q} : IsDir(fs, above)
    BY DEF TreeOK
  <1>2. ASSUME q # new, new \in Ancestry(q) PROVE FALSE
    <2>1. IsDir(fs, new) /\ ~HasEntries(new)
      BY <1>1, <1>2 DEF Movable, IsDir, IsFile
    <2>2. /\ Len(new) \in 1..Len(q) /\ Len(q) \in Nat /\ Len(new) < Len(q)
          /\ new = SubSeq(q, 1, Len(new))
      BY <1>1, <1>2, AncestryFacts DEF AllPaths
    <2> DEFINE r == SubSeq(q, 1, Len(new) + 1)
    <2>3. Len(new) + 1 \in 1..Len(q) /\ (Len(new) + 1) - 1 = Len(new) /\ Len(new) + 1 > 1
      BY <2>2
    <2>4. has_parent_path(r) /\ parent_path(r) = new /\ r \in Ancestry(q)
      BY <1>1, <2>2, <2>3, PrefixFacts DEF Ancestry, has_parent_path
    <2>5. r \in DOMAIN fs
      BY <1>1, <2>4 DEF IsDir
    <2> QED  BY <2>1, <2>4, <2>5 DEF HasEntries
  <1> QED  BY <1>1, <1>2

\* rename(2) leaves a tree.
LEMMA MovedTree ==
    ASSUME TreeOK(fs, Files), NEW new \in AllPaths, new # <<>>, NEW old, Movable(old, new)
    PROVE  TreeOK(Moved(old, new), Files)
  <1> DEFINE moving == {p \in DOMAIN fs : old \in Ancestry(p)}
             staying == DOMAIN fs \ (moving \cup {new})
             t == Moved(old, new)
  <1>1. \A p \in moving : p \in DOMAIN fs /\ old \in Ancestry(p) /\ p \in AllPaths
    BY DEF TreeOK
  <1>2. ASSUME NEW p \in moving
        PROVE  /\ Instead(p, old, new) \in AllPaths /\ Instead(p, old, new) # <<>>
               /\ Instead(Instead(p, old, new), new, old) = p
               /\ Instead(p, old, new) \notin staying
    <2>1. /\ Instead(p, old, new) \in AllPaths /\ Instead(p, old, new) # <<>>
          /\ Instead(Instead(p, old, new), new, old) = p
          /\ new \in Ancestry(Instead(p, old, new))
      BY <1>1, InsteadPieces, InsteadBack
    <2> QED  BY <2>1, MovedApart
  <1>3. /\ DOMAIN t = staying \cup {Instead(p, old, new) : p \in moving}
        /\ \A q \in staying : t[q] = fs[q]
        /\ \A q \in DOMAIN t : q \notin staying => t[q] = fs[Instead(q, new, old)]
    BY DEF Moved, Instead
  <1>4. \A p \in moving : Instead(p, old, new) \in DOMAIN t /\ t[Instead(p, old, new)] = fs[p]
    BY <1>2, <1>3
  <1> HIDE DEF t
  <1>5. ASSUME NEW q \in AllPaths, NEW above \in Ancestry(q) \ {q}, IsDir(fs, above),
               above # new, old \notin Ancestry(q)
        PROVE  IsDir(t, above)
    <2>1. old \notin Ancestry(above)
      BY <1>5, AncestryTransitive
    <2>2. above \in staying
      BY <1>5, <2>1 DEF IsDir
    <2> QED  BY <1>3, <1>5, <2>2 DEF IsDir
  <1>6. ASSUME NEW q \in staying
        PROVE  /\ q \in AllPaths /\ q # <<>> /\ t[q] \in {Dir} \cup 1..Files
               /\ \A above \in Ancestry(q) \ {q} : IsDir(t, above)
    <2>1. /\ q \in AllPaths /\ q # <<>> /\ fs[q] \in {Dir} \cup 1..Files
          /\ \A above \in Ancestry(q) \ {q} : IsDir(fs, above)
          /\ old \notin Ancestry(q) /\ q # new
      BY DEF TreeOK
    <2>2. \A above \in Ancestry(q) \ {q} : above # new
      BY MovedApart
    <2> QED  BY <1>3, <1>5, <2>1, <2>2
  <1>7. ASSUME NEW p \in moving, NEW q, q = Instead(p, old, new)
        PROVE  /\ q \in AllPaths /\ q # <<>> /\ t[q] \in {Dir} \cup 1..Files
               /\ \A above \in Ancestry(q) \ {q} : IsDir(t, above)
    <2>1. /\ p \in AllPaths /\ fs[p] \in {Dir} \cup 1..Files /\ old \in Ancestry(p)
          /\ \A above \in Ancestry(p) \ {p} : IsDir(fs, above)
      BY DEF TreeOK
    <2>2. ASSUME NEW above \in Ancestry(q) \ {q} PROVE IsDir(t, above)
      <3>1. CASE above \in Ancestry(new) \ {new}
        BY <1>5, <3>1, AbovePlace DEF Movable
      <3>2. CASE \E r \in Ancestry(p) \ {p} :
                     old \in Ancestry(r) /\ above = Instead(r, old, new)
        <4>1. PICK r \in Ancestry(p) \ {p} :
                  old \in Ancestry(r) /\ above = Instead(r, old, new)
          BY <3>2
        <4>2. r \in moving /\ fs[r] = Dir
          BY <2>1, <4>1 DEF IsDir
        <4> QED  BY <1>4, <4>1, <4>2 DEF IsDir
      <3> QED  BY <1>7, <2>1, <2>2, <3>1, <3>2, InsteadAbove
    <2> QED  BY <1>2, <1>4, <1>7, <2>1, <2>2
  <1>8. ASSUME NEW q1 \in FilesOf(t), NEW q2 \in FilesOf(t), t[q1] = t[q2]
        PROVE  q1 = q2
    <2> DEFINE Origin(q) == IF q \in staying THEN q ELSE Instead(q, new, old)
    <2>1. ASSUME NEW q \in FilesOf(t)
          PROVE  /\ Origin(q) \in FilesOf(fs) /\ fs[Origin(q)] = t[q]
                 /\ q = IF Origin(q) \in moving THEN Instead(Origin(q), old, new) ELSE Origin(q)
      <3>1. CASE q \in staying
        BY <1>3, <2>1, <3>1 DEF FilesOf
      <3>2. CASE q \notin staying
        <4>1. PICK p \in moving : q = Instead(p, old, new)
          BY <1>3, <2>1, <3>2 DEF FilesOf
        <4>2. Origin(q) = p
          BY <1>2, <3>2, <4>1
        <4> QED  BY <1>4, <2>1, <4>1, <4>2 DEF FilesOf
      <3> QED  BY <3>1, <3>2
    <2>2. Origin(q1) = Origin(q2)
      <3> HIDE DEF Origin
      <3> QED  BY <1>8, <2>1 DEF TreeOK
    <2> HIDE DEF Origin, moving
    <2> QED  BY <2>1, <2>2
  <1> HIDE DEF moving, staying
  <1>9. ASSUME NEW q \in DOMAIN t
        PROVE  /\ q \in AllPaths /\ q # <<>> /\ t[q] \in {Dir} \cup 1..Files
               /\ \A above \in Ancestry(q) \ {q} : IsDir(t, above)
    BY <1>3, <1>6, <1>7
  <1>10. TreeOK(t, Files)
    BY <1>8, <1>9 DEF TreeOK
  <1> QED  BY <1>10 DEF t
-----------------------------------------------------------------------------
(* The types.                                                                *)

\* The calls are what the assumption says.
LEMMA CallFacts ==
    ASSUME IInv, NEW c \in Clients
    PROVE  /\ call[c] \in CallType /\ call[c].path \in AllPaths /\ call[c].path # <<>>
           /\ call[c].op = "rename" => call[c].to \in AllPaths /\ call[c].to # <<>>
  BY AccessAssumption DEF IInv, CallType

\* What is left of a stack when its first directory is made.
LEMMA TailPieces ==
    ASSUME NEW s, NEW path, StackFor(s, path), Len(s) # 1
    PROVE  /\ Len(s) \in Nat /\ Len(s) >= 2 /\ Len(Tail(s)) = Len(s) - 1
           /\ \A k \in 1..(Len(s) - 1) : Tail(s)[k] = s[k + 1]
  <1>1. /\ Len(s) \in Nat /\ Len(s) > 0 /\ Len(Tail(s)) = Len(s) - 1
        /\ \A k \in 1..(Len(s) - 1) : Tail(s)[k] = s[k + 1]
    BY DEF StackFor
  <1> DEFINE m == Len(s)
  <1>2. m \in Nat /\ m > 0 /\ m # 1
    BY <1>1
  <1> HIDE DEF m
  <1>3. m >= 2
    BY <1>2
  <1> QED  BY <1>1, <1>3 DEF m

\* A stack on which the first directory has to wait for its parents.
LEMMA ParentsPieces ==
    ASSUME NEW s, NEW path, StackFor(s, path), NEW parent \in Wants, NEW again \in Wants
    PROVE  LET t == <<parent, again>> \o Tail(s) IN
           /\ Len(s) \in Nat /\ Len(s) >= 1 /\ Len(t) = Len(s) + 1
           /\ t[1] = parent /\ t[2] = again
           /\ \A k \in 2..Len(s) : t[k + 1] = s[k]
  <1> DEFINE t == <<parent, again>> \o Tail(s)
             m == Len(s)
  <1>1. /\ Tail(s) \in Seq(Wants) /\ Len(Tail(s)) = m - 1 /\ m \in Nat /\ m >= 1
        /\ \A k \in 1..(m - 1) : Tail(s)[k] = s[k + 1]
    BY DEF StackFor
  <1>2. /\ <<parent, again>> \in Seq(Wants) /\ Len(<<parent, again>>) = 2
        /\ <<parent, again>>[1] = parent /\ <<parent, again>>[2] = again
    OBVIOUS
  <1>3. /\ Len(t) = 2 + (m - 1)
        /\ t[1] = parent /\ t[2] = again
        /\ \A k \in 1..(m - 1) : t[k + 2] = Tail(s)[k]
    BY <1>1, <1>2
  <1> HIDE DEF t, m
  <1>4. ASSUME NEW k \in 2..m PROVE t[k + 1] = s[k]
    <2>1. k - 1 \in 1..(m - 1) /\ (k - 1) + 2 = k + 1 /\ (k - 1) + 1 = k
      BY <1>1
    <2>2. t[(k - 1) + 2] = Tail(s)[k - 1] /\ Tail(s)[k - 1] = s[(k - 1) + 1]
      BY <1>1, <1>3, <2>1
    <2> QED  BY <2>1, <2>2, Zenon
  <1>5. Len(t) = m + 1
    BY <1>1, <1>3
  <1> QED  BY <1>1, <1>3, <1>4, <1>5 DEF t, m

\* The directory to make next is above the one that was asked for, and so are
\* its parents.
LEMMA TopFacts ==
    ASSUME IInv, TypeOK, NEW c \in Clients, pending[c] # <<>>
    PROVE  /\ Top(c) = pending[c][1] /\ Top(c) \in Wants
           /\ Top(c).path \in Ancestry(call[c].path)
           /\ Top(c).path \in AllPaths /\ Top(c).path # <<>>
           /\ HasParent(Top(c)) => Parent(Top(c)) \in Ancestry(call[c].path)
           /\ Want(Parent(Top(c)), FALSE, TRUE) \in Wants
           /\ [Top(c) EXCEPT !.parents = FALSE] \in Wants
           /\ [Top(c) EXCEPT !.parents = FALSE].path = Top(c).path
           /\ [Top(c) EXCEPT !.parents = FALSE].slash = Top(c).slash
           /\ [Top(c) EXCEPT !.parents = FALSE].parents = FALSE
  <1>1. StackFor(pending[c], call[c].path) /\ call[c].path \in AllPaths
    BY CallFacts DEF IInv, DuringCall
  <1>2. Top(c) = pending[c][1] /\ 1 \in DOMAIN pending[c] /\ Top(c) \in Wants
    BY <1>1 DEF StackFor, Top
  <1>3. Top(c).path \in Ancestry(call[c].path)
    BY <1>2 DEF TypeOK
  <1>4. Top(c).path \in AllPaths /\ Top(c).path # <<>>
    BY <1>1, <1>3, AncestryFacts
  <1>5. ASSUME HasParent(Top(c)) PROVE Parent(Top(c)) \in Ancestry(call[c].path)
    <2>1. CASE Top(c).slash
      BY <1>3, <2>1 DEF Parent
    <2>2. CASE ~Top(c).slash
      <3>1. parent_path(Top(c).path) \in Ancestry(Top(c).path)
        BY <1>4, <1>5, <2>2, AncestryFacts DEF HasParent
      <3> QED  BY <1>1, <1>3, <2>2, <3>1, AncestryTransitive DEF Parent
    <2> QED  BY <2>1, <2>2
  <1>6. Parent(Top(c)) \in AllPaths
    BY <1>4, ParentType DEF Parent
  <1>7. Want(Parent(Top(c)), FALSE, TRUE) \in Wants
    BY <1>6 DEF Want, Wants
  <1>8. /\ [Top(c) EXCEPT !.parents = FALSE] \in Wants
        /\ [Top(c) EXCEPT !.parents = FALSE].path = Top(c).path
        /\ [Top(c) EXCEPT !.parents = FALSE].slash = Top(c).slash
        /\ [Top(c) EXCEPT !.parents = FALSE].parents = FALSE
    BY <1>2 DEF Wants
  <1> QED  BY <1>2, <1>3, <1>4, <1>5, <1>7, <1>8

\* A directory more.
LEMMA PutDirTree ==
    ASSUME TreeOK(fs, Files), NEW p \in AllPaths, p # <<>>, Makeable(p)
    PROVE  TreeOK(Put(fs, p, Dir), Files)
  <1>1. \A q \in FilesOf(fs) : fs[q] = Dir => q = p
    BY DEF FilesOf
  <1>2. ~IsDir(fs, p) /\ Placeable(fs, p)
    BY DEF Makeable, IsDir
  <1>3. Files \in Nat /\ Files <= Files /\ Dir \in {Dir} \cup 1..Files
    BY DEF Files
  <1> HIDE DEF Files
  <1> QED  BY <1>1, <1>2, <1>3, PutTree

\* The tree stays a tree.
LEMMA TreeStep ==
    ASSUME IInv, TypeOK, [Next]_vars
    PROVE  TreeOK(fs', Files)
  <1>1. TreeOK(fs, Files) /\ Files \in Nat
    BY DEF TypeOK, Files
  <1>2. ASSUME NEW c \in Clients, RemovePath(c) PROVE TreeOK(fs', Files)
    <2>1. CASE fs' = Drop(fs, call[c].path) /\ IsFile(fs, call[c].path)
      BY <1>1, <2>1, DropTree
    <2>2. CASE fs' = Drop(fs, call[c].path) /\ ~HasEntries(call[c].path)
      BY <1>1, <2>2, DropTree DEF HasEntries
    <2> QED  BY <1>1, <1>2, <2>1, <2>2 DEF RemovePath, Touched
  <1>3. ASSUME NEW c \in Clients, Rename(c) PROVE TreeOK(fs', Files)
    <2>1. call[c].to \in AllPaths /\ call[c].to # <<>>
      BY <1>3, CallFacts DEF Rename, At
    <2>2. \/ Movable(call[c].path, call[c].to) /\ fs' = Moved(call[c].path, call[c].to)
          \/ fs' = fs
      BY <1>3 DEF Rename, Movable, Touched
    <2> QED  BY <1>1, <2>1, <2>2, MovedTree
  <1>4. ASSUME NEW c \in Clients, SftpMkdir(c) \/ LocalMkdir(c) \/ MkdirLost(c)
        PROVE  TreeOK(fs', Files)
    <2>1. pending[c] # <<>>
      BY <1>4 DEF SftpMkdir, LocalMkdir, MkdirLost, At
    <2>2. fs' = fs \/ (Makeable(Top(c).path) /\ fs' = Put(fs, Top(c).path, Dir))
      BY <1>4 DEF SftpMkdir, LocalMkdir, MkdirLost, MakeDirectory, Touched, AlreadyThere
    <2> QED  BY <1>1, <2>1, <2>2, TopFacts, PutDirTree
  <1>5. ASSUME NEW c \in Clients,
               \/ Call(c) \/ ThrowIfInterrupted(c) \/ Fault(c) \/ Interrupt(c)
               \/ Stat(c) \/ AskedInVain(c) \/ RequestLost(c)
        PROVE  fs' = fs
    BY <1>5 DEF Call, ThrowIfInterrupted, Fault, Interrupt, Stat, AskedInVain,
       RequestLost, Touched
  <1> QED  BY <1>1, <1>2, <1>3, <1>4, <1>5 DEF Next, vars

Within(s, path) == \A k \in DOMAIN s : s[k].path \in Ancestry(path)

\* The paths on a stack stay above the one that was asked for.
LEMMA WithinStep ==
    ASSUME IInv, TypeOK, NEW c \in Clients, pending[c] # <<>>, UNCHANGED call,
           \/ \E how : End(c, how)
           \/ Next_(c)
           \/ HasParent(Top(c)) /\ Parents(c)
    PROVE  /\ Within(pending'[c], call'[c].path)
           /\ \A d \in Clients : d # c => pending'[d] = pending[d]
  <1>1. StackFor(pending[c], call[c].path) /\ Within(pending[c], call[c].path)
    BY DEF IInv, DuringCall, TypeOK, Within
  <1>2. CASE \E how : End(c, how)
    BY <1>2 DEF End, IInv, Within
  <1>3. CASE Next_(c) /\ Len(pending[c]) # 1
    <2>1. pending' = [pending EXCEPT ![c] = Tail(pending[c])]
      BY <1>3 DEF Next_
    <2>2. /\ Len(pending[c]) \in Nat /\ Len(Tail(pending[c])) = Len(pending[c]) - 1
          /\ \A k \in 1..(Len(pending[c]) - 1) : Tail(pending[c])[k] = pending[c][k + 1]
      BY <1>1, <1>3, TailPieces
    <2>3. DOMAIN pending[c] = 1..Len(pending[c]) /\ DOMAIN Tail(pending[c]) = 1..Len(Tail(pending[c]))
      BY <1>1 DEF StackFor
    <2>4. ASSUME NEW k \in DOMAIN Tail(pending[c])
          PROVE  Tail(pending[c])[k].path \in Ancestry(call[c].path)
      <3>1. k \in 1..(Len(pending[c]) - 1) /\ k + 1 \in 1..Len(pending[c])
        BY <2>2, <2>3
      <3> QED  BY <1>1, <2>2, <2>3, <3>1 DEF Within
    <2> QED  BY <2>1, <2>4 DEF IInv, Within
  <1>4. CASE HasParent(Top(c)) /\ Parents(c)
    <2> DEFINE s == pending[c]
               t == <<Want(Parent(Top(c)), FALSE, TRUE),
                      [Top(c) EXCEPT !.parents = FALSE]>> \o Tail(s)
    <2>1. pending' = [pending EXCEPT ![c] = t]
      BY <1>4 DEF Parents
    <2>2. /\ Len(s) \in Nat /\ Len(s) >= 1 /\ Len(t) = Len(s) + 1
          /\ t[1] = Want(Parent(Top(c)), FALSE, TRUE)
          /\ t[2] = [Top(c) EXCEPT !.parents = FALSE]
          /\ \A k \in 2..Len(s) : t[k + 1] = s[k]
      BY <1>1, TopFacts, ParentsPieces
    <2>3. StackFor(t, call[c].path)
      BY <1>1, TopFacts, ParentsOnStack DEF Top
    <2>4. DOMAIN s = 1..Len(s) /\ DOMAIN t = 1..Len(t)
      BY <1>1, <2>3 DEF StackFor
    <2> HIDE DEF s, t
    <2>5. ASSUME NEW k \in DOMAIN t PROVE t[k].path \in Ancestry(call[c].path)
      <3>1. k = 1 \/ k = 2 \/ (k - 1 \in 2..Len(s) /\ (k - 1) + 1 = k)
        BY <2>2, <2>4
      <3>2. CASE k = 1
        BY <1>4, <2>2, <3>2, TopFacts DEF Want
      <3>3. CASE k = 2
        BY <2>2, <3>3, TopFacts
      <3>4. CASE k - 1 \in 2..Len(s) /\ (k - 1) + 1 = k
        <4>1. t[k] = s[k - 1] /\ k - 1 \in 1..Len(s)
          BY <2>2, <3>4
        <4> QED  BY <1>1, <2>4, <4>1 DEF Within, s
      <3> QED  BY <3>1, <3>2, <3>3, <3>4
    <2> QED  BY <2>1, <2>5 DEF IInv, Within
  <1> QED  BY <1>2, <1>3, <1>4 DEF Next_

\* The types are kept.
LEMMA TypeStep ==
    ASSUME IInv, TypeOK, [Next]_vars
    PROVE  TypeOK'
  <1>1. TreeOK(fs', Files) /\ IInv'
    BY TreeStep, Step
  <1>2. CASE UNCHANGED vars
    BY <1>2 DEF TypeOK, vars
  <1>3. ASSUME NEW c \in Clients,
               \/ ThrowIfInterrupted(c) \/ Fault(c) \/ Stat(c) \/ RemovePath(c)
               \/ Rename(c) \/ SftpMkdir(c) \/ LocalMkdir(c)
               \/ AskedInVain(c) \/ RequestLost(c) \/ MkdirLost(c)
        PROVE  TypeOK'
    <2>1. pending[c] # <<>> /\ UNCHANGED <<call, interrupted, calls>>
      BY <1>3 DEF ThrowIfInterrupted, Fault, Stat, Asks, RemovePath, Rename, SftpMkdir,
         LocalMkdir, AskedInVain, RequestLost, MkdirLost, At
    <2>2. \/ \E how : End(c, how)
          \/ Next_(c)
          \/ HasParent(Top(c)) /\ Parents(c)
      BY <1>3 DEF ThrowIfInterrupted, Fault, Stat, RemovePath, Rename, SftpMkdir, LocalMkdir,
         AskedInVain, RequestLost, MkdirLost, MakeDirectory, AlreadyThere, Recurse, HasParent
    <2>3. \A d \in Clients : Within(pending'[d], call'[d].path)
      BY <2>1, <2>2, WithinStep DEF TypeOK, Within
    <2>4. \/ slot' = slot
          \/ \E status \in Slots : slot' = [slot EXCEPT ![c] = status]
      BY <1>3 DEF ThrowIfInterrupted, Fault, Stat, RemovePath, Rename, SftpMkdir, LocalMkdir,
         AskedInVain, RequestLost, MkdirLost, NoAnswer, Status, Refused, Slots, TypeOK
    <2>5. faults' = faults \/ (faults < MaxFaults /\ faults' = faults + 1)
      BY <1>3 DEF ThrowIfInterrupted, Fault, Stat, RemovePath, Rename, SftpMkdir, LocalMkdir,
         AskedInVain, RequestLost, MkdirLost, NoAnswer, Status
    <2>6. faults' \in 0..MaxFaults
      BY <2>5, AccessAssumption DEF TypeOK
    <2>7. slot' \in [Clients -> Slots]
      BY <2>4 DEF TypeOK
    <2> QED  BY <1>1, <2>1, <2>3, <2>6, <2>7 DEF TypeOK, IInv, Within
  <1>4. ASSUME NEW c \in Clients, Call(c) PROVE TypeOK'
    <2>1. PICK new \in Calls :
              /\ call' = [call EXCEPT ![c] = new]
              /\ pending' = [pending EXCEPT ![c] = <<Wanted(c, new)>>]
      BY <1>4 DEF Call
    <2>2. /\ UNCHANGED <<interrupted, slot, faults>> /\ calls' = calls + 1
          /\ calls < MaxCalls
      BY <1>4 DEF Call
    <2>3. calls' \in 0..MaxCalls
      BY <2>2, AccessAssumption DEF TypeOK
    <2>4. Wanted(c, new).path \in Ancestry(new.path)
      <3>1. new.path \in AllPaths /\ new.path # <<>>
        BY AccessAssumption DEF CallType
      <3> QED  BY <3>1, AncestryFacts DEF Wanted, Want
    <2>5. \A d \in Clients : Within(pending'[d], call'[d].path)
      BY <2>1, <2>4 DEF IInv, TypeOK, Within
    <2> QED  BY <1>1, <2>2, <2>3, <2>5 DEF TypeOK, IInv, Within
  <1>5. ASSUME NEW c \in Clients, Interrupt(c) PROVE TypeOK'
    BY <1>1, <1>5 DEF Interrupt, TypeOK
  <1> QED  BY <1>2, <1>3, <1>4, <1>5 DEF Next

LEMMA InitType == Init => TypeOK
  <1> SUFFICES ASSUME Init PROVE TypeOK
    OBVIOUS
  <1>1. IInv /\ \A c \in Clients : pending[c] = <<>>
    BY Start DEF Init
  <1>2. 0 \in 0..MaxCalls /\ 0 \in 0..MaxFaults
    BY AccessAssumption
  <1> QED  BY <1>1, <1>2, AccessAssumption DEF Init, TypeOK, IInv, Slots

\* The variables keep their types; above all, every operation of the two
\* accesses, of rename too, leaves a tree.
THEOREM TypeCorrect == Spec => []TypeOK
  <1>1. IInv /\ TypeOK /\ [Next]_vars => IInv' /\ TypeOK'
    BY Step, TypeStep
  <1> QED  BY Start, InitType, <1>1, PTL DEF Spec
-----------------------------------------------------------------------------
(* Why mkdir refuses.                                                        *)

\* A stack goes down from the directory that was asked for, parent by parent; a
\* path that ends with a separator is its own parent's path, and can only be at
\* the bottom. All but the first have had their parents made.
Orderly(s, wanted, remote) ==
    /\ \A k \in 1..Len(s) : s[k].slash => k = Len(s) /\ remote /\ wanted.slash
    /\ \A j, k \in 1..Len(s) : j < k => Len(s[j].path) < Len(s[k].path) \/ s[k].slash
    /\ \A k \in 2..Len(s) : ~s[k].parents /\ s[k - 1].path = Parent(s[k])
    /\ ~wanted.parents => Len(s) = 1 /\ ~s[1].parents

\* Nothing was removed or moved, and no file was made.
Kept(then, now) ==
    /\ \A p \in DOMAIN then : p \in DOMAIN now /\ now[p] = then[p]
    /\ \A p \in FilesOf(now) : p \in FilesOf(then)

\* A directory that is asked for without its parents after they were made has
\* them.
Ready(s, wanted, now) == wanted.parents /\ ~s[1].parents => IsDir(now, Parent(s[1]))

\* A parent is only made when it was missing.
Missing(s, path, then) ==
    /\ \A k \in 2..Len(s) : ~s[k].slash => ~IsDir(then, s[k - 1].path)
    /\ Len(s) >= 2 /\ s[Len(s)].slash => ~Placeable(then, path)

\* What is still to make is not there, or has been; unless it is made twice.
OwnOnly(s, path, then, now) ==
    \A k \in 1..Len(s) :
        IsDir(now, s[k].path) => \/ IsDir(then, s[k].path)
                                 \/ s[k].slash /\ ~Placeable(then, path)

AtMkdir(c) ==
    pending[c] # <<>> /\ call[c].op = "mkdir" =>
        /\ Orderly(pending[c], call[c], Remote(c))
        /\ ~disturbed[c] => Kept(start[c], fs) /\ Ready(pending[c], call[c], fs)
        /\ Remote(c) /\ ~disturbed[c] /\ ~misled[c] =>
              /\ Missing(pending[c], call[c].path, start[c])
              /\ ~shared[c] => OwnOnly(pending[c], call[c].path, start[c], fs)

Cause(c) ==
    \/ disturbed[c]
    \/ \E p \in Ancestry(call[c].path) : IsFile(start[c], p)
    \/ ~call[c].parents /\ ~Placeable(start[c], call[c].path)
    \/ Remote(c) /\ (IsDir(start[c], call[c].path) \/ shared[c] \/ misled[c])
    \/ Remote(c) /\ call[c].slash /\ ~Placeable(start[c], call[c].path)

ForCause(c) == call[c].op = "mkdir" /\ outcome[c] = "refused" => Cause(c)

MkdirInv ==
    /\ IInv /\ TypeOK /\ shared \in [Clients -> BOOLEAN]
    /\ \A c \in Clients : AtMkdir(c) /\ ForCause(c)

\* What was there when the call began is there.
LEMMA KeptFacts ==
    ASSUME NEW then, NEW now, Kept(then, now)
    PROVE  /\ \A p : IsDir(then, p) => IsDir(now, p)
           /\ \A p : Placeable(then, p) => Placeable(now, p)
           /\ \A p : IsFile(now, p) => IsFile(then, p)
  BY DEF Kept, IsDir, IsFile, Placeable, FilesOf

\* A directory that is made takes nothing away.
LEMMA KeptPut ==
    ASSUME NEW then, NEW p, Kept(then, fs), p \notin DOMAIN fs
    PROVE  Kept(then, Put(fs, p, Dir))
  <1>1. /\ DOMAIN Put(fs, p, Dir) = DOMAIN fs \cup {p}
        /\ \A q \in DOMAIN fs : Put(fs, p, Dir)[q] = fs[q]
        /\ Put(fs, p, Dir)[p] = Dir
    BY DEF Put
  <1> QED  BY <1>1 DEF Kept, FilesOf

\* The tree stays, another directory is made, or something is taken away.
TreeChange(c) ==
    \/ Touched
    \/ Made(c) /\ \E p : Makeable(p) /\ fs' = Put(fs, p, Dir)
    \/ Took(c)

\* The other clients.
LEMMA OthersMkdir ==
    ASSUME MkdirInv, NEW c \in Clients, NEW d \in Clients, d # c, TreeChange(c),
           pending'[d] = pending[d], outcome'[d] = outcome[d],
           start'[d] = start[d], call'[d] = call[d], misled'[d] = misled[d]
    PROVE  AtMkdir(d)' /\ ForCause(d)'
  <1>1. (disturbed[d] => disturbed'[d]) /\ (shared[d] => shared'[d])
    BY DEF TreeChange, Touched, Made, Took, Others
  <1>2. ForCause(d)'
    <2>1. ForCause(d)
      BY DEF MkdirInv
    <2>2. Cause(d) => Cause(d)'
      BY <1>1 DEF Cause
    <2> QED  BY <2>1, <2>2 DEF ForCause
  <1>3. ASSUME pending[d] # <<>>, call[d].op = "mkdir", ~disturbed'[d]
        PROVE  /\ ~disturbed[d]
               /\ Touched \/ (shared'[d] /\ \E p : p \notin DOMAIN fs /\ fs' = Put(fs, p, Dir))
    BY <1>1, <1>3 DEF TreeChange, Made, Took, Others, Makeable
  <1>4. ASSUME pending[d] # <<>>, call[d].op = "mkdir", ~disturbed'[d]
        PROVE  Kept(start[d], fs') /\ Ready(pending[d], call[d], fs')
    <2>1. ~disturbed[d] /\ Kept(start[d], fs) /\ Ready(pending[d], call[d], fs)
      BY <1>3, <1>4 DEF MkdirInv, AtMkdir
    <2>2. CASE Touched
      BY <2>1, <2>2 DEF Touched
    <2>3. CASE \E p : p \notin DOMAIN fs /\ fs' = Put(fs, p, Dir)
      <3>1. PICK p : p \notin DOMAIN fs /\ fs' = Put(fs, p, Dir)
        BY <2>3
      <3>2. \A q : IsDir(fs, q) => IsDir(fs', q)
        BY <3>1 DEF Put, IsDir
      <3> QED  BY <2>1, <3>1, <3>2, KeptPut DEF Ready
    <2> QED  BY <1>3, <1>4, <2>2, <2>3
  <1>5. ASSUME pending[d] # <<>>, call[d].op = "mkdir", ~disturbed'[d], ~shared'[d]
        PROVE  ~shared[d] /\ fs' = fs
    BY <1>1, <1>3, <1>5 DEF Touched
  <1>6. AtMkdir(d)
    BY DEF MkdirInv
  <1>7. AtMkdir(d)'
    BY <1>1, <1>3, <1>4, <1>5, <1>6 DEF AtMkdir
  <1> QED  BY <1>2, <1>7

\* The directory at the top is there; the next one is asked for.
LEMMA TailMkdir ==
    ASSUME MkdirInv, NEW c \in Clients, pending[c] # <<>>, call[c].op = "mkdir", Next_(c),
           UNCHANGED <<call, start, disturbed>>,
           misled'[c] = misled[c], shared'[c] = shared[c], IsDir(fs', Top(c).path),
           fs' = fs \/ (Makeable(Top(c).path) /\ fs' = Put(fs, Top(c).path, Dir))
    PROVE  AtMkdir(c)'
  <1> DEFINE s == pending[c]
             n == Len(s)
             t == Tail(s)
  <1>1. AtMkdir(c) /\ StackFor(s, call[c].path) /\ Top(c) = s[1]
    BY TopFacts DEF MkdirInv, IInv, DuringCall
  <1>2. CASE n = 1
    BY <1>2 DEF Next_, End, MkdirInv, IInv, AtMkdir
  <1>3. CASE n # 1
    <2>1. pending'[c] = t
      BY <1>3 DEF Next_, MkdirInv, IInv
    <2>2. n \in Nat /\ n >= 2 /\ Len(t) = n - 1 /\ \A k \in 1..(n - 1) : t[k] = s[k + 1]
      BY <1>1, <1>3, TailPieces
    <2>3. /\ Orderly(s, call[c], Remote(c))
          /\ ~disturbed[c] => Kept(start[c], fs)
          /\ Remote(c) /\ ~disturbed[c] /\ ~misled[c] =>
                /\ Missing(s, call[c].path, start[c])
                /\ ~shared[c] => OwnOnly(s, call[c].path, start[c], fs)
      BY <1>1 DEF AtMkdir
    <2>4. \A q : IsDir(fs', q) => q = s[1].path \/ IsDir(fs, q)
      BY <1>1 DEF Put, IsDir
    <2> HIDE DEF s, n, t
    <2>5. /\ \A k \in 1..(n - 1) : k + 1 \in 1..n /\ k + 1 \in 2..n
          /\ \A k \in 2..(n - 1) : k - 1 \in 1..(n - 1) /\ (k - 1) + 1 = k /\ k \in 1..(n - 1)
                                   /\ k + 1 \in 2..n /\ (k + 1) - 1 = k
          /\ n - 1 \in 1..(n - 1) /\ (n - 1) + 1 = n
      BY <2>2
    <2>6. Orderly(t, call[c], Remote(c))
      <3>1. ASSUME NEW k \in 1..(n - 1), t[k].slash
            PROVE  k = n - 1 /\ Remote(c) /\ call[c].slash
        <4>1. k + 1 = n /\ Remote(c) /\ call[c].slash
          BY <2>2, <2>3, <2>5, <3>1 DEF Orderly, n
        <4> QED  BY <2>2, <4>1
      <3>2. ASSUME NEW j \in 1..(n - 1), NEW k \in 1..(n - 1), j < k
            PROVE  Len(t[j].path) < Len(t[k].path) \/ t[k].slash
        <4>1. j + 1 \in 1..n /\ k + 1 \in 1..n /\ j + 1 < k + 1
          BY <2>2, <3>2
        <4> QED  BY <2>2, <2>3, <4>1 DEF Orderly, n
      <3>3. ASSUME NEW k \in 2..(n - 1)
            PROVE  ~t[k].parents /\ t[k - 1].path = Parent(t[k])
        <4>1. t[k] = s[k + 1] /\ t[k - 1] = s[k]
          <5>1. t[k - 1] = s[(k - 1) + 1]
            BY <2>2, <2>5
          <5> QED  BY <2>2, <2>5, <5>1
        <4>2. ~s[k + 1].parents /\ s[(k + 1) - 1].path = Parent(s[k + 1])
          BY <2>3, <2>5 DEF Orderly, n
        <4> QED  BY <2>5, <4>1, <4>2
      <3>4. call[c].parents
        BY <2>2, <2>3 DEF Orderly, n
      <3> QED  BY <2>2, <3>1, <3>2, <3>3, <3>4 DEF Orderly
    <2>7. IsDir(fs', Parent(t[1]))
      <3>1. s[1].path = Parent(s[2]) /\ t[1] = s[2]
        <4>1. 2 \in 2..n /\ 2 - 1 = 1 /\ 1 \in 1..(n - 1) /\ 1 + 1 = 2
          BY <2>2
        <4>2. s[2 - 1].path = Parent(s[2]) /\ t[1] = s[1 + 1]
          BY <2>2, <2>3, <4>1 DEF Orderly, n
        <4> QED  BY <4>1, <4>2
      <3> QED  BY <1>1, <3>1
    <2>8. ~disturbed[c] => Kept(start[c], fs')
      BY <2>3, KeptPut DEF Makeable
    <2>9. ASSUME Missing(s, call[c].path, start[c])
          PROVE  Missing(t, call[c].path, start[c])
      <3>1. ASSUME NEW k \in 2..(n - 1), ~t[k].slash PROVE ~IsDir(start[c], t[k - 1].path)
        <4>1. t[k] = s[k + 1] /\ t[k - 1] = s[k]
          <5>1. t[k - 1] = s[(k - 1) + 1]
            BY <2>2, <2>5
          <5> QED  BY <2>2, <2>5, <5>1
        <4>2. ~s[k + 1].slash => ~IsDir(start[c], s[(k + 1) - 1].path)
          BY <2>5, <2>9 DEF Missing, n
        <4> QED  BY <2>5, <3>1, <4>1, <4>2
      <3>2. t[n - 1] = s[n]
        BY <2>2, <2>5
      <3>3. s[n].slash => ~Placeable(start[c], call[c].path)
        BY <2>2, <2>9 DEF Missing, n
      <3> QED  BY <2>2, <3>1, <3>2, <3>3 DEF Missing
    <2>10. ASSUME Missing(s, call[c].path, start[c]), OwnOnly(s, call[c].path, start[c], fs)
           PROVE  OwnOnly(t, call[c].path, start[c], fs')
      <3>1. ASSUME NEW k \in 1..(n - 1), IsDir(fs', t[k].path)
            PROVE  \/ IsDir(start[c], t[k].path)
                   \/ t[k].slash /\ ~Placeable(start[c], call[c].path)
        <4>1. t[k] = s[k + 1] /\ k + 1 \in 1..n
          BY <2>2, <2>5
        <4>2. CASE IsDir(fs, t[k].path)
          BY <2>10, <4>1, <4>2 DEF OwnOnly, n
        <4>3. CASE t[k].path = s[1].path
          <5>1. 1 \in 1..n /\ 1 < k + 1
            BY <2>2
          <5>2. Len(s[1].path) < Len(s[k + 1].path) \/ s[k + 1].slash
            BY <2>3, <4>1, <5>1 DEF Orderly, n
          <5>3. \A q \in {s[1].path} : ~(Len(q) < Len(q))
            <6>1. s[1].path \in AllPaths
              BY <1>1, TopFacts DEF MkdirInv
            <6>2. Len(s[1].path) \in Nat
              BY <6>1 DEF AllPaths
            <6> QED  BY <6>2
          <5>4. t[k].slash /\ k + 1 = n
            BY <2>3, <4>1, <4>3, <5>2, <5>3 DEF Orderly, n
          <5>5. s[n].slash => ~Placeable(start[c], call[c].path)
            BY <2>2, <2>10 DEF Missing, n
          <5> QED  BY <4>1, <5>4, <5>5
        <4> QED  BY <2>4, <3>1, <4>2, <4>3
      <3> QED  BY <2>2, <3>1 DEF OwnOnly
    <2> QED  BY <2>1, <2>3, <2>6, <2>7, <2>8, <2>9, <2>10 DEF AtMkdir, Ready
  <1> QED  BY <1>2, <1>3

\* The directory at the top has to wait for its parents.
LEMMA ParentsMkdir ==
    ASSUME MkdirInv, NEW c \in Clients, pending[c] # <<>>, call[c].op = "mkdir", Parents(c),
           HasParent(Top(c)), Top(c).parents,
           UNCHANGED <<call, start, disturbed>>, shared'[c] = shared[c],
           fs' = fs \/ (Makeable(Top(c).path) /\ fs' = Put(fs, Top(c).path, Dir)),
           Remote(c) => \/ misled'[c]
                        \/ misled'[c] = misled[c] /\ fs' = fs /\ ~Placeable(fs, Top(c).path)
    PROVE  AtMkdir(c)'
  <1> DEFINE s == pending[c]
             n == Len(s)
             parent == Want(Parent(Top(c)), FALSE, TRUE)
             again == [Top(c) EXCEPT !.parents = FALSE]
             t == <<parent, again>> \o Tail(s)
             path == call[c].path
  <1>1. /\ AtMkdir(c) /\ StackFor(s, path) /\ Top(c) = s[1]
        /\ TreeOK(fs, Files) /\ s[1].path \in AllPaths /\ s[1].path # <<>>
        /\ parent.path = Parent(s[1]) /\ parent.slash = FALSE /\ parent.parents = TRUE
        /\ again.path = s[1].path /\ again.slash = s[1].slash /\ again.parents = FALSE
    BY TopFacts DEF MkdirInv, IInv, DuringCall, TypeOK, Want
  <1>2. pending'[c] = t
    BY DEF Parents, MkdirInv, IInv
  <1>3. /\ n \in Nat /\ n >= 1 /\ Len(t) = n + 1
        /\ t[1] = parent /\ t[2] = again /\ \A k \in 2..n : t[k + 1] = s[k]
    BY <1>1, TopFacts, ParentsPieces, SMTT(30) DEF MkdirInv
  <1>4. /\ Orderly(s, call[c], Remote(c))
        /\ ~disturbed[c] => Kept(start[c], fs)
        /\ Remote(c) /\ ~disturbed[c] /\ ~misled[c] =>
              /\ Missing(s, path, start[c])
              /\ ~shared[c] => OwnOnly(s, path, start[c], fs)
    BY <1>1 DEF AtMkdir
  <1>5. s[n].path = path
    BY <1>1 DEF StackFor
  <1>6. HasParent(s[1]) /\ s[1].parents
    BY <1>1
  <1> HIDE DEF s, n, t, parent, again, path
  \* Below its first element the new stack has the paths of the old one.
  <1>7. /\ \A i \in 1..n : t[i + 1].path = s[i].path /\ t[i + 1].slash = s[i].slash
        /\ \A i \in 2..n : t[i + 1].parents = s[i].parents
        /\ ~t[1 + 1].parents
    <2>1. \A i \in 1..n : i = 1 \/ i \in 2..n
      BY <1>3
    <2> QED  BY <1>1, <1>3, <2>1
  <1>8. \A i \in 1..n : Parent(t[i + 1]) = Parent(s[i])
    BY <1>7 DEF Parent
  <1>9. \A k \in 1..(n + 1) : k = 1 \/ \E i \in 1..n : k = i + 1
    <2>1. \A k \in 1..(n + 1) : k = 1 \/ (k - 1 \in 1..n /\ k = (k - 1) + 1)
      BY <1>3
    <2> QED  BY <2>1
  <1>10. \A k \in 2..(n + 1) : \E i \in 1..n : k = i + 1 /\ k - 1 = i
    <2>1. \A k \in 2..(n + 1) : k - 1 \in 1..n /\ k = (k - 1) + 1
      BY <1>3
    <2> QED  BY <2>1
  <1>11. \A i \in 1..n : i = 1 \/ (i \in 2..n /\ i - 1 \in 1..n /\ (i - 1) + 1 = i)
    BY <1>3
  \* The path of the parent is the shorter one.
  <1>12. /\ Len(t[1].path) \in Nat /\ Len(s[1].path) \in Nat
         /\ Len(t[1].path) < Len(s[1].path) \/ (s[1].slash /\ t[1].path = s[1].path)
    <2>1. Len(s[1].path) \in Nat
      BY <1>1 DEF AllPaths
    <2>2. CASE s[1].slash
      BY <1>1, <1>3, <2>1, <2>2 DEF Parent
    <2>3. CASE ~s[1].slash
      <3>1. parent_path(s[1].path) \in Ancestry(s[1].path) \ {s[1].path}
        BY <1>1, <1>6, <2>3, AncestryFacts DEF HasParent
      <3>2. /\ Len(parent_path(s[1].path)) \in 1..Len(s[1].path)
            /\ Len(parent_path(s[1].path)) < Len(s[1].path)
        BY <1>1, <3>1, AncestryFacts
      <3>3. t[1].path = parent_path(s[1].path)
        BY <1>1, <1>3, <2>3 DEF Parent
      <3> QED  BY <2>1, <3>2, <3>3
    <2> QED  BY <2>2, <2>3
  <1>13. Orderly(t, call[c], Remote(c))
    <2>1. ASSUME NEW k \in 1..(n + 1), t[k].slash
          PROVE  k = n + 1 /\ Remote(c) /\ call[c].slash
      <3>1. PICK i \in 1..n : k = i + 1
        BY <1>1, <1>3, <1>9, <2>1
      <3>2. i = n /\ Remote(c) /\ call[c].slash
        BY <1>4, <1>7, <2>1, <3>1 DEF Orderly, n
      <3> QED  BY <3>1, <3>2
    <2>2. ASSUME NEW j \in 1..(n + 1), NEW k \in 1..(n + 1), j < k
          PROVE  Len(t[j].path) < Len(t[k].path) \/ t[k].slash
      <3>1. k # 1
        BY <1>3, <2>2
      <3>2. PICK i \in 1..n : k = i + 1
        BY <1>9, <3>1
      <3>3. CASE j = 1
        <4>1. CASE i = 1
          BY <1>7, <1>12, <3>2, <3>3, <4>1
        <4>2. CASE i # 1
          <5>1. 1 \in 1..n /\ 1 < i
            BY <1>3, <4>2
          <5>2. Len(s[1].path) < Len(s[i].path) \/ s[i].slash
            BY <1>4, <5>1 DEF Orderly, n
          <5>3. s[1].slash => n = 1
            BY <1>4, <5>1 DEF Orderly, n
          <5>4. ~s[1].slash
            BY <4>2, <5>3
          <5>5. CASE s[i].slash
            BY <1>7, <3>2, <5>5
          <5>6. CASE Len(s[1].path) < Len(s[i].path)
            <6>1. s[i].path \in AllPaths
              <7>1. s[i] \in Wants
                BY <1>1 DEF StackFor, n
              <7> QED  BY <7>1 DEF Wants
            <6>2. Len(s[i].path) \in Nat
              BY <6>1 DEF AllPaths
            <6>3. Len(t[1].path) < Len(s[i].path)
              <7> DEFINE x == Len(t[1].path)
                         y == Len(s[1].path)
                         z == Len(s[i].path)
              <7>1. x \in Nat /\ y \in Nat /\ z \in Nat /\ x < y /\ y < z
                BY <1>12, <5>4, <5>6, <6>2
              <7> HIDE DEF x, y, z
              <7>2. x < z
                BY <7>1
              <7> QED  BY <7>2 DEF x, z
            <6> QED  BY <1>7, <3>2, <3>3, <6>3
          <5> QED  BY <5>2, <5>5, <5>6
        <4> QED  BY <4>1, <4>2
      <3>4. CASE j # 1
        <4>1. PICK l \in 1..n : j = l + 1
          BY <1>9, <3>4
        <4>2. l < i
          BY <2>2, <3>2, <4>1
        <4> QED  BY <1>4, <1>7, <3>2, <4>1, <4>2 DEF Orderly, n
      <3> QED  BY <3>3, <3>4
    <2>3. ASSUME NEW k \in 2..(n + 1)
          PROVE  ~t[k].parents /\ t[k - 1].path = Parent(t[k])
      <3>1. PICK i \in 1..n : k = i + 1 /\ k - 1 = i
        BY <1>10
      <3>2. CASE i = 1
        BY <1>1, <1>3, <1>7, <1>8, <3>1, <3>2
      <3>3. CASE i \in 2..n
        <4>1. ~s[i].parents /\ s[i - 1].path = Parent(s[i])
          BY <1>4, <3>3 DEF Orderly, n
        <4>2. t[i].path = s[i - 1].path
          <5>1. i - 1 \in 1..n /\ (i - 1) + 1 = i
            BY <1>11, <3>3
          <5>2. t[(i - 1) + 1].path = s[i - 1].path
            BY <1>7, <5>1
          <5> QED  BY <5>1, <5>2
        <4> QED  BY <1>7, <1>8, <3>1, <3>3, <4>1, <4>2
      <3> QED  BY <1>11, <3>2, <3>3
    <2>4. call[c].parents
      BY <1>4, <1>6 DEF Orderly
    <2> QED  BY <1>3, <2>1, <2>2, <2>3, <2>4 DEF Orderly
  <1>14. ~disturbed[c] => Kept(start[c], fs')
    BY <1>4, KeptPut DEF Makeable
  <1>15. Ready(t, call[c], fs')
    BY <1>1, <1>3 DEF Ready
  <1>16. ASSUME Remote(c), ~disturbed[c], ~misled'[c]
         PROVE  /\ ~misled[c] /\ fs' = fs /\ ~Placeable(fs, s[1].path)
                /\ Missing(s, path, start[c])
                /\ Kept(start[c], fs)
                /\ ~shared[c] => OwnOnly(s, path, start[c], fs)
    BY <1>1, <1>4, <1>16
  <1>17. ASSUME Remote(c), ~disturbed[c], ~misled'[c]
         PROVE  Missing(t, path, start[c])
    <2>1. ASSUME NEW k \in 2..(n + 1), ~t[k].slash
          PROVE  ~IsDir(start[c], t[k - 1].path)
      <3>1. PICK i \in 1..n : k = i + 1 /\ k - 1 = i
        BY <1>10
      <3>2. CASE i = 1
        <4>1. ~s[1].slash /\ t[1].path = parent_path(s[1].path)
          BY <1>1, <1>3, <1>7, <2>1, <3>1, <3>2 DEF Parent
        <4>2. ~IsDir(fs, parent_path(s[1].path))
          BY <1>16, <1>17 DEF Placeable
        <4>3. ~IsDir(start[c], parent_path(s[1].path))
          BY <1>16, <1>17, <4>2, KeptFacts
        <4> QED  BY <3>1, <3>2, <4>1, <4>3
      <3>3. CASE i \in 2..n
        <4>1. ~s[i].slash
          BY <1>7, <2>1, <3>1
        <4>2. ~IsDir(start[c], s[i - 1].path)
          BY <1>16, <1>17, <3>3, <4>1 DEF Missing, n
        <4>3. t[i].path = s[i - 1].path
          <5>1. i - 1 \in 1..n /\ (i - 1) + 1 = i
            BY <1>11, <3>3
          <5>2. t[(i - 1) + 1].path = s[i - 1].path
            BY <1>7, <5>1
          <5> QED  BY <5>1, <5>2
        <4> QED  BY <3>1, <4>2, <4>3
      <3> QED  BY <1>11, <3>2, <3>3
    <2>2. ASSUME t[n + 1].slash PROVE ~Placeable(start[c], path)
      <3>1. n \in 1..n /\ s[n].slash
        BY <1>3, <1>7, <2>2
      <3>2. CASE n = 1
        <4>1. ~Placeable(fs, path)
          BY <1>5, <1>16, <1>17, <3>2
        <4> QED  BY <1>16, <1>17, <4>1, KeptFacts
      <3>3. CASE n # 1
        <4>1. n >= 2
          BY <1>3, <3>3
        <4> QED  BY <1>16, <1>17, <3>1, <4>1 DEF Missing, n
      <3> QED  BY <3>2, <3>3
    <2> QED  BY <1>3, <2>1, <2>2 DEF Missing
  <1>18. ASSUME Remote(c), ~disturbed[c], ~misled'[c], ~shared[c]
         PROVE  OwnOnly(t, path, start[c], fs')
    <2>1. /\ fs' = fs /\ ~Placeable(fs, s[1].path) /\ OwnOnly(s, path, start[c], fs)
      BY <1>16, <1>18
    <2>2. ASSUME NEW k \in 1..(n + 1), IsDir(fs, t[k].path)
          PROVE  IsDir(start[c], t[k].path) \/ (t[k].slash /\ ~Placeable(start[c], path))
      <3>1. CASE k = 1
        <4>1. CASE s[1].slash
          <5>1. t[1].path = s[1].path
            BY <1>1, <1>3, <4>1 DEF Parent
          <5>2. s[1].path \notin DOMAIN fs
            BY <1>1, <2>1, ParentThere
          <5> QED  BY <2>2, <3>1, <5>1, <5>2 DEF IsDir
        <4>2. CASE ~s[1].slash
          <5>1. t[1].path = parent_path(s[1].path)
            BY <1>1, <1>3, <4>2 DEF Parent
          <5> QED  BY <2>1, <2>2, <3>1, <5>1 DEF Placeable
        <4> QED  BY <4>1, <4>2
      <3>2. CASE k # 1
        <4>1. PICK i \in 1..n : k = i + 1
          BY <1>9, <3>2
        <4> QED  BY <1>7, <2>1, <2>2, <4>1 DEF OwnOnly, n
      <3> QED  BY <3>1, <3>2
    <2> QED  BY <1>3, <2>1, <2>2 DEF OwnOnly
  <1> QED  BY <1>2, <1>13, <1>14, <1>15, <1>17, <1>18 DEF AtMkdir, path

\* A file in the way was there when the call began.
LEMMA FileInTheWay ==
    ASSUME MkdirInv, NEW c \in Clients, pending[c] # <<>>, call[c].op = "mkdir",
           NEW p \in Ancestry(call[c].path), IsFile(fs, p)
    PROVE  Cause(c)
  <1>1. disturbed[c] \/ Kept(start[c], fs)
    BY DEF MkdirInv, AtMkdir
  <1> QED  BY <1>1, KeptFacts DEF Cause

\* What is missing is not made again, or was never to be made.
LEMMA NoParents ==
    ASSUME MkdirInv, NEW c \in Clients, pending[c] # <<>>, call[c].op = "mkdir",
           ~Top(c).parents, ~Placeable(fs, Top(c).path)
    PROVE  Cause(c)
  <1> SUFFICES ASSUME ~disturbed[c] PROVE Cause(c)
    BY DEF Cause
  <1>1. /\ Orderly(pending[c], call[c], Remote(c)) /\ Kept(start[c], fs)
        /\ Ready(pending[c], call[c], fs)
    BY DEF MkdirInv, AtMkdir
  <1>2. Top(c) = pending[c][1] /\ StackFor(pending[c], call[c].path) /\ TreeOK(fs, Files)
    BY TopFacts DEF MkdirInv, IInv, DuringCall, TypeOK
  <1>3. CASE call[c].parents
    <2>1. IsDir(fs, Parent(Top(c)))
      BY <1>1, <1>2, <1>3 DEF Ready
    <2>2. CASE Top(c).slash
      BY <1>2, <2>1, <2>2, ParentThere DEF Parent, IsDir
    <2>3. CASE ~Top(c).slash
      BY <2>1, <2>3 DEF Parent, Placeable
    <2> QED  BY <2>2, <2>3
  <1>4. CASE ~call[c].parents
    <2>1. Len(pending[c]) = 1
      BY <1>1, <1>4 DEF Orderly
    <2>2. Top(c).path = call[c].path
      BY <1>2, <2>1 DEF StackFor
    <2> QED  BY <1>1, <1>4, <2>2, KeptFacts DEF Cause
  <1> QED  BY <1>3, <1>4

\* A directory that is there already, to a server.
LEMMA DirectoryThere ==
    ASSUME MkdirInv, NEW c \in Clients, pending[c] # <<>>, call[c].op = "mkdir", Remote(c),
           IsDir(fs, Top(c).path)
    PROVE  Cause(c)
  <1> SUFFICES ASSUME ~disturbed[c], ~misled[c], ~shared[c] PROVE Cause(c)
    BY DEF Cause
  <1> DEFINE s == pending[c]
             path == call[c].path
  <1>1. /\ Orderly(s, call[c], Remote(c)) /\ Missing(s, path, start[c])
        /\ OwnOnly(s, path, start[c], fs)
    BY DEF MkdirInv, AtMkdir
  <1>2. /\ Top(c) = s[1] /\ StackFor(s, path)
        /\ Len(s) \in Nat /\ Len(s) >= 1 /\ s[Len(s)].path = path
    <2>1. Top(c) = s[1] /\ StackFor(s, path)
      BY TopFacts DEF MkdirInv, IInv, DuringCall
    <2> QED  BY <2>1 DEF StackFor
  <1> HIDE DEF s
  <1>3. 1 \in 1..Len(s)
    BY <1>2
  <1>4. CASE s[1].slash /\ ~Placeable(start[c], path)
    BY <1>1, <1>3, <1>4 DEF Orderly, Cause
  <1>5. CASE IsDir(start[c], s[1].path)
    <2>1. s[1].path = path
      <3>1. CASE Len(s) = 1
        BY <1>2, <3>1
      <3>2. CASE Len(s) # 1
        <4>1. 2 \in 2..Len(s) /\ 2 \in 1..Len(s) /\ 2 - 1 = 1
          <5> DEFINE l == Len(s)
          <5>1. l \in Nat /\ l >= 1 /\ l # 1
            BY <1>2, <3>2
          <5> HIDE DEF l
          <5>2. 2 \in 2..l /\ 2 \in 1..l /\ 2 - 1 = 1
            BY <5>1
          <5> QED  BY <5>2 DEF l
        <4>2. ~s[2].slash => ~IsDir(start[c], s[2 - 1].path)
          BY <1>1, <4>1 DEF Missing
        <4>3. s[2].slash
          BY <1>5, <4>1, <4>2
        <4>4. 2 = Len(s) /\ s[2 - 1].path = Parent(s[2])
          BY <1>1, <4>1, <4>3 DEF Orderly
        <4> QED  BY <1>2, <4>1, <4>3, <4>4 DEF Parent
      <3> QED  BY <3>1, <3>2
    <2> QED  BY <1>5, <2>1 DEF Cause
  <1> QED  BY <1>1, <1>2, <1>3, <1>4, <1>5 DEF OwnOnly

\* A client's step, once it is clear what it does to the client's own call.
LEMMA OneStep ==
    ASSUME MkdirInv, IInv', TypeOK', NEW c \in Clients, TreeChange(c),
           \A d \in Clients : d # c => /\ pending'[d] = pending[d] /\ outcome'[d] = outcome[d]
                                       /\ start'[d] = start[d] /\ call'[d] = call[d]
                                       /\ misled'[d] = misled[d],
           AtMkdir(c)', ForCause(c)'
    PROVE  MkdirInv'
  <1>1. shared' \in [Clients -> BOOLEAN]
    <2>1. CASE shared' = shared
      BY <2>1 DEF MkdirInv
    <2>2. CASE shared' = Others(shared, c)
      <3>1. \A d \in Clients : (shared[d] \/ (d # c /\ pending[d] # <<>>)) \in BOOLEAN
        OBVIOUS
      <3> QED  BY <2>2, <3>1 DEF Others
    <2> QED  BY <2>1, <2>2 DEF TreeChange, Touched, Made, Took
  <1>2. ASSUME NEW d \in Clients PROVE AtMkdir(d)' /\ ForCause(d)'
    <2>1. CASE d # c
      BY <2>1, OthersMkdir
    <2> QED  BY <2>1
  <1> QED  BY <1>1, <1>2 DEF MkdirInv

\* A call ends.
LEMMA EndMkdir ==
    ASSUME MkdirInv, IInv', TypeOK', NEW c \in Clients, NEW how, End(c, how), TreeChange(c),
           UNCHANGED <<call, start>>, MisledOnly(c),
           call[c].op = "mkdir" /\ how = "refused" => Cause(c) /\ Touched /\ UNCHANGED misled
    PROVE  MkdirInv'
  <1>1. pending'[c] = <<>> /\ outcome'[c] = how
    BY DEF MkdirInv, IInv, End, TypeOK
  <1>2. AtMkdir(c)'
    BY <1>1 DEF AtMkdir
  <1>3. ForCause(c)'
    <2> SUFFICES ASSUME call[c].op = "mkdir", how = "refused" PROVE Cause(c)'
      BY <1>1 DEF ForCause
    <2> QED  BY DEF Cause, Touched
  <1>4. \A d \in Clients : d # c => /\ pending'[d] = pending[d] /\ outcome'[d] = outcome[d]
                                    /\ misled'[d] = misled[d]
    BY DEF MkdirInv, IInv, End, TypeOK, MisledOnly
  <1> QED  BY <1>2, <1>3, <1>4, OneStep

\* A call goes on.
LEMMA GoMkdir ==
    ASSUME MkdirInv, IInv', TypeOK', NEW c \in Clients, pending[c] # <<>>, TreeChange(c),
           \E s : pending' = [pending EXCEPT ![c] = s],
           UNCHANGED <<call, start, outcome>>, MisledOnly(c), AtMkdir(c)'
    PROVE  MkdirInv'
  <1>1. outcome[c] = "none"
    BY DEF MkdirInv, IInv, DuringCall
  <1>2. ForCause(c)'
    BY <1>1 DEF ForCause
  <1>3. \A d \in Clients : d # c => pending'[d] = pending[d] /\ misled'[d] = misled[d]
    BY DEF MkdirInv, IInv, MisledOnly
  <1> QED  BY <1>2, <1>3, OneStep

\* What a client makes is not shared.
LEMMA OwnFlag ==
    ASSUME MkdirInv, NEW c \in Clients, Made(c)
    PROVE  shared'[c] = shared[c]
  <1>1. shared'[c] = (shared[c] \/ (c # c /\ pending[c] # <<>>))
    BY DEF Made, Others
  <1>2. shared[c] \in BOOLEAN
    BY DEF MkdirInv
  <1> QED  BY <1>1, <1>2

\* Every step of a client keeps MkdirInv.
LEMMA ClientMkdir ==
    ASSUME MkdirInv, IInv', TypeOK', NEW c \in Clients,
           \/ ThrowIfInterrupted(c) \/ Fault(c) \/ Stat(c) \/ RemovePath(c)
           \/ Rename(c) \/ SftpMkdir(c) \/ LocalMkdir(c)
           \/ AskedInVain(c) \/ RequestLost(c) \/ MkdirLost(c)
    PROVE  MkdirInv'
  <1>1. pending[c] # <<>> /\ UNCHANGED <<call, start>>
    BY DEF ThrowIfInterrupted, Fault, Stat, Asks, RemovePath, Rename, SftpMkdir,
       LocalMkdir, AskedInVain, RequestLost, MkdirLost, At
  <1>2. MisledOnly(c)
    BY DEF ThrowIfInterrupted, Fault, Stat, RemovePath, Rename, SftpMkdir, LocalMkdir,
       AskedInVain, RequestLost, MkdirLost, Status, Misled, MisledOnly
  <1>3. /\ IInv /\ TypeOK /\ TreeOK(fs, Files)
        /\ Top(c).path \in Ancestry(call[c].path) /\ Top(c).path \in AllPaths
        /\ Top(c).path # <<>>
    BY <1>1, TopFacts DEF MkdirInv, TypeOK
  <1>4. CASE ThrowIfInterrupted(c) \/ Fault(c) \/ RequestLost(c) \/ AskedInVain(c)
    <2>1. Touched
      BY <1>4 DEF ThrowIfInterrupted, Fault, RequestLost, AskedInVain
    <2>2. PICK how \in {"interrupted", "fault", "absent"} : End(c, how)
      BY <1>4 DEF ThrowIfInterrupted, Fault, RequestLost, AskedInVain
    <2> QED  BY <1>1, <1>2, <2>1, <2>2, EndMkdir DEF TreeChange
  <1>5. CASE Stat(c) \/ RemovePath(c) \/ Rename(c)
    <2>1. call[c].op # "mkdir"
      BY <1>5 DEF Stat, Asks, RemovePath, Rename, At
    <2>2. TreeChange(c)
      BY <1>5 DEF Stat, RemovePath, Rename, TreeChange
    <2>3. PICK how : End(c, how)
      BY <1>5 DEF Stat, RemovePath, Rename
    <2> QED  BY <1>1, <1>2, <2>1, <2>2, <2>3, EndMkdir
  <1>6. ASSUME Next_(c), TreeChange(c), UNCHANGED disturbed, call[c].op = "mkdir",
               misled'[c] = misled[c], shared'[c] = shared[c], IsDir(fs', Top(c).path),
               fs' = fs \/ (Makeable(Top(c).path) /\ fs' = Put(fs, Top(c).path, Dir))
        PROVE  MkdirInv'
    <2>1. AtMkdir(c)'
      BY <1>1, <1>6, TailMkdir
    <2>2. CASE Len(pending[c]) = 1
      <3>1. End(c, "returned")
        BY <1>6, <2>2 DEF Next_
      <3> QED  BY <1>1, <1>2, <1>6, <3>1, EndMkdir
    <2>3. CASE Len(pending[c]) # 1
      <3>1. (\E s : pending' = [pending EXCEPT ![c] = s]) /\ UNCHANGED outcome
        BY <1>6, <2>3 DEF Next_
      <3> QED  BY <1>1, <1>2, <1>6, <2>1, <3>1, GoMkdir
    <2> QED  BY <2>2, <2>3
  <1>7. ASSUME MakeDirectory(c), call[c].op = "mkdir", UNCHANGED misled
        PROVE  MkdirInv'
    <2>1. /\ Makeable(Top(c).path) /\ fs' = Put(fs, Top(c).path, Dir)
          /\ Made(c) /\ Next_(c)
      BY <1>7 DEF MakeDirectory
    <2>2. IsDir(fs', Top(c).path) /\ TreeChange(c) /\ UNCHANGED disturbed
      BY <2>1, PutGrows DEF TreeChange, Made
    <2>3. shared'[c] = shared[c]
      BY <2>1, OwnFlag
    <2> QED  BY <1>6, <1>7, <2>1, <2>2, <2>3
  <1>8. ASSUME Parents(c), call[c].op = "mkdir", TreeChange(c), UNCHANGED disturbed,
               HasParent(Top(c)), Top(c).parents, shared'[c] = shared[c],
               fs' = fs \/ (Makeable(Top(c).path) /\ fs' = Put(fs, Top(c).path, Dir)),
               Remote(c) => \/ misled'[c]
                            \/ misled'[c] = misled[c] /\ fs' = fs /\ ~Placeable(fs, Top(c).path)
        PROVE  MkdirInv'
    <2>1. AtMkdir(c)'
      BY <1>1, <1>8, ParentsMkdir
    <2>2. (\E s : pending' = [pending EXCEPT ![c] = s]) /\ UNCHANGED outcome
      BY <1>8 DEF Parents
    <2> QED  BY <1>1, <1>2, <1>8, <2>1, <2>2, GoMkdir
  <1>9. ASSUME End(c, "refused"), call[c].op = "mkdir", Cause(c), Touched, UNCHANGED misled
        PROVE  MkdirInv'
    BY <1>1, <1>2, <1>9, EndMkdir DEF TreeChange
  <1>10. CASE SftpMkdir(c)
    <2>1. Remote(c) /\ call[c].op = "mkdir" /\ UNCHANGED misled
      BY <1>10 DEF SftpMkdir, At, Status
    <2>2. CASE MakeDirectory(c)
      BY <1>7, <2>1, <2>2
    <2>3. CASE /\ ~Makeable(Top(c).path) /\ Touched /\ Recurse(c, "refused")
               /\ Status(c, Refused(Placeable(fs, Top(c).path)))
      <3>1. slot'[c] = Refused(Placeable(fs, Top(c).path))
        BY <2>1, <2>3 DEF Status, MkdirInv, TypeOK
      <3>2. CASE /\ Top(c).parents /\ HasParent(Top(c)) /\ slot'[c] = "NO_SUCH_FILE"
                 /\ Parents(c)
        <4>1. ~Placeable(fs, Top(c).path)
          BY <3>1, <3>2 DEF Refused
        <4> QED  BY <1>8, <2>1, <2>3, <3>2, <4>1 DEF Touched, TreeChange
      <3>3. CASE /\ ~(Top(c).parents /\ HasParent(Top(c)) /\ slot'[c] = "NO_SUCH_FILE")
                 /\ End(c, "refused")
        <4>1. Cause(c)
          <5>1. CASE ~Placeable(fs, Top(c).path)
            <6>1. HasParent(Top(c)) /\ slot'[c] = "NO_SUCH_FILE"
              BY <3>1, <5>1 DEF Refused, HasParent, Placeable
            <6> QED  BY <1>1, <2>1, <3>3, <5>1, <6>1, NoParents
          <5>2. CASE Placeable(fs, Top(c).path)
            <6>1. IsFile(fs, Top(c).path) \/ IsDir(fs, Top(c).path)
              BY <2>3, <5>2 DEF Makeable, IsFile, IsDir
            <6> QED  BY <1>1, <1>3, <2>1, <6>1, FileInTheWay, DirectoryThere
          <5> QED  BY <5>1, <5>2
        <4> QED  BY <1>9, <2>1, <2>3, <3>3, <4>1
      <3> QED  BY <2>3, <3>2, <3>3 DEF Recurse
    <2> QED  BY <1>10, <2>2, <2>3 DEF SftpMkdir
  <1>11. CASE MkdirLost(c)
    <2>1. call[c].op = "mkdir" /\ Misled(c) /\ Recurse(c, "fault")
      BY <1>11 DEF MkdirLost, At
    <2>2. /\ TreeChange(c) /\ UNCHANGED disturbed /\ shared'[c] = shared[c]
          /\ fs' = fs \/ (Makeable(Top(c).path) /\ fs' = Put(fs, Top(c).path, Dir))
      <3>1. CASE Touched
        BY <3>1 DEF Touched, TreeChange
      <3>2. CASE Makeable(Top(c).path) /\ fs' = Put(fs, Top(c).path, Dir) /\ Made(c)
        BY <3>2, OwnFlag DEF TreeChange, Made
      <3> QED  BY <1>11, <3>1, <3>2 DEF MkdirLost
    <2>3. CASE /\ Top(c).parents /\ HasParent(Top(c)) /\ slot'[c] = "NO_SUCH_FILE"
               /\ Parents(c)
      <3>1. misled'[c]
        BY <2>1, <2>3 DEF Misled, MkdirInv, IInv
      <3> QED  BY <1>8, <2>1, <2>2, <2>3, <3>1
    <2>4. CASE End(c, "fault")
      BY <1>1, <1>2, <2>2, <2>4, EndMkdir
    <2> QED  BY <2>1, <2>3, <2>4 DEF Recurse
  <1>12. CASE LocalMkdir(c)
    <2> DEFINE p == Top(c).path
               goingUp == Top(c).parents /\ has_parent_path(p)
    <2>1. ~Remote(c) /\ call[c].op = "mkdir" /\ UNCHANGED misled
      BY <1>12 DEF LocalMkdir, Status
    <2>2. CASE MakeDirectory(c)
      BY <1>7, <2>1, <2>2
    <2>3. CASE AlreadyThere(c)
      BY <1>6, <2>1, <2>3 DEF AlreadyThere, Touched, TreeChange, IsDir
    <2>4. CASE goingUp /\ Parents(c) /\ Touched
      BY <1>8, <2>1, <2>4 DEF Touched, TreeChange, HasParent
    <2>5. CASE ~goingUp /\ ~Makeable(p) /\ ~IsDir(fs, p) /\ End(c, "refused") /\ Touched
      <3>1. Cause(c)
        <4>1. CASE IsFile(fs, p)
          BY <1>1, <1>3, <2>1, <4>1, FileInTheWay
        <4>2. CASE p \notin DOMAIN fs
          <5>1. ~Placeable(fs, p) /\ has_parent_path(p)
            BY <2>5, <4>2 DEF Makeable, Placeable
          <5>2. ~Top(c).parents
            BY <2>5, <5>1
          <5> QED  BY <1>1, <2>1, <5>1, <5>2, NoParents
        <4> QED  BY <2>5, <4>1, <4>2 DEF IsFile, IsDir
      <3> QED  BY <1>9, <2>1, <2>5, <3>1
    <2> QED  BY <1>12, <2>2, <2>3, <2>4, <2>5 DEF LocalMkdir
  <1> QED  BY <1>4, <1>5, <1>10, <1>11, <1>12

\* A call begins with an orderly stack and the tree as it is.
LEMMA CallMkdir ==
    ASSUME MkdirInv, IInv', TypeOK', NEW c \in Clients, Call(c)
    PROVE  MkdirInv'
  <1>1. PICK new \in Calls :
            /\ call' = [call EXCEPT ![c] = new]
            /\ pending' = [pending EXCEPT ![c] = <<Wanted(c, new)>>]
    BY DEF Call
  <1>2. /\ outcome' = [outcome EXCEPT ![c] = "none"] /\ start' = [start EXCEPT ![c] = fs]
        /\ disturbed' = [disturbed EXCEPT ![c] = FALSE]
        /\ shared' = [shared EXCEPT ![c] = FALSE]
        /\ misled' = [misled EXCEPT ![c] = FALSE]
        /\ UNCHANGED fs
    BY DEF Call
  <1> DEFINE s == <<Wanted(c, new)>>
  <1>3. /\ call'[c] = new /\ pending'[c] = s /\ start'[c] = fs /\ outcome'[c] = "none"
    BY <1>1, <1>2 DEF MkdirInv, IInv, TypeOK
  <1>4. /\ Len(s) = 1 /\ s[1].path = new.path /\ s[1].parents = new.parents
        /\ s[1].slash = (Remote(c) /\ new.slash)
    BY DEF Wanted, Want
  <1>5. new.slash \in BOOLEAN
    BY AccessAssumption DEF CallType
  <1> HIDE DEF s
  <1>6. Orderly(s, new, Remote(c))
    <2>1. 1..Len(s) = {1} /\ 2..Len(s) = {} /\ ~(1 < 1)
      BY <1>4
    <2> QED  BY <1>4, <2>1 DEF Orderly
  <1>7. Ready(s, new, fs) /\ Missing(s, new.path, fs) /\ OwnOnly(s, new.path, fs, fs)
    BY <1>4 DEF Ready, Missing, OwnOnly
  <1>8. Kept(fs, fs)
    BY DEF Kept
  <1>9. AtMkdir(c)' /\ ForCause(c)'
    <2>1. AtMkdir(c)'
      BY <1>2, <1>3, <1>6, <1>7, <1>8 DEF AtMkdir
    <2> QED  BY <1>3, <2>1 DEF ForCause
  <1>10. ASSUME NEW d \in Clients, d # c PROVE AtMkdir(d)' /\ ForCause(d)'
    <2>1. /\ call'[d] = call[d] /\ pending'[d] = pending[d] /\ start'[d] = start[d]
          /\ outcome'[d] = outcome[d] /\ disturbed'[d] = disturbed[d]
          /\ shared'[d] = shared[d] /\ misled'[d] = misled[d]
      BY <1>1, <1>2, <1>10 DEF MkdirInv, IInv, TypeOK
    <2>2. AtMkdir(d) /\ ForCause(d)
      BY DEF MkdirInv
    <2> QED  BY <1>2, <2>1, <2>2 DEF AtMkdir, ForCause, Cause
  <1> QED  BY <1>2, <1>9, <1>10 DEF MkdirInv

\* Every step keeps MkdirInv.
LEMMA StepMkdir ==
    ASSUME MkdirInv, [Next]_vars
    PROVE  MkdirInv'
  <1>1. IInv' /\ TypeOK'
    BY Step, TypeStep DEF MkdirInv
  <1>2. ASSUME UNCHANGED <<fs, call, outcome, pending, start, disturbed, shared, misled>>
        PROVE  MkdirInv'
    BY <1>1, <1>2 DEF MkdirInv, AtMkdir, ForCause, Cause
  <1>3. CASE UNCHANGED vars
    BY <1>2, <1>3 DEF vars, history
  <1>4. ASSUME NEW c \in Clients, Interrupt(c) PROVE MkdirInv'
    BY <1>2, <1>4 DEF Interrupt, history
  <1> QED  BY <1>1, <1>3, <1>4, ClientMkdir, CallMkdir DEF Next

\* mkdir never refuses without a cause the caller can understand: whatever other
\* clients do and however deep the path.
THEOREM MkdirAlwaysForCause == Spec => []MkdirRefusesForCause
  <1>1. Init => MkdirInv
    <2> SUFFICES ASSUME Init PROVE MkdirInv
      OBVIOUS
    <2>1. IInv /\ TypeOK
      BY Start, InitType
    <2>2. \A c \in Clients : pending[c] = <<>> /\ outcome[c] = "none"
      BY DEF Init
    <2>3. shared \in [Clients -> BOOLEAN]
      BY DEF Init
    <2> QED  BY <2>1, <2>2, <2>3 DEF MkdirInv, AtMkdir, ForCause
  <1>2. MkdirInv /\ [Next]_vars => MkdirInv'
    BY StepMkdir
  <1>3. MkdirInv => MkdirRefusesForCause
    BY DEF MkdirInv, ForCause, Cause, MkdirRefusesForCause
  <1> QED  BY <1>1, <1>2, <1>3, PTL DEF Spec
=============================================================================
