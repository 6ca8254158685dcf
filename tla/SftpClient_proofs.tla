-------------------------- MODULE SftpClient_proofs --------------------------
(* What holds of every client of a session: what holds of the session alone, *)
(* and the promise of SharedSession, for any number of files and watchers.   *)
EXTENDS SftpClient, SftpSession_proofs

\* What the client does is, to the session, one of its own steps or nothing.
LEMMA ClientStepIsSessionStep ==
    ASSUME [ClientNext]_clientVars
    PROVE  [Next]_vars
  <1>1. CASE SessionStep
    BY <1>1 DEF SessionStep, Next
  <1>2. CASE OthersStep
    BY <1>2 DEF OthersStep, Next
  <1>3. CASE DropAccess
    BY <1>3 DEF DropAccess, ReleaseSession, Next
  <1>4. CASE ListThrows
    BY <1>4 DEF ListThrows
  <1>5. CASE ListReturns
    BY <1>5 DEF ListReturns
  <1>6. CASE \E f \in Files : OpenFile(f) \/ DropFile(f)
    BY <1>6 DEF OpenFile, DropFile, ReleaseSession, Next
  <1>7. CASE \E w \in Watchers : DropWatcher(w)
    BY <1>7 DEF DropWatcher, ReleaseSession, Next
  <1>8. CASE \E by \in {Access, "create"} \cup Watchers : List(by)
    BY <1>8 DEF List
  <1>9. CASE UNCHANGED clientVars
    BY <1>9 DEF clientVars
  <1> QED
    BY <1>1, <1>2, <1>3, <1>4, <1>5, <1>6, <1>7, <1>8, <1>9 DEF ClientNext

\* So the session inside a client behaves as SftpSession says: the user is
\* identified only to a host whose key the database has had,
THEOREM ClientHostAlwaysKnownFirst == ClientSpec => []HostIsKnownFirst
  <1>1. ClientInit => HostInv
    BY DEF ClientInit, Init, HostInv, Trusted, Presented
  <1>2. HostInv /\ [ClientNext]_clientVars => HostInv'
    BY HostStep, ClientStepIsSessionStep
  <1>3. HostInv => HostIsKnownFirst
    BY DEF HostInv, HostIsKnownFirst, Trusted
  <1> QED  BY <1>1, <1>2, <1>3, PTL DEF ClientSpec

\* and an open session is one the server has authenticated.
THEOREM ClientAlwaysAuthenticated == ClientSpec => []OpenMeansAuthenticated
  <1>1. ClientInit => AuthInv
    BY DEF ClientInit, Init, AuthInv, Unproved
  <1>2. AuthInv /\ [ClientNext]_clientVars => AuthInv'
    BY AuthStep, ClientStepIsSessionStep
  <1>3. AuthInv => OpenMeansAuthenticated
    BY DEF AuthInv, OpenMeansAuthenticated
  <1> QED  BY <1>1, <1>2, <1>3, PTL DEF ClientSpec

\* Its handles go back in order when the last of its owners goes,
THEOREM ClientHandlesInOrder == ClientSpec => []HandlesInOrder
  <1>1. ClientInit => HandleInv
    BY HandleStart DEF ClientInit
  <1>2. HandleInv /\ [ClientNext]_clientVars => HandleInv'
    BY HandleStep, ClientStepIsSessionStep
  <1>3. HandleInv => HandlesInOrder
    BY StackedInOrder
  <1> QED  BY <1>1, <1>2, <1>3, PTL DEF ClientSpec

\* its variables stay in their types,
THEOREM ClientSessionTypes == ClientSpec => []TypeOK
  <1>1. ClientInit => TypesInv
    BY TypesStart DEF ClientInit
  <1>2. TypesInv /\ [ClientNext]_clientVars => TypesInv'
    BY TypesStep, ClientStepIsSessionStep
  <1>3. TypesInv => TypeOK
    BY Typed DEF TypesInv
  <1> QED  BY <1>1, <1>2, <1>3, PTL DEF ClientSpec

\* an interruption is heeded as soon,
THEOREM ClientInterruptIsPrompt == ClientSpec => []InterruptIsPrompt
  <1>1. ClientInit => PromptInv
    BY DEF ClientInit, Init, PromptInv
  <1>2. PromptInv /\ [ClientNext]_clientVars => PromptInv'
    BY PromptStep, ClientStepIsSessionStep
  <1>3. PromptInv => InterruptIsPrompt
    BY DEF PromptInv, InterruptIsPrompt
  <1> QED  BY <1>1, <1>2, <1>3, PTL DEF ClientSpec

\* and no key of the database is replaced without leave.
THEOREM ClientKeyPinned == ClientSpec => KeyPinned
  <1>1. ClientInit => PinInv
    BY DEF ClientInit, Init, PinInv
  <1>2. PinInv /\ [ClientNext]_clientVars => PinInv'
    BY PinStep, ClientStepIsSessionStep
  <1>3. PinInv /\ [ClientNext]_clientVars =>
            [known' # known /\ rival_steps' = rival_steps
             => known = NoKey \/ opts.allow_changed_host_key \/ raced]_vars
    BY PinnedStep, ClientStepIsSessionStep
  <1> QED  BY <1>1, <1>2, <1>3, PTL DEF ClientSpec, KeyPinned
-----------------------------------------------------------------------------
(* The promise of SharedSession.                                            *)

\* SFTP is there from sftp_new to the end of the open session.
SftpLive == pc \in {"sftp_init", "open"} => "sftp" \in live

\* No step of the constructor or destructor starts from "open"; the one that
\* leads there changes no handle.
LEMMA ConstructorStep ==
    ASSUME SftpLive, Constructor
    PROVE  /\ pc # "open" /\ SftpLive'
           /\ pc' = "open" => live' = live /\ "sftp" \in live
  <1>1. CASE ThrowIfInterrupted \/ Fault \/ NotAuthenticated
    BY <1>1 DEF ThrowIfInterrupted, Fault, NotAuthenticated, Throw, Checked,
       SftpLive
  <1>2. CASE Connect \/ GetServerKey
    BY <1>2 DEF Connect, GetServerKey, Go, At, SftpLive
  <1>3. CASE VerifyHostKey \/ PersistHostKey
    BY <1>3 DEF VerifyHostKey, PersistHostKey, Go, Throw, SftpLive
  <1>4. CASE ListMethods
    BY <1>4 DEF ListMethods, At, Go, Throw, SftpLive
  <1>5. CASE AuthNone
    BY <1>5 DEF AuthNone, Go, AfterNone, SftpLive
  <1>6. CASE ImportIdentity \/ IdentitiesDone \/ ExportPublicKey
    BY <1>6 DEF ImportIdentity, IdentitiesDone, ExportPublicKey, AfterIdentities,
       At, Go, Throw, SftpLive
  <1>7. CASE TryPublicKey
    BY <1>7 DEF TryPublicKey, Go, Throw, SftpLive
  <1>8. CASE PublicKey
    BY <1>8 DEF PublicKey, Go, Throw, SftpLive
  <1>9. CASE Password
    BY <1>9 DEF Password, At, Go, SftpLive
  <1>10. CASE SftpNew
    BY <1>10 DEF SftpNew, At, Go, Own, SftpLive
  <1>11. CASE SftpInit
    BY <1>11 DEF SftpInit, handles, SftpLive
  <1>12. CASE Destroy
    BY <1>12 DEF Destroy, Go, SftpLive
  <1> QED
    BY <1>1, <1>2, <1>3, <1>4, <1>5, <1>6, <1>7, <1>8, <1>9, <1>10, <1>11,
       <1>12 DEF Constructor

\* Why SharedSpec and ClosedInTime are kept: the session is open exactly as long
\* as somebody owns it, a listing has its directory, and who lists is held.
ClientInv ==
    /\ ClientTypeOK
    /\ SftpLive
    /\ pc = "open" <=> Owned
    /\ open = files \cup (IF call = "none" THEN {} ELSE {Dir})
    /\ call \in {Access, "create"} => access
    /\ call \in Watchers => call \in watchers

LEMMA ClientStart == ClientInit => ClientInv
  BY SftpClientAssumption
  DEF ClientInit, Init, ClientInv, ClientTypeOK, SftpLive, Owned, Access

\* While the session is not open nobody has anything.
LEMMA NothingHeld ==
    ASSUME ClientInv, pc # "open"
    PROVE  ~access /\ files = {} /\ watchers = {} /\ open = {} /\ call = "none"
  BY DEF ClientInv, Owned, ClientTypeOK

\* The end of a destructor closes the session, or leaves it open for the others.
LEMMA Released ==
    ASSUME pc = "open", SftpLive, ReleaseSession
    PROVE  /\ live' = live /\ SftpLive'
           /\ pc' = "open" <=> Owned'
  BY DEF ReleaseSession, Close, Go, handles, SftpLive, vars

\* What others do neither opens nor closes the session, and leaves SFTP alone.
LEMMA OthersOutside ==
    ASSUME SftpLive, OthersStep
    PROVE  /\ SftpLive' /\ (pc' = "open" <=> pc = "open")
           /\ "sftp" \in live' <=> "sftp" \in live
  BY DEF OthersStep, Construct, Interrupt, RivalPersist, HostKeyChanges,
     RivalTurn, Own, handles, SftpLive

\* Every step of the client keeps ClientInv.
LEMMA ClientStep ==
    ASSUME ClientInv, [ClientNext]_clientVars
    PROVE  ClientInv'
  <1> USE SftpClientAssumption DEF Access, Dir
  <1>1. CASE SessionStep
    <2>1. pc # "open" /\ SftpLive'
      BY <1>1, ConstructorStep DEF SessionStep, ClientInv
    <2>2. ~access /\ files = {} /\ watchers = {} /\ open = {} /\ call = "none"
      BY <2>1, NothingHeld
    <2> QED
      BY <1>1, <2>1, <2>2 DEF SessionStep, ClientInv, ClientTypeOK, Owned
  <1>2. CASE OthersStep
    <2>1. SftpLive' /\ (pc' = "open" <=> pc = "open")
      BY <1>2, OthersOutside DEF ClientInv
    <2> QED
      BY <1>2, <2>1 DEF OthersStep, client, ClientInv, ClientTypeOK, Owned
  <1>3. CASE DropAccess
    <2>1. pc = "open" /\ SftpLive
      BY <1>3 DEF DropAccess, ClientInv, Owned
    <2>2. SftpLive' /\ (pc' = "open" <=> Owned')
      BY <1>3, <2>1, Released DEF DropAccess
    <2> QED
      BY <1>3, <2>2 DEF DropAccess, ClientInv, ClientTypeOK
  <1>4. CASE ListThrows
    BY <1>4 DEF ListThrows, vars, handles, ClientInv, ClientTypeOK, SftpLive, Owned
  <1>5. CASE ListReturns
    <2>1. pc = "open"
      BY <1>5 DEF ListReturns, ClientInv, ClientTypeOK, Owned
    <2> QED
      BY <1>5, <2>1 DEF ListReturns, vars, handles, ClientInv, ClientTypeOK, SftpLive,
         Owned
  <1>6. ASSUME NEW f \in Files, OpenFile(f)
        PROVE  ClientInv'
    BY <1>6 DEF OpenFile, MayRequest, vars, handles, ClientInv, ClientTypeOK,
       SftpLive, Owned
  <1>7. ASSUME NEW f \in Files, DropFile(f)
        PROVE  ClientInv'
    <2>1. pc = "open" /\ SftpLive
      BY <1>7 DEF DropFile, ClientInv, Owned
    <2>2. SftpLive' /\ (pc' = "open" <=> Owned')
      BY <1>7, <2>1, Released DEF DropFile
    <2> QED
      BY <1>7, <2>2 DEF DropFile, ClientInv, ClientTypeOK
  <1>8. ASSUME NEW w \in Watchers, DropWatcher(w)
        PROVE  ClientInv'
    <2>1. pc = "open" /\ SftpLive
      BY <1>8 DEF DropWatcher, ClientInv, Owned
    <2>2. SftpLive' /\ (pc' = "open" <=> Owned')
      BY <1>8, <2>1, Released DEF DropWatcher
    <2> QED
      BY <1>8, <2>2 DEF DropWatcher, ClientInv, ClientTypeOK
  <1>9. ASSUME NEW by \in {Access, "create"} \cup Watchers, List(by)
        PROVE  ClientInv'
    BY <1>9 DEF List, MayRequest, vars, handles, ClientInv, ClientTypeOK,
       SftpLive, Owned
  <1>10. CASE UNCHANGED clientVars
    BY <1>10 DEF clientVars, client, vars, handles, ClientInv, ClientTypeOK,
       SftpLive, Owned
  <1> QED
    BY <1>1, <1>2, <1>3, <1>4, <1>5, <1>6, <1>7, <1>8, <1>9, <1>10
       DEF ClientNext

\* The client's variables stay in their types.
THEOREM ClientTypeCorrect == ClientSpec => []ClientTypeOK
  <1>1. ClientInv => ClientTypeOK
    BY DEF ClientInv
  <1>2. ClientInv /\ [ClientNext]_clientVars => ClientInv'
    BY ClientStep
  <1> QED  BY <1>1, <1>2, ClientStart, PTL DEF ClientSpec

\* No handle outlives the session, and none is lost.
THEOREM AlwaysClosedInTime == ClientSpec => []ClosedInTime
  <1>1. ClientInv => ClosedInTime
    BY DEF ClientInv, ClosedInTime, SftpLive, Owned, ClientTypeOK
  <1>2. ClientInv /\ [ClientNext]_clientVars => ClientInv'
    BY ClientStep
  <1> QED  BY <1>1, <1>2, ClientStart, PTL DEF ClientSpec

\* Every step of the client is one of SharedSession, or nothing to it.
LEMMA ClientStepIsShared ==
    ASSUME ClientInv, [ClientNext]_clientVars
    PROVE  [Shared!Next]_(Shared!vars)
  <1> USE SftpClientAssumption DEF Access, Dir
  <1>1. CASE SessionStep
    <2>1. pc # "open" /\ (pc' = "open" => live' = live /\ "sftp" \in live)
      BY <1>1, ConstructorStep DEF SessionStep, ClientInv
    <2>2. ~access /\ files = {} /\ watchers = {} /\ open = {}
      BY <2>1, NothingHeld
    <2>3. files' = {} /\ watchers' = {} /\ open' = {} /\ access' = (pc' = "open")
      BY <1>1, <2>2 DEF SessionStep
    <2>4. CASE pc' = "open"
      <3>1. Shared!Receive(Access)
        BY <2>1, <2>2, <2>3, <2>4 DEF Shared!Receive
      <3> QED  BY <3>1 DEF Shared!Next
    <2>5. CASE pc' # "open"
      <3> DEFINE held == (IF access THEN {Access} ELSE {}) \cup files \cup watchers
      <3>1. held' = held /\ open' = open /\ held = {}
        BY <2>2, <2>3, <2>5 DEF held
      <3>2. CASE "sftp" \notin live /\ "sftp" \in live'
        <4>1. Shared!Make
          BY <3>1, <3>2 DEF Shared!Make, held
        <4> QED  BY <4>1 DEF Shared!Next
      <3>3. CASE "sftp" \in live /\ "sftp" \notin live'
        <4>1. Shared!Free
          BY <2>2, <3>1, <3>3 DEF Shared!Free, held
        <4> QED  BY <4>1 DEF Shared!Next
      <3>4. CASE ("sftp" \in live) <=> ("sftp" \in live')
        BY <3>1, <3>4 DEF Shared!vars, held
      <3> QED  BY <3>2, <3>3, <3>4
    <2> QED  BY <2>4, <2>5
  <1>2. CASE OthersStep
    <2>1. "sftp" \in live' <=> "sftp" \in live
      BY <1>2, OthersOutside DEF ClientInv
    <2> QED
      BY <1>2, <2>1 DEF OthersStep, client, Shared!vars
  <1>3. CASE DropAccess
    <2>1. live' = live
      BY <1>3, Released DEF DropAccess, ClientInv, Owned
    <2>2. Shared!Drop(Access)
      BY <1>3, <2>1 DEF DropAccess, ClientInv, ClientTypeOK, Shared!Drop
    <2> QED  BY <2>2 DEF Shared!Next
  <1>4. CASE ListThrows
    <2>1. Shared!EndList
      BY <1>4 DEF ListThrows, vars, handles, ClientInv, ClientTypeOK, SftpLive,
         Owned, Shared!EndList
    <2> QED  BY <2>1 DEF Shared!Next
  <1>5. CASE ListReturns
    <2>1. live' = live /\ "sftp" \in live
      BY <1>5 DEF ListReturns, vars, handles, ClientInv, ClientTypeOK, SftpLive,
         Owned
    <2>2. CASE UNCHANGED watchers
      <3>1. Shared!EndList
        BY <1>5, <2>1, <2>2 DEF ListReturns, Shared!EndList
      <3> QED  BY <3>1 DEF Shared!Next
    <2>3. CASE \E w \in Watchers : watchers' = watchers \cup {w}
      <3>1. PICK w \in Watchers : watchers' = watchers \cup {w}
        BY <2>3
      <3>2. Shared!Receive(w)
        BY <1>5, <2>1, <3>1 DEF ListReturns, Shared!Receive
      <3> QED  BY <3>2 DEF Shared!Next
    <2> QED  BY <1>5, <2>2, <2>3 DEF ListReturns
  <1>6. ASSUME NEW f \in Files, OpenFile(f)
        PROVE  [Shared!Next]_(Shared!vars)
    <2>1. Shared!Receive(f)
      BY <1>6 DEF OpenFile, vars, handles, ClientInv, SftpLive, Owned,
         Shared!Receive
    <2> QED  BY <2>1 DEF Shared!Next
  <1>7. ASSUME NEW f \in Files, DropFile(f)
        PROVE  [Shared!Next]_(Shared!vars)
    <2>1. live' = live
      BY <1>7, Released DEF DropFile, ClientInv, Owned
    <2>2. Shared!Drop(f)
      BY <1>7, <2>1 DEF DropFile, ClientInv, ClientTypeOK, Shared!Drop
    <2> QED  BY <2>2 DEF Shared!Next
  <1>8. ASSUME NEW w \in Watchers, DropWatcher(w)
        PROVE  [Shared!Next]_(Shared!vars)
    <2>1. live' = live
      BY <1>8, Released DEF DropWatcher, ClientInv, Owned
    <2>2. Shared!Drop(w)
      BY <1>8, <2>1 DEF DropWatcher, ClientInv, ClientTypeOK, Shared!Drop
    <2> QED  BY <2>2 DEF Shared!Next
  <1>9. ASSUME NEW by \in {Access, "create"} \cup Watchers, List(by)
        PROVE  [Shared!Next]_(Shared!vars)
    <2>1. Shared!List
      BY <1>9 DEF List, vars, handles, ClientInv, SftpLive, Owned, Shared!List
    <2> QED  BY <2>1 DEF Shared!Next
  <1>10. CASE UNCHANGED clientVars
    BY <1>10 DEF clientVars, client, vars, handles, Shared!vars
  <1> QED
    BY <1>1, <1>2, <1>3, <1>4, <1>5, <1>6, <1>7, <1>8, <1>9, <1>10
       DEF ClientNext

\* The client implements SharedSession: the order in which the application drops
\* what it has does not matter.
THEOREM ImplementsSharedSession == ClientSpec => SharedSpec
  <1>1. ClientInit => Shared!Init
    BY DEF ClientInit, Init, Shared!Init
  <1>2. ClientInv /\ [ClientNext]_clientVars => ClientInv'
    BY ClientStep
  <1>3. ClientInv /\ [ClientNext]_clientVars => [Shared!Next]_(Shared!vars)
    BY ClientStepIsShared
  <1> QED
    BY <1>1, <1>2, <1>3, ClientStart, PTL DEF ClientSpec, SharedSpec, Shared!Spec
=============================================================================
