------------------------- MODULE SftpSession_proofs -------------------------
(* What holds of every session, for any options, keys, identities and rivals.*)
EXTENDS SftpSession, TLAPS

\* The points after the host key was accepted, and after it was presented.
Trusted == {"auth_none", "identity", "export", "try", "publickey", "password",
            "sftp_new", "sftp_init", "open"}
Presented == Trusted \cup {"get_key", "verify", "persist", "list"}

\* Why HostIsKnownFirst is inductive: what the database holds has been recorded,
\* and between verify and the end of construction the key does not change.
HostInv ==
    /\ host_key \in HostKeys
    /\ known \in recorded \cup {NoKey}
    /\ pc \in Presented => key \in HostKeys
    /\ pc \in Trusted \cup {"list"} => key \in recorded

\* Every step keeps HostInv: only verify and persist lead to authentication,
\* and nothing is ever taken out of `recorded'.
LEMMA HostStep ==
    ASSUME HostInv, [Next]_vars
    PROVE  HostInv'
  <1>1. CASE ThrowIfInterrupted
    BY <1>1 DEF ThrowIfInterrupted, Throw, Checked, HostInv, Trusted, Presented,
       server, rest, auth
  <1>2. CASE Fault
    BY <1>2 DEF Fault, Throw, Checked, HostInv, Trusted, Presented, server,
       rest, auth
  <1>3. CASE Construct
    BY <1>3 DEF Construct, Own, HostInv, Trusted, Presented, server, rest, auth
  <1>4. CASE Connect
    BY <1>4 DEF Connect, Go, Own, HostInv, Trusted, Presented, server, rest,
       auth
  <1>5. CASE GetServerKey
    BY <1>5 DEF GetServerKey, At, Go, Own, HostInv, Trusted, Presented, server,
       rest, auth
  <1>6. CASE VerifyHostKey
    BY <1>6, SftpSessionAssumption DEF VerifyHostKey, Go, Throw, HostInv,
       Trusted, Presented, server, rest, auth
  <1>7. CASE PersistHostKey
    BY <1>7 DEF PersistHostKey, Go, HostInv, Trusted, Presented, server, rest,
       auth
  <1>8. CASE ListMethods
    BY <1>8 DEF ListMethods, At, Go, Throw, Replies, Reply, HostInv, Trusted,
       Presented, server, rest, auth
  <1>9. CASE AuthNone
    BY <1>9 DEF AuthNone, Go, AfterNone, Replies, Reply, HostInv, Trusted,
       Presented, server, rest, auth
  <1>10. CASE ImportIdentity
    BY <1>10 DEF ImportIdentity, At, Go, Own, HostInv, Trusted, Presented,
       server, rest, auth
  <1>11. CASE IdentitiesDone
    BY <1>11 DEF IdentitiesDone, Go, AfterIdentities, HostInv, Trusted,
       Presented, server, rest, auth
  <1>12. CASE ExportPublicKey
    BY <1>12 DEF ExportPublicKey, Go, Throw, HostInv, Trusted, Presented,
       server, rest, auth
  <1>13. CASE TryPublicKey
    BY <1>13 DEF TryPublicKey, Go, Throw, Reply, Replies, HostInv, Trusted,
       Presented, server, rest, auth
  <1>14. CASE PublicKey
    BY <1>14 DEF PublicKey, Go, Throw, Reply, Replies, HostInv, Trusted,
       Presented, server, rest, auth
  <1>15. CASE Password
    BY <1>15 DEF Password, At, Go, Reply, Replies, HostInv, Trusted, Presented,
       server, rest, auth
  <1>16. CASE NotAuthenticated
    BY <1>16 DEF NotAuthenticated, Throw, HostInv, Trusted, Presented, server,
       rest, auth
  <1>17. CASE SftpNew
    BY <1>17 DEF SftpNew, At, Go, HostInv, Trusted, Presented, server, rest,
       auth
  <1>18. CASE SftpInit
    BY <1>18 DEF SftpInit, HostInv, Trusted, Presented, server, rest, auth
  <1>19. CASE Close
    BY <1>19 DEF Close, Go, HostInv, Trusted, Presented, server, rest, auth
  <1>20. CASE Destroy
    BY <1>20 DEF Destroy, Go, HostInv, Trusted, Presented, server, rest, auth
  <1>21. CASE Interrupt
    BY <1>21 DEF Interrupt, HostInv, Trusted, Presented, server, rest, auth
  <1>22. CASE RivalPersist
    BY <1>22 DEF RivalPersist, RivalTurn, HostInv, Trusted, Presented, server,
       rest, auth
  <1>23. CASE HostKeyChanges
    BY <1>23 DEF HostKeyChanges, RivalTurn, HostInv, Trusted, Presented, server,
       rest, auth
  <1>24. CASE UNCHANGED vars
    BY <1>24 DEF vars, HostInv, Trusted, Presented, server, rest, auth
  <1> QED
    BY <1>1, <1>2, <1>3, <1>4, <1>5, <1>6, <1>7, <1>8,
       <1>9, <1>10, <1>11, <1>12, <1>13, <1>14, <1>15, <1>16,
       <1>17, <1>18, <1>19, <1>20, <1>21, <1>22, <1>23, <1>24
       DEF Next, Constructor

\* The user is identified only to a host whose key the database has had.
THEOREM HostAlwaysKnownFirst == Spec => []HostIsKnownFirst
  <1>1. Init => HostInv
    BY DEF Init, HostInv, Trusted, Presented
  <1>2. HostInv /\ [Next]_vars => HostInv'
    BY HostStep
  <1>3. HostInv => HostIsKnownFirst
    BY DEF HostInv, HostIsKnownFirst, Trusted
  <1> QED  BY <1>1, <1>2, <1>3, PTL DEF Spec

\* The points before any method was successful.
Unproved == {"connect", "get_key", "verify", "persist", "list", "auth_none"}

\* Why OpenMeansAuthenticated is inductive: the flag is not set before the first
\* method, is never set without the server, and SFTP starts only with it.
AuthInv ==
    /\ authenticated \in BOOLEAN
    /\ pc \in Unproved => ~authenticated
    /\ pc \in {"sftp_init", "open"} => authenticated
    /\ authenticated => user = "opts"

\* Every step keeps AuthInv.
LEMMA AuthStep ==
    ASSUME AuthInv, [Next]_vars
    PROVE  AuthInv'
  <1>1. CASE ThrowIfInterrupted
    BY <1>1 DEF ThrowIfInterrupted, Throw, Checked, AuthInv, Unproved, server,
       rest, auth
  <1>2. CASE Fault
    BY <1>2 DEF Fault, Throw, Checked, AuthInv, Unproved, server, rest, auth
  <1>3. CASE Construct
    BY <1>3 DEF Construct, Own, AuthInv, Unproved, server, rest, auth
  <1>4. CASE Connect
    BY <1>4 DEF Connect, Go, Own, AuthInv, Unproved, server, rest, auth
  <1>5. CASE GetServerKey
    BY <1>5 DEF GetServerKey, At, Go, Own, AuthInv, Unproved, server, rest, auth
  <1>6. CASE VerifyHostKey
    BY <1>6 DEF VerifyHostKey, Go, Throw, AuthInv, Unproved, server, rest, auth
  <1>7. CASE PersistHostKey
    BY <1>7 DEF PersistHostKey, Go, AuthInv, Unproved, server, rest, auth
  <1>8. CASE ListMethods
    BY <1>8 DEF ListMethods, At, Go, Throw, Replies, Reply, AuthInv, Unproved,
       server, rest, auth
  <1>9. CASE AuthNone
    <2>1. pc' \in {"identity", "password", "sftp_new"}
      BY <1>9 DEF AuthNone, Go, AfterNone
    <2>2. authenticated = FALSE
      BY <1>9 DEF AuthNone, AuthInv, Unproved
    <2>3. authenticated' \in BOOLEAN /\ (authenticated' => user' = "opts")
      <3>1. CASE "none" \notin methods
        <4>1. authenticated' = authenticated
          BY <1>9, <3>1 DEF AuthNone
        <4> QED  BY <2>2, <4>1
      <3>2. CASE "none" \in methods
        BY <1>9, <3>2, Zenon DEF AuthNone
      <3> QED  BY <3>1, <3>2
    <2> QED  BY <2>1, <2>3 DEF AuthInv, Unproved
  <1>10. CASE ImportIdentity
    BY <1>10 DEF ImportIdentity, At, Go, Own, AuthInv, Unproved, server, rest,
       auth
  <1>11. CASE IdentitiesDone
    BY <1>11 DEF IdentitiesDone, Go, AfterIdentities, AuthInv, Unproved, server,
       rest, auth
  <1>12. CASE ExportPublicKey
    BY <1>12 DEF ExportPublicKey, Go, Throw, AuthInv, Unproved, server, rest,
       auth
  <1>13. CASE TryPublicKey
    BY <1>13 DEF TryPublicKey, Go, Throw, Reply, Replies, AuthInv, Unproved,
       server, rest, auth
  <1>14. CASE PublicKey
    BY <1>14 DEF PublicKey, Go, Throw, Reply, Replies, AuthInv, Unproved,
       server, rest, auth
  <1>15. CASE Password
    BY <1>15 DEF Password, At, Go, Reply, Replies, AuthInv, Unproved, server,
       rest, auth
  <1>16. CASE NotAuthenticated
    BY <1>16 DEF NotAuthenticated, Throw, AuthInv, Unproved, server, rest, auth
  <1>17. CASE SftpNew
    BY <1>17 DEF SftpNew, At, Go, AuthInv, Unproved, server, rest, auth
  <1>18. CASE SftpInit
    BY <1>18 DEF SftpInit, AuthInv, Unproved, server, rest, auth
  <1>19. CASE Close
    BY <1>19 DEF Close, Go, AuthInv, Unproved, server, rest, auth
  <1>20. CASE Destroy
    BY <1>20 DEF Destroy, Go, AuthInv, Unproved, server, rest, auth
  <1>21. CASE Interrupt
    BY <1>21 DEF Interrupt, AuthInv, Unproved, server, rest, auth
  <1>22. CASE RivalPersist
    BY <1>22 DEF RivalPersist, RivalTurn, AuthInv, Unproved, server, rest, auth
  <1>23. CASE HostKeyChanges
    BY <1>23 DEF HostKeyChanges, RivalTurn, AuthInv, Unproved, server, rest,
       auth
  <1>24. CASE UNCHANGED vars
    BY <1>24 DEF vars, AuthInv, Unproved, server, rest, auth
  <1> QED
    BY <1>1, <1>2, <1>3, <1>4, <1>5, <1>6, <1>7, <1>8,
       <1>9, <1>10, <1>11, <1>12, <1>13, <1>14, <1>15, <1>16,
       <1>17, <1>18, <1>19, <1>20, <1>21, <1>22, <1>23, <1>24
       DEF Next, Constructor

\* An open session is one the server has authenticated as the options' user.
THEOREM OpenAlwaysAuthenticated == Spec => []OpenMeansAuthenticated
  <1>1. Init => AuthInv
    BY DEF Init, AuthInv, Unproved
  <1>2. AuthInv /\ [Next]_vars => AuthInv'
    BY AuthStep
  <1>3. AuthInv => OpenMeansAuthenticated
    BY DEF AuthInv, OpenMeansAuthenticated
  <1> QED  BY <1>1, <1>2, <1>3, PTL DEF Spec

\* Why KeyPinned holds: between verify and persist the database has no key, or
\* the options allow another, or somebody else has saved one since.
PinInv ==
    /\ rival_steps \in Nat
    /\ pc = "persist" => known = NoKey \/ opts.allow_changed_host_key \/ raced

\* Every step keeps PinInv.
LEMMA PinStep ==
    ASSUME PinInv, [Next]_vars
    PROVE  PinInv'
  <1>1. CASE ThrowIfInterrupted
    BY <1>1 DEF ThrowIfInterrupted, Throw, Checked, PinInv, server, rest, auth
  <1>2. CASE Fault
    BY <1>2 DEF Fault, Throw, Checked, PinInv, server, rest, auth
  <1>3. CASE Construct
    BY <1>3 DEF Construct, Own, PinInv, server, rest, auth
  <1>4. CASE Connect
    BY <1>4 DEF Connect, Go, Own, PinInv, server, rest, auth
  <1>5. CASE GetServerKey
    BY <1>5 DEF GetServerKey, At, Go, Own, PinInv, server, rest, auth
  <1>6. CASE VerifyHostKey
    BY <1>6 DEF VerifyHostKey, Go, Throw, PinInv, server, rest, auth
  <1>7. CASE PersistHostKey
    BY <1>7 DEF PersistHostKey, Go, PinInv, server, rest, auth
  <1>8. CASE ListMethods
    BY <1>8 DEF ListMethods, At, Go, Throw, Replies, Reply, PinInv, server,
       rest, auth
  <1>9. CASE AuthNone
    BY <1>9 DEF AuthNone, Go, AfterNone, Replies, Reply, PinInv, server, rest,
       auth
  <1>10. CASE ImportIdentity
    BY <1>10 DEF ImportIdentity, At, Go, Own, PinInv, server, rest, auth
  <1>11. CASE IdentitiesDone
    BY <1>11 DEF IdentitiesDone, Go, AfterIdentities, PinInv, server, rest, auth
  <1>12. CASE ExportPublicKey
    BY <1>12 DEF ExportPublicKey, Go, Throw, PinInv, server, rest, auth
  <1>13. CASE TryPublicKey
    BY <1>13 DEF TryPublicKey, Go, Throw, Reply, Replies, PinInv, server, rest,
       auth
  <1>14. CASE PublicKey
    BY <1>14 DEF PublicKey, Go, Throw, Reply, Replies, PinInv, server, rest,
       auth
  <1>15. CASE Password
    BY <1>15 DEF Password, At, Go, Reply, Replies, PinInv, server, rest, auth
  <1>16. CASE NotAuthenticated
    BY <1>16 DEF NotAuthenticated, Throw, PinInv, server, rest, auth
  <1>17. CASE SftpNew
    BY <1>17 DEF SftpNew, At, Go, PinInv, server, rest, auth
  <1>18. CASE SftpInit
    BY <1>18 DEF SftpInit, PinInv, server, rest, auth
  <1>19. CASE Close
    BY <1>19 DEF Close, Go, PinInv, server, rest, auth
  <1>20. CASE Destroy
    BY <1>20 DEF Destroy, Go, PinInv, server, rest, auth
  <1>21. CASE Interrupt
    BY <1>21 DEF Interrupt, PinInv, server, rest, auth
  <1>22. CASE RivalPersist
    <2>1. rival_steps' \in Nat /\ pc' = pc
      BY <1>22 DEF RivalPersist, RivalTurn, PinInv
    <2>2. pc = "persist" => raced'
      BY <1>22, Zenon DEF RivalPersist
    <2> QED  BY <2>1, <2>2, Zenon DEF PinInv
  <1>23. CASE HostKeyChanges
    BY <1>23 DEF HostKeyChanges, RivalTurn, PinInv, server, rest, auth
  <1>24. CASE UNCHANGED vars
    BY <1>24 DEF vars, PinInv, server, rest, auth
  <1> QED
    BY <1>1, <1>2, <1>3, <1>4, <1>5, <1>6, <1>7, <1>8,
       <1>9, <1>10, <1>11, <1>12, <1>13, <1>14, <1>15, <1>16,
       <1>17, <1>18, <1>19, <1>20, <1>21, <1>22, <1>23, <1>24
       DEF Next, Constructor

\* Among the steps that are not a rival's only persist changes the database.
LEMMA PinnedStep ==
    ASSUME PinInv, [Next]_vars, known' # known, rival_steps' = rival_steps
    PROVE  known = NoKey \/ opts.allow_changed_host_key \/ raced
  <1>1. CASE ThrowIfInterrupted
    BY <1>1 DEF ThrowIfInterrupted, Throw, Checked, PinInv, server, rest, auth
  <1>2. CASE Fault
    BY <1>2 DEF Fault, Throw, Checked, PinInv, server, rest, auth
  <1>3. CASE Construct
    BY <1>3 DEF Construct, Own, PinInv, server, rest, auth
  <1>4. CASE Connect
    BY <1>4 DEF Connect, Go, Own, PinInv, server, rest, auth
  <1>5. CASE GetServerKey
    BY <1>5 DEF GetServerKey, At, Go, Own, PinInv, server, rest, auth
  <1>6. CASE VerifyHostKey
    BY <1>6 DEF VerifyHostKey, Go, Throw, PinInv, server, rest, auth
  <1>7. CASE PersistHostKey
    BY <1>7 DEF PersistHostKey, Go, PinInv, server, rest, auth
  <1>8. CASE ListMethods
    BY <1>8 DEF ListMethods, At, Go, Throw, Replies, Reply, PinInv, server,
       rest, auth
  <1>9. CASE AuthNone
    BY <1>9 DEF AuthNone, Go, AfterNone, Replies, Reply, PinInv, server, rest,
       auth
  <1>10. CASE ImportIdentity
    BY <1>10 DEF ImportIdentity, At, Go, Own, PinInv, server, rest, auth
  <1>11. CASE IdentitiesDone
    BY <1>11 DEF IdentitiesDone, Go, AfterIdentities, PinInv, server, rest, auth
  <1>12. CASE ExportPublicKey
    BY <1>12 DEF ExportPublicKey, Go, Throw, PinInv, server, rest, auth
  <1>13. CASE TryPublicKey
    BY <1>13 DEF TryPublicKey, Go, Throw, Reply, Replies, PinInv, server, rest,
       auth
  <1>14. CASE PublicKey
    BY <1>14 DEF PublicKey, Go, Throw, Reply, Replies, PinInv, server, rest,
       auth
  <1>15. CASE Password
    BY <1>15 DEF Password, At, Go, Reply, Replies, PinInv, server, rest, auth
  <1>16. CASE NotAuthenticated
    BY <1>16 DEF NotAuthenticated, Throw, PinInv, server, rest, auth
  <1>17. CASE SftpNew
    BY <1>17 DEF SftpNew, At, Go, PinInv, server, rest, auth
  <1>18. CASE SftpInit
    BY <1>18 DEF SftpInit, PinInv, server, rest, auth
  <1>19. CASE Close
    BY <1>19 DEF Close, Go, PinInv, server, rest, auth
  <1>20. CASE Destroy
    BY <1>20 DEF Destroy, Go, PinInv, server, rest, auth
  <1>21. CASE Interrupt
    BY <1>21 DEF Interrupt, PinInv, server, rest, auth
  <1>22. CASE RivalPersist
    BY <1>22 DEF RivalPersist, RivalTurn, PinInv, server, rest, auth
  <1>23. CASE HostKeyChanges
    BY <1>23 DEF HostKeyChanges, RivalTurn, PinInv, server, rest, auth
  <1>24. CASE UNCHANGED vars
    BY <1>24 DEF vars, PinInv, server, rest, auth
  <1> QED
    BY <1>1, <1>2, <1>3, <1>4, <1>5, <1>6, <1>7, <1>8,
       <1>9, <1>10, <1>11, <1>12, <1>13, <1>14, <1>15, <1>16,
       <1>17, <1>18, <1>19, <1>20, <1>21, <1>22, <1>23, <1>24
       DEF Next, Constructor

\* The session replaces no key without leave, unless it was raced.
THEOREM KeyAlwaysPinned == Spec => KeyPinned
  <1>1. Init => PinInv
    BY DEF Init, PinInv
  <1>2. PinInv /\ [Next]_vars => PinInv'
    BY PinStep
  <1>3. PinInv /\ [Next]_vars =>
            [known' # known /\ rival_steps' = rival_steps
             => known = NoKey \/ opts.allow_changed_host_key \/ raced]_vars
    BY PinnedStep
  <1> QED  BY <1>1, <1>2, <1>3, PTL DEF Spec, KeyPinned
-----------------------------------------------------------------------------
(* The handles, and the types.                                              *)

\* What may be owned above what.
Level(k) == IF k = 1 THEN {"ssh"} ELSE IF k = 2 THEN {"connection"}
            ELSE IF k = 3 THEN {"server_key", "private_key", "sftp"}
            ELSE {"public_key"}

Handles == {"ssh", "connection", "server_key", "private_key", "sftp", "public_key"}

\* The stack of handles is in order, and libssh has given out nothing else,
\* an exported key excepted.
Stacked ==
    /\ owned \in Seq(Handles) /\ Len(owned) \in 0..4
    /\ \A k \in 1..Len(owned) : owned[k] \in Level(k)
    /\ \A k \in 1..Len(owned) : owned[k] \in live
    /\ \A handle \in live \ {"public_key"} :
          \E k \in 1..Len(owned) : owned[k] = handle

\* There are no other handles.
LEMMA LevelIsOfHandles ==
    ASSUME NEW k \in Nat
    PROVE  Level(k) \subseteq Handles
  BY DEF Level, Handles

\* A handle that may stand above the others is put there.
LEMMA OwnStacked ==
    ASSUME Stacked, Len(owned) < 4, NEW handle \in Level(Len(owned) + 1), Own(handle)
    PROVE  /\ Stacked' /\ Len(owned') = Len(owned) + 1
           /\ owned'[Len(owned')] = handle
  <1>1. handle \in Handles
    BY LevelIsOfHandles DEF Stacked
  <1>2. /\ owned' \in Seq(Handles) /\ Len(owned') = Len(owned) + 1
        /\ live' = live \cup {handle}
    BY <1>1 DEF Own, Stacked
  <1>3. /\ owned'[Len(owned) + 1] = handle
        /\ \A k \in 1..Len(owned) : owned'[k] = owned[k]
    BY <1>1 DEF Own, Stacked
  <1>4. \A k \in 1..Len(owned') : owned'[k] \in Level(k) /\ owned'[k] \in live'
    <2> TAKE k \in 1..Len(owned')
    <2>1. k = Len(owned) + 1 \/ k \in 1..Len(owned)
      BY <1>2 DEF Stacked
    <2> QED  BY <1>2, <1>3, <2>1 DEF Stacked
  <1>5. \A h \in live' \ {"public_key"} : \E k \in 1..Len(owned') : owned'[k] = h
    <2> TAKE h \in live' \ {"public_key"}
    <2>1. CASE h = handle
      BY <1>2, <1>3, <2>1 DEF Stacked
    <2>2. CASE h # handle
      <3>1. PICK k \in 1..Len(owned) : owned[k] = h
        BY <1>2, <2>2 DEF Stacked
      <3> QED  BY <1>2, <1>3, <3>1 DEF Stacked
    <2> QED  BY <2>1, <2>2
  <1> QED  BY <1>2, <1>3, <1>4, <1>5 DEF Stacked

\* No handle may stand at two levels, so that one released is not owned below.
LEMMA Distinct ==
    ASSUME NEW j \in 1..4, NEW k \in 1..4, NEW h \in Level(j), h \in Level(k)
    PROVE  j = k
  BY DEF Level

\* Releasing the uppermost handles leaves the others owned and alive.
LEMMA ReleaseStacked ==
    ASSUME Stacked, NEW n \in 0..Len(owned), Release(n)
    PROVE  Stacked' /\ Len(owned') = Len(owned) - n
  <1>1. /\ owned' \in Seq(Handles) /\ Len(owned') = Len(owned) - n
        /\ \A k \in 1..Len(owned') : owned'[k] = owned[k]
    BY DEF Release, Stacked
  <1>2. \A k \in 1..Len(owned') : owned'[k] \in Level(k) /\ owned'[k] \in live'
    <2> TAKE k \in 1..Len(owned')
    <2>1. k \in 1..Len(owned) /\ k <= Len(owned) - n
      BY <1>1 DEF Stacked
    <2>2. owned[k] \in Level(k) /\ owned[k] \in live
      BY <2>1 DEF Stacked
    <2>3. \A j \in (Len(owned) - n + 1)..Len(owned) : owned[j] # owned[k]
      <3> TAKE j \in (Len(owned) - n + 1)..Len(owned)
      <3>1. j \in 1..Len(owned) /\ j # k /\ j \in 1..4 /\ k \in 1..4
        BY <2>1 DEF Stacked
      <3> QED  BY <2>2, <3>1, Distinct DEF Stacked
    <2> QED  BY <1>1, <2>2, <2>3 DEF Release
  <1>3. \A h \in live' \ {"public_key"} : \E k \in 1..Len(owned') : owned'[k] = h
    <2> TAKE h \in live' \ {"public_key"}
    <2>1. PICK k \in 1..Len(owned) : owned[k] = h
      BY DEF Release, Stacked
    <2>2. k \notin (Len(owned) - n + 1)..Len(owned)
      BY <2>1 DEF Release
    <2> QED  BY <1>1, <2>1, <2>2 DEF Stacked
  <1>4. Len(owned') \in 0..4
    <2>1. \A l \in 0..4 : \A m \in 0..l : l - m \in 0..4
      OBVIOUS
    <2> QED  BY <1>1, <2>1 DEF Stacked
  <1> QED  BY <1>1, <1>2, <1>3, <1>4 DEF Stacked

\* The scope of one object ends.
LEMMA ReleaseOne ==
    ASSUME Stacked, Len(owned) >= 1, Release(1)
    PROVE  Stacked' /\ Len(owned') = Len(owned) - 1
  <1>1. 1 \in 0..Len(owned)
    BY DEF Stacked
  <1> QED  BY <1>1, ReleaseStacked

\* As ReleaseOne, for two.
LEMMA ReleaseTwo ==
    ASSUME Stacked, Len(owned) = 4, Release(2)
    PROVE  Stacked' /\ Len(owned') = 2
  <1>1. 2 \in 0..Len(owned) /\ 4 - 2 = 2
    OBVIOUS
  <1>2. Stacked' /\ Len(owned') = Len(owned) - 2
    BY <1>1, ReleaseStacked
  <1> QED  BY <1>1, <1>2

\* Nothing is owned or released.
LEMMA KeepStacked ==
    ASSUME Stacked, UNCHANGED handles
    PROVE  Stacked' /\ owned' = owned
  BY DEF Stacked, handles

\* OwnStacked for the SSH session.
LEMMA OwnSsh ==
    ASSUME Stacked, Len(owned) = 0, Own("ssh")
    PROVE  Stacked' /\ Len(owned') = 1
  <1>1. "ssh" \in Level(Len(owned) + 1)
    BY DEF Level
  <1> QED  BY <1>1, OwnStacked

\* OwnStacked for the connection.
LEMMA OwnConnection ==
    ASSUME Stacked, Len(owned) = 1, Own("connection")
    PROVE  Stacked' /\ Len(owned') = 2
  <1>1. "connection" \in Level(Len(owned) + 1)
    BY DEF Level
  <1> QED  BY <1>1, OwnStacked

\* OwnStacked for what the connection carries.
LEMMA OwnThird ==
    ASSUME Stacked, Len(owned) = 2,
           NEW handle \in {"server_key", "private_key", "sftp"}, Own(handle)
    PROVE  Stacked' /\ Len(owned') = 3 /\ owned'[3] = handle
  <1>1. handle \in Level(Len(owned) + 1)
    BY DEF Level
  <1> QED  BY <1>1, OwnStacked

\* OwnStacked for the key exported from a private one.
LEMMA OwnPublicKey ==
    ASSUME Stacked, Len(owned) = 3, Own("public_key")
    PROVE  Stacked' /\ Len(owned') = 4
  <1>1. "public_key" \in Level(Len(owned) + 1)
    BY DEF Level
  <1> QED  BY <1>1, OwnStacked

\* How many handles are owned at each point, while nothing is being undone.
One == {"connect"}
Two == {"get_key", "list", "auth_none", "identity", "password", "sftp_new"}
Three == {"verify", "persist", "export", "sftp_init", "open"}
Four == {"try", "publickey"}

\* Why HandlesInOrder is inductive: at each point the stack has its height, and
\* what was released is not alive.
HandleInv ==
    /\ Stacked /\ pc \in Points
    /\ pc = "none" => Len(owned) = 0
    /\ pc \in One => Len(owned) = 1
    /\ pc \in Two => Len(owned) = 2
    /\ pc \in Three => Len(owned) = 3
    /\ pc \in Four => Len(owned) = 4
    /\ pc \in {"sftp_init", "open"} => owned[3] = "sftp"

\* Every step keeps HandleInv.
LEMMA HandleStep ==
    ASSUME HandleInv, [Next]_vars
    PROVE  HandleInv'
  <1> USE DEF One, Two, Three, Four, Points
  <1>1. CASE ThrowIfInterrupted \/ Fault \/ NotAuthenticated
    BY <1>1, KeepStacked DEF ThrowIfInterrupted, Fault, NotAuthenticated, Throw,
       Checked, HandleInv
  <1>2. CASE Construct
    BY <1>2, OwnSsh DEF Construct, HandleInv
  <1>3. CASE Connect
    BY <1>3, OwnConnection DEF Connect, Go, HandleInv
  <1>4. CASE GetServerKey
    BY <1>4, OwnThird DEF GetServerKey, At, Go, HandleInv
  <1>5. CASE VerifyHostKey
    <2>1. Stacked /\ Len(owned) = 3
      BY <1>5 DEF VerifyHostKey, HandleInv
    <2>2. CASE Go("list") /\ Release(1)
      <3>1. Stacked' /\ Len(owned') = 2
        BY <2>1, <2>2, ReleaseOne
      <3> QED  BY <2>2, <3>1 DEF Go, HandleInv
    <2>3. CASE pc' \in {"persist", "unwind"} /\ UNCHANGED handles
      BY <2>1, <2>3, KeepStacked DEF HandleInv
    <2> QED  BY <1>5, <2>2, <2>3 DEF VerifyHostKey, Go, Throw
  <1>6. CASE PersistHostKey
    <2>1. Len(owned) = 3 /\ Release(1) /\ pc' = "list"
      BY <1>6 DEF PersistHostKey, Go, HandleInv
    <2>2. Stacked' /\ Len(owned') = 2
      BY <2>1, ReleaseOne DEF HandleInv
    <2> QED  BY <2>1, <2>2 DEF HandleInv
  <1>7. CASE ListMethods
    BY <1>7, KeepStacked DEF ListMethods, At, Go, Throw, HandleInv
  <1>8. CASE AuthNone
    BY <1>8, KeepStacked DEF AuthNone, Go, AfterNone, HandleInv
  <1>9. CASE ImportIdentity
    BY <1>9, OwnThird DEF ImportIdentity, At, Go, HandleInv
  <1>10. CASE IdentitiesDone
    BY <1>10, KeepStacked DEF IdentitiesDone, Go, AfterIdentities, HandleInv
  <1>11. CASE ExportPublicKey
    <2>1. CASE Own("public_key") /\ Go("try")
      BY <1>11, <2>1, OwnPublicKey DEF ExportPublicKey, Go, HandleInv
    <2>2. CASE /\ live' = live \cup {"public_key"} /\ Throw("not_public")
               /\ UNCHANGED owned
      <3>1. Stacked'
        BY <2>2 DEF HandleInv, Stacked
      <3> QED  BY <2>2, <3>1 DEF Throw, HandleInv
    <2> QED  BY <1>11, <2>1, <2>2 DEF ExportPublicKey
  <1>12. CASE TryPublicKey
    BY <1>12, KeepStacked, ReleaseTwo DEF TryPublicKey, Go, Throw, HandleInv
  <1>13. CASE PublicKey
    BY <1>13, KeepStacked, ReleaseTwo DEF PublicKey, Go, Throw, HandleInv
  <1>14. CASE Password
    BY <1>14, KeepStacked DEF Password, At, Go, HandleInv
  <1>15. CASE SftpNew
    BY <1>15, OwnThird DEF SftpNew, At, Go, HandleInv
  <1>16. CASE SftpInit
    BY <1>16, KeepStacked DEF SftpInit, HandleInv
  <1>17. CASE Close
    BY <1>17, KeepStacked DEF Close, Go, HandleInv
  <1>18. CASE Destroy
    <2>1. CASE owned = <<>> /\ Go("none") /\ UNCHANGED handles
      BY <2>1, KeepStacked DEF Go, HandleInv
    <2>2. CASE owned # <<>> /\ Go(pc) /\ Release(1)
      <3>1. Len(owned) >= 1
        BY <2>2 DEF HandleInv, Stacked
      <3> QED  BY <1>18, <2>2, <3>1, ReleaseOne DEF Destroy, Go, HandleInv
    <2> QED  BY <1>18, <2>1, <2>2 DEF Destroy
  <1>19. CASE Interrupt \/ RivalPersist \/ HostKeyChanges
    BY <1>19, KeepStacked DEF Interrupt, RivalPersist, HostKeyChanges, RivalTurn,
       HandleInv
  <1>20. CASE UNCHANGED vars
    BY <1>20, KeepStacked DEF vars, HandleInv
  <1> QED
    BY <1>1, <1>2, <1>3, <1>4, <1>5, <1>6, <1>7, <1>8, <1>9, <1>10, <1>11,
       <1>12, <1>13, <1>14, <1>15, <1>16, <1>17, <1>18, <1>19, <1>20
       DEF Next, Constructor

\* What is alive is owned, and below it is what it belongs to.
LEMMA StackedInOrder == HandleInv => HandlesInOrder
  <1> SUFFICES ASSUME HandleInv PROVE HandlesInOrder
    OBVIOUS
  <1>1. ASSUME NEW h \in {"connection", "sftp"}, h \in live
        PROVE  \E k \in 1..Len(owned) : h \in Level(k)
    BY <1>1 DEF HandleInv, Stacked
  <1>2. "sftp" \in live => Len(owned) >= 3
    BY <1>1 DEF Level, HandleInv, Stacked
  <1>3. "connection" \in live => Len(owned) >= 2
    BY <1>1 DEF Level, HandleInv, Stacked
  <1>4. Len(owned) >= 1 => "ssh" \in live
    BY DEF Level, HandleInv, Stacked
  <1>5. Len(owned) >= 2 => "connection" \in live
    BY DEF Level, HandleInv, Stacked
  <1>6. pc = "none" => live \subseteq {"public_key"}
    BY DEF HandleInv, Stacked, One, Two, Three, Four, Points
  <1>7. pc = "open" => live \ {"public_key"} = {"ssh", "connection", "sftp"}
    BY <1>4, <1>5 DEF HandleInv, Stacked, One, Two, Three, Four, Points, Level
  <1> QED
    BY <1>2, <1>3, <1>4, <1>5, <1>6, <1>7 DEF HandlesInOrder, HandleInv, Stacked

\* Nothing is owned or alive at the start.
LEMMA HandleStart == Init => HandleInv
  BY DEF Init, HandleInv, Stacked, Points, One, Two, Three, Four

\* On every way out the handles go back in order.
THEOREM HandlesAlwaysInOrder == Spec => []HandlesInOrder
  <1>1. Init => HandleInv
    BY HandleStart
  <1>2. HandleInv /\ [Next]_vars => HandleInv'
    BY HandleStep
  <1>3. HandleInv => HandlesInOrder
    BY StackedInOrder
  <1> QED  BY <1>1, <1>2, <1>3, PTL DEF Spec
-----------------------------------------------------------------------------
\* What holds of the variables that neither HostInv, AuthInv nor HandleInv types.
Outcomes == {"none", "returned", "interrupted", "fault", "auth", "not_public",
             "ssh_host_key_unknown", "ssh_host_key_changed"}

TypeInv ==
    /\ user \in {"nobody", "process", "opts"}
    /\ known \in HostKeys \cup {NoKey} /\ key \in HostKeys \cup {NoKey}
    /\ recorded \subseteq HostKeys
    /\ opts \in Options /\ outcome \in Outcomes
    /\ methods \subseteq {"none", "publickey", "password"}
    /\ identities \in 0..MaxIdentities
    /\ late \in Nat
    /\ sessions \in 0..MaxSessions /\ rival_steps \in 0..MaxRivalSteps

\* Every step keeps them; a key that is saved is one the host has presented.
LEMMA TypeStep ==
    ASSUME HostInv, TypeInv, [Next]_vars
    PROVE  TypeInv'
  <1> USE SftpSessionAssumption DEF Outcomes
  <1>1. CASE ThrowIfInterrupted
    BY <1>1 DEF ThrowIfInterrupted, Throw, TypeInv, server, rest, auth
  <1>2. CASE Fault
    BY <1>2 DEF Fault, Throw, TypeInv, server, rest, auth
  <1>3. CASE Construct
    BY <1>3 DEF Construct, TypeInv, server
  <1>4. CASE Connect
    BY <1>4 DEF Connect, Go, TypeInv, HostInv, rest, auth
  <1>5. CASE GetServerKey
    BY <1>5 DEF GetServerKey, At, Go, TypeInv, server, rest, auth
  <1>6. CASE VerifyHostKey
    BY <1>6 DEF VerifyHostKey, Go, Throw, TypeInv, server, rest, auth
  <1>7. CASE PersistHostKey
    BY <1>7 DEF PersistHostKey, Go, TypeInv, HostInv, Presented, server, rest, auth
  <1>8. CASE ListMethods
    BY <1>8 DEF ListMethods, At, Go, Throw, TypeInv, rest
  <1>9. CASE AuthNone
    BY <1>9 DEF AuthNone, Go, TypeInv, rest
  <1>10. CASE ImportIdentity
    BY <1>10 DEF ImportIdentity, At, Go, TypeInv, server, rest
  <1>11. CASE IdentitiesDone
    BY <1>11 DEF IdentitiesDone, Go, TypeInv, server, rest
  <1>12. CASE ExportPublicKey
    BY <1>12 DEF ExportPublicKey, Go, Throw, TypeInv, server, rest, auth
  <1>13. CASE TryPublicKey
    BY <1>13 DEF TryPublicKey, Go, Throw, Unchecked, TypeInv, server, rest, auth
  <1>14. CASE PublicKey
    BY <1>14 DEF PublicKey, Go, Throw, Unchecked, TypeInv, rest
  <1>15. CASE Password
    BY <1>15 DEF Password, At, Go, TypeInv, rest
  <1>16. CASE NotAuthenticated
    BY <1>16 DEF NotAuthenticated, Throw, TypeInv, server, rest, auth
  <1>17. CASE SftpNew
    BY <1>17 DEF SftpNew, At, Go, TypeInv, server, rest, auth
  <1>18. CASE SftpInit
    BY <1>18 DEF SftpInit, Unchecked, TypeInv, server, rest
  <1>19. CASE Close
    BY <1>19 DEF Close, Go, TypeInv, server, rest, auth
  <1>20. CASE Destroy
    BY <1>20 DEF Destroy, Go, TypeInv, server, rest, auth
  <1>21. CASE Interrupt
    BY <1>21 DEF Interrupt, TypeInv, server, rest, auth
  <1>22. CASE RivalPersist
    BY <1>22 DEF RivalPersist, RivalTurn, TypeInv, rest, auth
  <1>23. CASE HostKeyChanges
    BY <1>23 DEF HostKeyChanges, RivalTurn, TypeInv, rest, auth
  <1>24. CASE UNCHANGED vars
    BY <1>24 DEF vars, TypeInv, server, rest, auth
  <1> QED
    BY <1>1, <1>2, <1>3, <1>4, <1>5, <1>6, <1>7, <1>8,
       <1>9, <1>10, <1>11, <1>12, <1>13, <1>14, <1>15, <1>16,
       <1>17, <1>18, <1>19, <1>20, <1>21, <1>22, <1>23, <1>24
       DEF Next, Constructor

\* Two flags.
Flags == interrupted \in BOOLEAN /\ raced \in BOOLEAN

\* They stay flags.
LEMMA FlagStep ==
    ASSUME Flags, [Next]_vars
    PROVE  Flags'
  <1>1. CASE UNCHANGED <<interrupted, raced>>
    BY <1>1 DEF Flags
  <1>2. CASE interrupted' = TRUE /\ UNCHANGED raced
    BY <1>2 DEF Flags
  <1>3. CASE raced' = FALSE /\ UNCHANGED interrupted
    BY <1>3 DEF Flags
  <1>4. CASE RivalPersist
    BY <1>4, Zenon DEF RivalPersist, RivalTurn, Flags
  <1> QED
    BY <1>1, <1>2, <1>3, <1>4
       DEF Next, Constructor, ThrowIfInterrupted, Fault, Connect, GetServerKey,
       VerifyHostKey, PersistHostKey, ListMethods, AuthNone, ImportIdentity,
       IdentitiesDone, ExportPublicKey, TryPublicKey, PublicKey, Password,
       NotAuthenticated, SftpNew, SftpInit, Destroy, Construct, Close, Interrupt,
       HostKeyChanges, RivalTurn, At, vars

\* The invariants together give the types.
LEMMA Typed ==
    ASSUME HostInv, AuthInv, HandleInv, TypeInv, Flags
    PROVE  TypeOK
  <1>1. ToSet(owned) \subseteq live
    BY DEF ToSet, HandleInv, Stacked
  <1> QED  BY <1>1 DEF TypeOK, HostInv, AuthInv, HandleInv, TypeInv, Flags, Outcomes

TypesInv == HostInv /\ AuthInv /\ HandleInv /\ TypeInv /\ Flags

\* They hold at the start.
LEMMA TypesStart == Init => TypesInv
  <1> SUFFICES ASSUME Init PROVE TypesInv
    OBVIOUS
  <1>1. HostInv /\ AuthInv
    BY DEF Init, HostInv, AuthInv, Trusted, Presented, Unproved
  <1>2. recorded \subseteq HostKeys
    BY DEF Init
  <1>3. TypeInv
    BY <1>2, SftpSessionAssumption DEF Init, TypeInv, Outcomes
  <1>4. Flags
    BY DEF Init, Flags
  <1> QED  BY <1>1, <1>3, <1>4, HandleStart DEF TypesInv

\* As TypesStart, for a step.
LEMMA TypesStep == TypesInv /\ [Next]_vars => TypesInv'
  BY HostStep, AuthStep, HandleStep, TypeStep, FlagStep DEF TypesInv

\* The variables of a session stay in their types, and what an object owns libssh
\* has given.
THEOREM TypeCorrect == Spec => []TypeOK
  <1>1. TypesInv => TypeOK
    BY Typed DEF TypesInv
  <1> QED  BY TypesStart, TypesStep, <1>1, PTL DEF Spec
-----------------------------------------------------------------------------
\* Why InterruptIsPrompt is inductive: requests are counted only from the
\* interruption on, a key is tried, and SFTP started, only after a check, and
\* used only after it was tried.
PromptInv ==
    /\ late \in Nat /\ late <= 2
    /\ ~interrupted => late = 0
    /\ pc \in {"export", "try", "sftp_init"} => late = 0
    /\ pc = "publickey" => late <= 1

\* Every step keeps PromptInv.
LEMMA PromptStep ==
    ASSUME PromptInv, [Next]_vars
    PROVE  PromptInv'
  <1>1. CASE ThrowIfInterrupted
    BY <1>1 DEF ThrowIfInterrupted, Throw, PromptInv
  <1>2. CASE Fault
    BY <1>2 DEF Fault, Throw, PromptInv
  <1>3. CASE Construct
    BY <1>3 DEF Construct, PromptInv
  <1>4. CASE Connect
    BY <1>4 DEF Connect, Go, PromptInv
  <1>5. CASE GetServerKey
    BY <1>5 DEF GetServerKey, At, Go, PromptInv
  <1>6. CASE VerifyHostKey
    BY <1>6 DEF VerifyHostKey, Go, Throw, PromptInv
  <1>7. CASE PersistHostKey
    BY <1>7 DEF PersistHostKey, Go, PromptInv
  <1>8. CASE ListMethods
    BY <1>8 DEF ListMethods, At, Go, Throw, PromptInv
  <1>9. CASE AuthNone
    BY <1>9 DEF AuthNone, Go, AfterNone, PromptInv
  <1>10. CASE ImportIdentity
    BY <1>10 DEF ImportIdentity, At, Go, PromptInv
  <1>11. CASE IdentitiesDone
    BY <1>11 DEF IdentitiesDone, Go, AfterIdentities, PromptInv
  <1>12. CASE ExportPublicKey
    BY <1>12 DEF ExportPublicKey, Go, Throw, PromptInv
  <1>13. CASE TryPublicKey
    BY <1>13 DEF TryPublicKey, Go, Throw, Unchecked, PromptInv
  <1>14. CASE PublicKey
    BY <1>14 DEF PublicKey, Go, Throw, Unchecked, PromptInv
  <1>15. CASE Password
    BY <1>15 DEF Password, At, Go, PromptInv
  <1>16. CASE NotAuthenticated
    BY <1>16 DEF NotAuthenticated, Throw, PromptInv
  <1>17. CASE SftpNew
    BY <1>17 DEF SftpNew, At, Go, PromptInv
  <1>18. CASE SftpInit
    BY <1>18 DEF SftpInit, Unchecked, PromptInv
  <1>19. CASE Close
    BY <1>19 DEF Close, Go, PromptInv
  <1>20. CASE Destroy
    BY <1>20 DEF Destroy, Go, PromptInv
  <1>21. CASE Interrupt
    BY <1>21 DEF Interrupt, PromptInv
  <1>22. CASE RivalPersist \/ HostKeyChanges
    BY <1>22 DEF RivalPersist, HostKeyChanges, RivalTurn, PromptInv
  <1>23. CASE UNCHANGED vars
    BY <1>23 DEF vars, PromptInv
  <1> QED
    BY <1>1, <1>2, <1>3, <1>4, <1>5, <1>6, <1>7, <1>8, <1>9,
       <1>10, <1>11, <1>12, <1>13, <1>14, <1>15, <1>16, <1>17,
       <1>18, <1>19, <1>20, <1>21, <1>22, <1>23 DEF Next, Constructor

\* After the interruptor is raised at most two requests go out.
THEOREM InterruptAlwaysPrompt == Spec => []InterruptIsPrompt
  <1>1. Init => PromptInv
    BY DEF Init, PromptInv
  <1>2. PromptInv /\ [Next]_vars => PromptInv'
    BY PromptStep
  <1>3. PromptInv => InterruptIsPrompt
    BY DEF PromptInv, InterruptIsPrompt
  <1> QED  BY <1>1, <1>2, <1>3, PTL DEF Spec
=============================================================================
