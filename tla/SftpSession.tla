---------------------------- MODULE SftpSession -----------------------------
(* sftp/sftp_session.cpp: the constructor of session::impl connects, checks  *)
(* the host key against the application's database, authenticates, starts    *)
(* SFTP and keeps what it has; an exception on the way undoes it. With the   *)
(* handles of ssh_connection.cpp, ssh_server_pubkey.cpp, ssh_pubkey_hash.cpp,*)
(* ssh_private_key.cpp and ssh_public_key.cpp. One thread makes sessions one *)
(* after the other; other threads raise the interruptor and other sessions   *)
(* use the database; the server answers as it likes.                         *)
EXTENDS Naturals, Sequences, SequencesExt

CONSTANTS
    Options,        \* the options a session is made with
    HostKeys,       \* public keys the host may have
    NoKey,          \* the database has no key of the host
    MaxIdentities,  \* bound: private keys the identity factory creates
    MaxSessions,    \* bound: sessions made
    MaxRivalSteps   \* bound: keys saved by other sessions, keys changed

OptionType == [allow_unknown_host_key : BOOLEAN, allow_changed_host_key : BOOLEAN,
               password : BOOLEAN]

ASSUME SftpSessionAssumption ==
    /\ Options \subseteq OptionType /\ Options # {}
    /\ HostKeys # {} /\ NoKey \notin HostKeys
    /\ MaxIdentities \in Nat /\ MaxSessions \in Nat /\ MaxRivalSteps \in Nat

VARIABLES
    host_key,       \* the key the host has now
    user,           \* whom the server has authenticated: "nobody", "process"
                    \* (the user of a request without a name) or "opts"
    known,          \* the database's key of the host
    opts, interrupted,
    pc, outcome,    \* "none" is between sessions, "open" after construction
    key,            \* the key the host presented
    methods,        \* ssh_userauth_list
    identities,     \* how many the loop has still to try
    authenticated,
    live,           \* the handles libssh has given out
    owned,          \* those an object will release, in order of construction
    sessions, rival_steps,       \* what the bounds count
    recorded, raced, late        \* history, read by properties only: keys the
                                 \* database has had; a rival saved one since
                                 \* verify; requests sent after the interrupt

server == <<host_key, user>>
auth == <<methods, identities, authenticated>>
handles == <<live, owned>>
rest == <<opts, sessions>>
vars == <<server, known, rest, interrupted, pc, outcome, key, auth, handles,
          rival_steps, recorded, raced, late>>

Replies == {"SUCCESS", "DENIED", "PARTIAL", "AGAIN", "ERROR"}

Points == {"none", "connect", "get_key", "verify", "persist", "list", "auth_none",
           "identity", "export", "try", "publickey", "password", "sftp_new",
           "sftp_init", "open", "closing", "unwind"}

Init ==
    /\ host_key \in HostKeys /\ user = "nobody"
    /\ known \in HostKeys \cup {NoKey} /\ recorded = {known} \ {NoKey}
    /\ opts \in Options /\ interrupted = FALSE
    /\ pc = "none" /\ outcome = "none" /\ key = NoKey
    /\ methods = {} /\ identities = 0 /\ authenticated = FALSE
    /\ live = {} /\ owned = <<>>
    /\ sessions = 0 /\ rival_steps = 0 /\ raced = FALSE /\ late = 0
-----------------------------------------------------------------------------
Go(point) == pc' = point /\ UNCHANGED outcome

\* An exception: the objects of the constructor are destroyed, last one first.
Throw(error) == pc' = "unwind" /\ outcome' = error

Own(handle) == live' = live \cup {handle} /\ owned' = Append(owned, handle)

\* Mutant: a destructor that does not forget its handle.
ReleaseKept(n) ==
    /\ live' = live \ {owned[k] : k \in (Len(owned) - n + 1)..Len(owned)}
    /\ UNCHANGED owned

\* The scope of the n objects made last ends.
Release(n) ==
    /\ live' = live \ {owned[k] : k \in (Len(owned) - n + 1)..Len(owned)}
    /\ owned' = SubSeq(owned, 1, Len(owned) - n)

\* A request to the server that no throw_if_interrupted() comes before.
Unchecked == late' = IF interrupted THEN late + 1 ELSE late

\* throw_if_interrupted() lets the constructor pass.
At(point) == pc = point /\ ~interrupted /\ UNCHANGED <<interrupted, late>>

Checked == {"connect", "get_key", "list", "auth_none", "identity", "password",
            "sftp_new"}

\* Lines 141, 182, 199, 218, 260, 281, and connect_status_callback.
ThrowIfInterrupted ==
    /\ pc \in Checked /\ interrupted
    /\ pc = "auth_none" => "none" \in methods
    /\ pc = "identity" => identities > 0
    /\ pc = "sftp_new" => authenticated
    /\ Throw("interrupted")
    /\ UNCHANGED <<server, known, rest, interrupted, key, auth, handles,
                   rival_steps, recorded, raced, late>>

\* ssh_connect, a key function, a request or a member of the database fails, or
\* the factory, which is called before the loop's first check.
Fault ==
    /\ pc \in {"connect", "get_key", "verify", "persist", "list", "identity",
               "export", "sftp_new", "sftp_init"}
    /\ pc \in {"get_key", "list", "sftp_new"} => ~interrupted
    /\ pc = "identity" => identities > 0
    /\ pc = "sftp_new" => authenticated
    /\ Throw("fault")
    /\ UNCHANGED <<server, known, rest, interrupted, key, auth, handles,
                   rival_steps, recorded, raced, late>>

\* The application makes a session: ssh_new.
Construct ==
    /\ pc = "none" /\ sessions < MaxSessions /\ sessions' = sessions + 1
    /\ opts' \in Options
    /\ pc' = "connect" /\ outcome' = "none"
    /\ key' = NoKey /\ methods' = {} /\ identities' = 0 /\ authenticated' = FALSE
    /\ Own("ssh")
    /\ late' = 0 /\ raced' = FALSE
    /\ UNCHANGED <<server, known, interrupted, rival_steps, recorded>>

\* ssh_connect returns SSH_OK; the host has presented its key.
Connect ==
    /\ pc = "connect" /\ Go("get_key")
    /\ Own("connection")
    /\ user' = "nobody" /\ key' = host_key
    /\ UNCHANGED <<host_key, known, rest, interrupted, auth, rival_steps,
                   recorded, raced, late>>
-----------------------------------------------------------------------------
(* The host key.                                                            *)

GetServerKey ==
    /\ At("get_key") /\ Go("verify")
    /\ Own("server_key") /\ raced' = FALSE
    /\ UNCHANGED <<server, known, rest, key, auth, rival_steps, recorded>>

\* Mutant: a key that is not known is accepted without being saved.
VerifyWithoutPersist ==
    /\ pc = "verify"
    /\ \/ (known \in {key, NoKey} \/ opts.allow_changed_host_key)
          /\ Go("list") /\ Release(1)
       \/ known \notin {key, NoKey} /\ ~opts.allow_changed_host_key
          /\ Throw("ssh_host_key_changed") /\ UNCHANGED handles
    /\ raced' = FALSE
    /\ UNCHANGED <<server, known, rest, interrupted, key, auth, rival_steps,
                   recorded, late>>

\* Mutant: one option lets both kinds pass.
VerifyOneOption ==
    /\ pc = "verify"
    /\ \/ known = key /\ Go("list") /\ Release(1)
       \/ known # key /\ opts.allow_unknown_host_key
          /\ Go("persist") /\ UNCHANGED handles
       \/ known # key /\ ~opts.allow_unknown_host_key
          /\ Throw("ssh_host_key_changed") /\ UNCHANGED handles
    /\ raced' = FALSE
    /\ UNCHANGED <<server, known, rest, interrupted, key, auth, rival_steps,
                   recorded, late>>

\* known_hosts->verify: KNOWN, UNKNOWN or CHANGED. The scope of the key ends.
VerifyHostKey ==
    /\ pc = "verify"
    /\ \/ known = key /\ Go("list") /\ Release(1)
       \/ /\ known = NoKey
          /\ \/ opts.allow_unknown_host_key /\ Go("persist")
             \/ ~opts.allow_unknown_host_key /\ Throw("ssh_host_key_unknown")
          /\ UNCHANGED handles
       \/ /\ known \notin {key, NoKey}
          /\ \/ opts.allow_changed_host_key /\ Go("persist")
             \/ ~opts.allow_changed_host_key /\ Throw("ssh_host_key_changed")
          /\ UNCHANGED handles
    /\ raced' = FALSE
    /\ UNCHANGED <<server, known, rest, interrupted, key, auth, rival_steps,
                   recorded, late>>

\* known_hosts->persist, a second call of the database.
PersistHostKey ==
    /\ pc = "persist" /\ Go("list") /\ Release(1)
    /\ known' = key /\ recorded' = recorded \cup {key}
    /\ UNCHANGED <<server, rest, interrupted, key, auth, rival_steps, raced, late>>
-----------------------------------------------------------------------------
(* Authentication. Where it goes on after a method:                         *)

AfterNone ==
    IF "publickey" \in methods /\ ~authenticated' THEN "identity"
    ELSE IF "password" \in methods /\ opts.password /\ ~authenticated' THEN "password"
    ELSE "sftp_new"

AfterIdentities ==
    IF "password" \in methods /\ opts.password /\ ~authenticated' THEN "password"
    ELSE "sftp_new"

\* Once it has authenticated the client, the server ignores further requests:
\* libssh ends them with SSH_AUTH_ERROR, or leaves them at SSH_AUTH_AGAIN.
Reply(for) ==
    /\ for \in Replies
    /\ user # "nobody" => for \in {"AGAIN", "ERROR"}

\* ssh_userauth_none without a name, then ssh_userauth_list; a server that
\* accepts it names no methods.
ListMethods ==
    /\ At("list")
    /\ \E reply \in Replies :
          /\ Reply(reply)
          /\ IF reply = "ERROR" THEN Throw("fault") /\ UNCHANGED <<user, methods>>
             ELSE /\ user' = IF reply = "SUCCESS" THEN "process" ELSE user
                  /\ methods' \in IF reply = "SUCCESS" THEN {{}}
                                  ELSE SUBSET {"none", "publickey", "password"}
                  /\ Go("auth_none")
    /\ UNCHANGED <<host_key, known, rest, key, identities, authenticated,
                   handles, rival_steps, recorded, raced>>

\* NONE, when it is offered, and ssh_identity_factory->create() when it failed.
AuthNone ==
    /\ pc = "auth_none"
    /\ \/ /\ "none" \in methods /\ ~interrupted
          /\ \E reply \in Replies :
                /\ Reply(reply)
                /\ user' = IF reply = "SUCCESS" THEN "opts" ELSE user
                /\ authenticated' = (reply = "SUCCESS")
       \/ "none" \notin methods /\ UNCHANGED <<user, authenticated>>
    /\ identities' \in 0..MaxIdentities
    /\ Go(AfterNone)
    /\ UNCHANGED <<host_key, known, rest, interrupted, key, methods, handles,
                   rival_steps, recorded, raced, late>>

\* Mutant: the loop does not look at the interruptor.
ImportIdentityUnchecked ==
    /\ pc = "identity" /\ identities > 0
    /\ identities' = identities - 1 /\ Own("private_key") /\ Go("export")
    /\ Unchecked
    /\ UNCHANGED <<server, known, rest, interrupted, key, methods, authenticated,
                   rival_steps, recorded, raced>>

\* The next identity's key is imported.
ImportIdentity ==
    /\ At("identity") /\ identities > 0
    /\ identities' = identities - 1 /\ Own("private_key") /\ Go("export")
    /\ UNCHANGED <<server, known, rest, key, methods, authenticated,
                   rival_steps, recorded, raced>>

\* The loop has come to its end; there is no check here.
IdentitiesDone ==
    /\ pc = "identity" /\ identities = 0
    /\ authenticated' = authenticated
    /\ Go(AfterIdentities)
    /\ UNCHANGED <<server, known, rest, interrupted, key, methods, identities,
                   handles, rival_steps, recorded, raced, late>>

\* The public key is exported; one that is not public is not released.
ExportPublicKey ==
    /\ pc = "export"
    /\ \/ Own("public_key") /\ Go("try")
       \/ live' = live \cup {"public_key"} /\ Throw("not_public") /\ UNCHANGED owned
    /\ UNCHANGED <<server, known, rest, interrupted, key, auth, rival_steps,
                   recorded, raced, late>>

\* Mutant: a key the server would accept is taken for authentication.
TryPublicKeySuffices ==
    /\ pc = "try"
    /\ \E reply \in Replies :
          /\ Reply(reply)
          /\ authenticated' = (authenticated \/ reply = "SUCCESS")
          /\ IF reply = "ERROR" THEN Throw("auth") /\ UNCHANGED handles
             ELSE Go("identity") /\ Release(2)
    /\ Unchecked
    /\ UNCHANGED <<server, known, rest, interrupted, key, methods, identities,
                   rival_steps, recorded, raced>>

\* Mutant: the key is tried again when the server said no.
TryPublicKeyForever ==
    /\ pc = "try"
    /\ \E reply \in Replies :
          /\ Reply(reply)
          /\ \/ reply = "SUCCESS" /\ Go("publickey") /\ UNCHANGED <<handles, identities>>
             \/ reply = "ERROR" /\ Throw("auth") /\ UNCHANGED <<handles, identities>>
             \/ /\ reply \in {"DENIED", "PARTIAL", "AGAIN"}
                /\ Go("identity") /\ Release(2) /\ identities' = identities + 1
    /\ Unchecked
    /\ UNCHANGED <<server, known, rest, interrupted, key, methods, authenticated,
                   rival_steps, recorded, raced>>

\* ssh_userauth_try_publickey; all but SUCCESS and ERROR leave it to the next one.
TryPublicKey ==
    /\ pc = "try"
    /\ \E reply \in Replies :
          /\ Reply(reply)
          /\ \/ reply = "SUCCESS" /\ Go("publickey") /\ UNCHANGED handles
             \/ reply = "ERROR" /\ Throw("auth") /\ UNCHANGED handles
             \/ reply \in {"DENIED", "PARTIAL", "AGAIN"} /\ Go("identity") /\ Release(2)
    /\ Unchecked
    /\ UNCHANGED <<server, known, rest, interrupted, key, auth, rival_steps,
                   recorded, raced>>

\* ssh_userauth_publickey; whatever it says the loop goes on, unless it throws.
PublicKey ==
    /\ pc = "publickey"
    /\ \E reply \in Replies :
          /\ Reply(reply)
          /\ user' = IF reply = "SUCCESS" THEN "opts" ELSE user
          /\ authenticated' = (authenticated \/ reply = "SUCCESS")
          /\ IF reply = "ERROR" THEN Throw("auth") /\ UNCHANGED handles
             ELSE Go("identity") /\ Release(2)
    /\ Unchecked
    /\ UNCHANGED <<host_key, known, rest, interrupted, key, methods, identities,
                   rival_steps, recorded, raced>>

Password ==
    /\ At("password") /\ Go("sftp_new")
    /\ \E reply \in Replies :
          /\ Reply(reply)
          /\ user' = IF reply = "SUCCESS" THEN "opts" ELSE user
          /\ authenticated' = (reply = "SUCCESS")
    /\ UNCHANGED <<host_key, known, rest, key, methods, identities, handles,
                   rival_steps, recorded, raced>>

\* No method was successful: tested before the interruptor is.
NotAuthenticated ==
    /\ pc = "sftp_new" /\ ~authenticated /\ Throw("auth")
    /\ UNCHANGED <<server, known, rest, interrupted, key, auth, handles,
                   rival_steps, recorded, raced, late>>
-----------------------------------------------------------------------------
SftpNew ==
    /\ At("sftp_new") /\ authenticated
    /\ Go("sftp_init") /\ Own("sftp")
    /\ UNCHANGED <<server, known, rest, key, auth, rival_steps, recorded, raced>>

\* sftp_init, the three objects become members, and the constructor's other
\* variables are gone.
SftpInit ==
    /\ pc = "sftp_init"
    /\ pc' = "open" /\ outcome' = "returned" /\ Unchecked
    /\ methods' = {} /\ identities' = 0
    /\ UNCHANGED <<server, known, rest, interrupted, key, authenticated, handles,
                   rival_steps, recorded, raced>>

\* The last owner of the session drops it.
Close ==
    /\ pc = "open" /\ Go("closing")
    /\ UNCHANGED <<server, known, rest, interrupted, key, auth, handles,
                   rival_steps, recorded, raced, late>>

\* Mutant: the members are released in the order they are declared.
DestroySshFirst ==
    /\ pc \in {"unwind", "closing"}
    /\ \/ owned = <<>> /\ Go("none") /\ UNCHANGED handles
       \/ /\ owned # <<>> /\ Go(pc)
          /\ live' = live \ {Head(owned)} /\ owned' = Tail(owned)
    /\ UNCHANGED <<server, known, rest, interrupted, key, auth, rival_steps,
                   recorded, raced, late>>

\* One destructor runs: ~impl's order, which is also that of unwinding.
Destroy ==
    /\ pc \in {"unwind", "closing"}
    /\ \/ owned = <<>> /\ Go("none") /\ UNCHANGED handles
       \/ owned # <<>> /\ Go(pc) /\ Release(1)
    /\ UNCHANGED <<server, known, rest, interrupted, key, auth, rival_steps,
                   recorded, raced, late>>
-----------------------------------------------------------------------------
(* Everybody else.                                                          *)

Interrupt ==
    /\ ~interrupted /\ interrupted' = TRUE
    /\ UNCHANGED <<server, known, rest, pc, outcome, key, auth, handles,
                   rival_steps, recorded, raced, late>>

RivalTurn ==
    /\ rival_steps < MaxRivalSteps /\ rival_steps' = rival_steps + 1
    /\ UNCHANGED <<user, rest, interrupted, pc, outcome, key, auth, handles, late>>

\* Another session of the process, or the application, saves a key.
RivalPersist ==
    /\ RivalTurn
    /\ \E k \in HostKeys : known' = k /\ recorded' = recorded \cup {k}
    /\ raced' = (raced \/ pc = "persist")
    /\ UNCHANGED host_key

HostKeyChanges ==
    /\ RivalTurn
    /\ host_key' \in HostKeys \ {host_key}
    /\ UNCHANGED <<known, recorded, raced>>

Constructor ==
    \/ ThrowIfInterrupted \/ Fault \/ Connect
    \/ GetServerKey \/ VerifyHostKey \/ PersistHostKey
    \/ ListMethods \/ AuthNone \/ ImportIdentity \/ IdentitiesDone
    \/ ExportPublicKey \/ TryPublicKey \/ PublicKey \/ Password
    \/ NotAuthenticated \/ SftpNew \/ SftpInit \/ Destroy

Next ==
    \/ Constructor \/ Construct \/ Close
    \/ Interrupt \/ RivalPersist \/ HostKeyChanges

\* The thread runs and libssh's calls return, by an answer or a timeout.
Fairness == WF_vars(Constructor)

Spec == Init /\ [][Next]_vars /\ Fairness
-----------------------------------------------------------------------------
(* Properties.                                                              *)

\* The variables stay in their types, and what an object owns libssh has given.
TypeOK ==
    /\ host_key \in HostKeys /\ user \in {"nobody", "process", "opts"}
    /\ known \in HostKeys \cup {NoKey} /\ key \in HostKeys \cup {NoKey}
    /\ recorded \subseteq HostKeys
    /\ opts \in Options /\ interrupted \in BOOLEAN /\ raced \in BOOLEAN
    /\ pc \in Points
    /\ outcome \in {"none", "returned", "interrupted", "fault", "auth", "not_public",
                    "ssh_host_key_unknown", "ssh_host_key_changed"}
    /\ methods \subseteq {"none", "publickey", "password"}
    /\ identities \in 0..MaxIdentities /\ authenticated \in BOOLEAN
    /\ ToSet(owned) \subseteq live /\ late \in Nat
    /\ sessions \in 0..MaxSessions /\ rival_steps \in 0..MaxRivalSteps

\* A session that was made is one the server has authenticated as the user of
\* the options, not as the one of the nameless request, nor by a key that the
\* server only said it would accept.
OpenMeansAuthenticated == pc = "open" => user = "opts"

\* What identifies the user goes only to a host whose key was in the database
\* or has been saved there, whatever the policy and whoever else saves keys.
HostIsKnownFirst ==
    pc \in {"auth_none", "identity", "export", "try", "publickey", "password",
            "sftp_new", "sftp_init", "open"}
        => key \in recorded

\* Without allow_changed_host_key the session never replaces a key in the
\* database, save that another session saved one since verify was called.
KeyPinned ==
    [][ known' # known /\ rival_steps' = rival_steps
        => known = NoKey \/ opts.allow_changed_host_key \/ raced ]_vars

\* On every way out libssh gets back what it gave, the SFTP session and the
\* connection before the SSH session they belong to, and an open session has
\* all three. (An exported key that is not public is lost.)
HandlesInOrder ==
    /\ "sftp" \in live => "connection" \in live
    /\ "connection" \in live => "ssh" \in live
    /\ pc = "open" => live \ {"public_key"} = {"ssh", "connection", "sftp"}
    /\ pc = "none" => live \subseteq {"public_key"}

\* After the interruptor is raised the constructor sends at most the requests
\* of the step that it is in: trying and using a key, or starting SFTP.
InterruptIsPrompt == late <= 2

\* The constructor ends, with a session or an exception.
ConstructionEnds == pc = "connect" ~> pc \in {"open", "none"}

\* An authentication that succeeded is not undone by an identity that fails
\* after it (lines 238 and 252: another auth method might still succeed).
SuccessIsKept == pc = "unwind" /\ outcome = "auth" => user # "opts"
=============================================================================
