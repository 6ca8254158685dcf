--------------------------- MODULE MCSftpSession ----------------------------
(* Small instances of SftpSession: a host with two keys, one after the other.*)
EXTENDS SftpSession

Option(unknown, changed, password) ==
    [allow_unknown_host_key |-> unknown, allow_changed_host_key |-> changed,
     password |-> password]

\* The defaults with and without a password, and the other policies.
MCOptions ==
    {Option(TRUE, FALSE, TRUE), Option(TRUE, FALSE, FALSE),
     Option(FALSE, FALSE, TRUE), Option(TRUE, TRUE, TRUE)}
DefaultOptions == {Option(TRUE, FALSE, TRUE)}
MCHostKeys == {"k1", "k2"}
=============================================================================
