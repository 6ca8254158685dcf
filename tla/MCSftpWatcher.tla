--------------------------- MODULE MCSftpWatcher ----------------------------
(* Small instances of SftpWatcher: an ordinary file and a symbolic link.    *)
EXTENDS SftpWatcher

MCNames == {"file", "link"}
MCLinks == {"link"}
=============================================================================
