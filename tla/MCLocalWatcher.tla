--------------------------- MODULE MCLocalWatcher ---------------------------
(* Small instances of LocalWatcher.                                         *)
EXTENDS LocalWatcher

TwoNames == {"a", "b"}
=============================================================================
