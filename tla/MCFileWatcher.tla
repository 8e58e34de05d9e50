--------------------------- MODULE MCFileWatcher ---------------------------
(* A small instance of FileWatcher for TLC: a file that lists one account,   *)
(* lists none, is empty, broken or missing.                                  *)
EXTENDS FileWatcher

MCContents == {Missing, EmptyFile, Broken, {}, {"a"}}
=============================================================================
