--------------------------- MODULE MCLocalSessions ---------------------------
(* Small instances of LocalSessions. *)
EXTENDS LocalSessions
CONSTANTS t1, t2, t3, default, other, absent

TwoThreads == {t1, t2}
TwoPaths == {default, other}
ThreePaths == {default, other, absent}
AbsentPath == {absent}
NonePath == {}
=============================================================================
