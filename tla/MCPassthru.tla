------------------------------ MODULE MCPassthru ------------------------------
(* Small instances of Passthru. *)
EXTENDS Passthru, TLC
CONSTANTS t1, t2, old, new_, home, spare

TwoThreads == {t1, t2}
TwoPids == {old, new_}
TwoPaths == {home, spare}
NoPaths == {}
BothModes == BOOLEAN
ProxyOnly == {FALSE}

\* Threads, processes and paths are interchangeable.
Alike == Permutations(TwoThreads) \cup Permutations(TwoPids) \cup Permutations(TwoPaths)
=============================================================================
