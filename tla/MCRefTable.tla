----------------------------- MODULE MCRefTable -----------------------------
(* Small instances of RefTable: who serves which port. *)
EXTENDS RefTable, TLC

CONSTANTS t1, t2, app1, internal

TwoThreads == {t1, t2}

\* One client and one daemon thread.
MixedPorts == {app1, internal}
Mixed == (t1 :> app1) @@ (t2 :> internal)

\* Two daemon threads share the internal port; they are interchangeable.
InternalPorts == {internal}
TwoInternal == (t1 :> internal) @@ (t2 :> internal)
SwapThreads == Permutations(TwoThreads)
=============================================================================
