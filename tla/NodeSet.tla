------------------------------- MODULE NodeSet -------------------------------
(***************************************************************************)
(* What the node list promises to the plug-ins and to the requests: a set  *)
(* of names for each kind of node, a name registered at most once for a    *)
(* kind, taken out of every kind at once, and the number of directory      *)
(* nodes.  NodeTree implements it.                                         *)
(***************************************************************************)
EXTENDS Integers, FiniteSets

CONSTANTS Names, Kinds, Main   \* Main is the kind whose nodes are counted

VARIABLES nodes, count

Init ==
  /\ nodes = [k \in Kinds |-> {}]
  /\ count = 0

Add(k, n) ==
  /\ n \notin nodes[k]
  /\ nodes' = [nodes EXCEPT ![k] = @ \cup {n}]
  /\ count' = IF k = Main THEN count + 1 ELSE count

Remove(n) ==
  /\ \E k \in Kinds : n \in nodes[k]
  /\ nodes' = [k \in Kinds |-> nodes[k] \ {n}]
  /\ count' = IF n \in nodes[Main] THEN count - 1 ELSE count

Next == \E n \in Names : Remove(n) \/ \E k \in Kinds : Add(k, n)

Spec == Init /\ [][Next]_<<nodes, count>>
=============================================================================
