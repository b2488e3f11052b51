------------------------------ MODULE NodeTree -------------------------------
(***************************************************************************)
(* The list of directory nodes (Server/CNodeList.cpp) and the registration *)
(* of nodes by plug-ins (Server/CServerPlugin.cpp).  The list holds one    *)
(* unbalanced binary search tree for each kind of node and one slot for    *)
(* each predefined node.  Every operation of the list holds its lock, but  *)
(* a registration is three steps: look the name up, add it, tell           *)
(* opendirectoryd, which keeps its own set of the names.                   *)
(*                                                                         *)
(* A tree node is identified by its name, which is unique in its tree;     *)
(* names are numbers in the order of strcmp.  Both children of a name that *)
(* is not in a tree are Nil.                                               *)
(*                                                                         *)
(* Operators with a suffix (AddNode_Twice) are faulty variants of the      *)
(* operator that follows; only runs that confirm a property use them.      *)
(***************************************************************************)
EXTENDS Integers, FiniteSets

CONSTANTS
  Names,        \* of nodes, in the order of strcmp
  Registrars,   \* threads that register and unregister nodes
  Loads,        \* assignments of names to registrars to start from
  Mask(_),      \* the kinds (a subset of Kinds) a name is registered for
  FixedKinds,   \* predefined nodes: search, configure, cache, ...
  FixedNames,   \* names plug-ins ask to register for them
  Watched       \* the names followed in opendirectoryd's set (a bound)

Nil == 0
Kinds == {"dir", "hosted", "network"}

\* What the constants must be; a module that gives them values assumes it.
\* Plug-ins register no node under the name of a predefined one.
NodeTreeAssumption ==
  /\ Names \subseteq Int \ {Nil} /\ IsFiniteSet(Names)
  /\ FixedNames \cap Names = {}
  /\ \A n \in Names : Mask(n) \in (SUBSET Kinds) \ {{}}

VARIABLES
  root, left, right,   \* per kind: the tree
  fCount,              \* number of directory nodes
  fixed,               \* FixedKinds -> name or Nil
  load,                \* the names a registrar's plug-in has to do with
  registrar, todo,     \* per registrar: next step and <<name, kinds left>>
  oddUp, odd,          \* opendirectoryd runs; the watched names it knows
  announce             \* RegisterAll is scheduled

tree == <<root, left, right, fCount>>
oddv == <<oddUp, odd, announce>>
nodeVars == <<tree, fixed, load, registrar, todo, oddv>>

Idle == <<Nil, {}>>
NodesInit ==
  /\ root = [k \in Kinds |-> Nil]
  /\ left = [k \in Kinds |-> [n \in Names |-> Nil]]
  /\ right = left
  /\ fCount = 0
  /\ fixed = [f \in FixedKinds |-> Nil]
  /\ load \in Loads
  /\ registrar = [r \in Registrars |-> "idle"]
  /\ todo = [r \in Registrars |-> Idle]
  /\ oddUp = FALSE /\ odd = {} /\ announce = FALSE

-----------------------------------------------------------------------------
\* The searches.  CompareCString is strcmp, so the child on the way to n is:
Toward(k, n) == [x \in Names |-> IF n < x THEN left[k][x] ELSE right[k][x]]

\* Where a walk from child to child, begun at a node, meets one of these ends.
WalkEnd(child, ends) ==
  LET end[x \in Names] == IF x \in ends THEN x ELSE end[child[x]]
  IN end

\* The node a search for n ends at: n, or the node n would hang from.
SearchEnd(k, n) ==
  LET child == Toward(k, n)
  IN IF root[k] = Nil THEN Nil
     ELSE WalkEnd(child, {x \in Names : x = n \/ child[x] = Nil})[root[k]]

IsPresent(n, k) == SearchEnd(k, n) = n

\* The node above n, a node of the tree, or Nil: aTreeParent.
Parent(k, n) ==
  LET child == Toward(k, n)
  IN IF root[k] = n THEN Nil
     ELSE WalkEnd(child, {x \in Names : child[x] \in {n, Nil}})[root[k]]

Leftmost(k, n) == WalkEnd(left[k], {x \in Names : left[k][x] = Nil})[n]

\* The nodes of a tree: its root and what is below it.
Subtrees(l, r) ==
  LET sub[x \in Names \cup {Nil}] == IF x = Nil THEN {} ELSE {x} \cup sub[l[x]] \cup sub[r[x]]
  IN sub
Nodes(k) == Subtrees(left[k], right[k])[root[k]]

-----------------------------------------------------------------------------
\* A registration: the kinds of the mask in the order dir, hosted, network.
Register(r, n) ==
  /\ registrar[r] = "idle"
  /\ registrar' = [registrar EXCEPT ![r] = "look_up"]
  /\ todo' = [todo EXCEPT ![r] = <<n, Mask(n)>>]
  /\ UNCHANGED <<tree, fixed, load, oddv>>

Current(r) ==
  LET ks == todo[r][2]
  IN IF "dir" \in ks THEN "dir" ELSE IF "hosted" \in ks THEN "hosted" ELSE "network"

\* The registrar is done with its current kind.
KindDone(r) ==
  LET rest == todo[r][2] \ {Current(r)}
  IN /\ registrar' = [registrar EXCEPT ![r] = IF rest = {} THEN "idle" ELSE "look_up"]
     /\ todo' = [todo EXCEPT ![r] = IF rest = {} THEN Idle ELSE <<@[1], rest>>]

LookUpNode(r) ==
  /\ registrar[r] = "look_up"
  /\ IF IsPresent(todo[r][1], Current(r))
       THEN KindDone(r)
       ELSE registrar' = [registrar EXCEPT ![r] = "add"] /\ UNCHANGED todo
  /\ UNCHANGED <<tree, fixed, load, oddv>>

\* AddNodeToTree; a duplicate adds nothing and is not counted.
AddNode_Twice(r) ==
  LET n == todo[r][1]  k == Current(r)  p == SearchEnd(k, n)
  IN /\ registrar[r] = "add"
     /\ IF p = Nil THEN root' = [root EXCEPT ![k] = n] ELSE UNCHANGED root
     /\ left' = IF p \notin {Nil, n} /\ n < p THEN [left EXCEPT ![k][p] = n] ELSE left
     /\ right' = IF p \notin {Nil, n} /\ n > p THEN [right EXCEPT ![k][p] = n] ELSE right
     /\ fCount' = IF k = "dir" THEN fCount + 1 ELSE fCount
     /\ IF k = "network" THEN KindDone(r)
        ELSE registrar' = [registrar EXCEPT ![r] = "advertise"] /\ UNCHANGED todo
     /\ UNCHANGED <<fixed, load, oddv>>

AddNode(r) ==
  LET n == todo[r][1]  k == Current(r)  p == SearchEnd(k, n)
  IN /\ registrar[r] = "add"
     /\ IF p = Nil THEN root' = [root EXCEPT ![k] = n] ELSE UNCHANGED root
     /\ left' = IF p \notin {Nil, n} /\ n < p THEN [left EXCEPT ![k][p] = n] ELSE left
     /\ right' = IF p \notin {Nil, n} /\ n > p THEN [right EXCEPT ![k][p] = n] ELSE right
     /\ fCount' = IF k = "dir" /\ p # n THEN fCount + 1 ELSE fCount
     /\ IF k = "network" THEN KindDone(r)
        ELSE registrar' = [registrar EXCEPT ![r] = "advertise"] /\ UNCHANGED todo
     /\ UNCHANGED <<fixed, load, oddv>>

Tell(names) == odd' = IF oddUp THEN odd \cup (names \cap Watched) ELSE odd

\* od_passthru_register_node, after the lock of the list was given up.
Advertise(r) ==
  /\ registrar[r] = "advertise"
  /\ Tell({todo[r][1]})
  /\ KindDone(r)
  /\ UNCHANGED <<tree, fixed, load, oddUp, announce>>

\* A predefined node: the first plug-in to register one has its slot.
RegisterFixed(r, f, n) ==
  /\ registrar[r] = "idle"
  /\ fixed[f] = Nil
  /\ fixed' = [fixed EXCEPT ![f] = n]
  /\ registrar' = [registrar EXCEPT ![r] = "advertise_fixed"]
  /\ todo' = [todo EXCEPT ![r] = <<n, {}>>]
  /\ UNCHANGED <<tree, load, oddv>>

AdvertiseFixed(r) ==
  /\ registrar[r] = "advertise_fixed"
  /\ Tell({todo[r][1]})
  /\ registrar' = [registrar EXCEPT ![r] = "idle"]
  /\ todo' = [todo EXCEPT ![r] = Idle]
  /\ UNCHANGED <<tree, fixed, load, oddUp, announce>>

-----------------------------------------------------------------------------
\* DeleteNodeFromTree, as the new functions of a tree: the leftmost node of
\* the right subtree takes the place of a node with two children.
Without_LosesRight(k, n) ==
  LET l == left[k][n]   r == right[k][n]   p == Parent(k, n)
      both == l # Nil /\ r # Nil
      rem == IF l = Nil THEN r ELSE IF r = Nil THEN l ELSE Leftmost(k, r)
      up == Parent(k, rem)
      deep == both /\ rem # r
  IN [root |-> IF p = Nil THEN rem ELSE root[k],
      left |-> [x \in Names |->
                  CASE x = n -> Nil
                    [] both /\ x = rem -> l
                    [] deep /\ x = up -> Nil
                    [] p # Nil /\ x = p /\ left[k][p] = n -> rem
                    [] OTHER -> left[k][x]],
      right |-> [x \in Names |->
                  CASE x = n -> Nil
                    [] deep /\ x = rem -> r
                    [] p # Nil /\ x = p /\ left[k][p] # n -> rem
                    [] OTHER -> right[k][x]]]

Without(k, n) ==
  LET l == left[k][n]   r == right[k][n]   p == Parent(k, n)
      both == l # Nil /\ r # Nil
      rem == IF l = Nil THEN r ELSE IF r = Nil THEN l ELSE Leftmost(k, r)
      up == Parent(k, rem)
      deep == both /\ rem # r
  IN [root |-> IF p = Nil THEN rem ELSE root[k],
      left |-> [x \in Names |->
                  CASE x = n -> Nil
                    [] both /\ x = rem -> l
                    [] deep /\ x = up -> right[k][rem]
                    [] p # Nil /\ x = p /\ left[k][p] = n -> rem
                    [] OTHER -> left[k][x]],
      right |-> [x \in Names |->
                  CASE x = n -> Nil
                    [] deep /\ x = rem -> r
                    [] p # Nil /\ x = p /\ left[k][p] # n -> rem
                    [] OTHER -> right[k][x]]]

\* DeleteNode: out of every tree in one critical section, and out of
\* opendirectoryd's set before the lock is given up.
DeleteNode(r, n) ==
  LET in == {k \in Kinds : IsPresent(n, k)}
      new == [k \in in |-> Without(k, n)]
  IN /\ registrar[r] = "idle"
     /\ in # {}
     /\ root' = [k \in Kinds |-> IF k \in in THEN new[k].root ELSE root[k]]
     /\ left' = [k \in Kinds |-> IF k \in in THEN new[k].left ELSE left[k]]
     /\ right' = [k \in Kinds |-> IF k \in in THEN new[k].right ELSE right[k]]
     /\ fCount' = IF "dir" \in in THEN fCount - 1 ELSE fCount
     /\ odd' = odd \ {n}
     /\ UNCHANGED <<fixed, load, registrar, todo, oddUp, announce>>

-----------------------------------------------------------------------------
\* opendirectoryd comes, and asks for its nodes to be announced a second
\* later; it exits.
OddConnects ==
  /\ ~oddUp
  /\ oddUp' = TRUE
  /\ announce' = TRUE
  /\ UNCHANGED <<tree, fixed, load, registrar, todo, odd>>

OddExits ==
  /\ oddUp
  /\ oddUp' = FALSE
  /\ odd' = {}
  /\ UNCHANGED <<tree, fixed, load, registrar, todo, announce>>

FixedNodes == {fixed[f] : f \in FixedKinds} \ {Nil}

\* RegisterAll, under the lock of the list.
RegisterAll_NoFixed ==
  /\ announce
  /\ announce' = FALSE
  /\ Tell(Nodes("dir"))
  /\ UNCHANGED <<tree, fixed, load, registrar, todo, oddUp>>

RegisterAll ==
  /\ announce
  /\ announce' = FALSE
  /\ Tell(Nodes("dir") \cup FixedNodes)
  /\ UNCHANGED <<tree, fixed, load, registrar, todo, oddUp>>

NodesNext ==
  \/ \E r \in Registrars :
       \/ LookUpNode(r) \/ AddNode(r) \/ Advertise(r) \/ AdvertiseFixed(r)
       \/ \E n \in load[r] \cap Names : Register(r, n) \/ DeleteNode(r, n)
       \/ \E f \in FixedKinds, n \in load[r] \cap FixedNames : RegisterFixed(r, f, n)
  \/ OddConnects \/ OddExits \/ RegisterAll

NodesSpec == NodesInit /\ [][NodesNext]_nodeVars

-----------------------------------------------------------------------------
\* opendirectoryd knows every directory node and predefined node that no
\* registration or announcement under way is still to tell it of.
Advertised ==
  oddUp /\ ~announce =>
    \A n \in (Nodes("dir") \cup FixedNodes) \cap Watched :
      n \in odd \/ \E r \in Registrars : registrar[r] \in {"advertise", "advertise_fixed"} /\ todo[r][1] = n

\* A search reaches every node of a tree.
SearchFindsAll == \A k \in Kinds : \A n \in Nodes(k) : IsPresent(n, k)

\* The trees implement sets of names in which a search finds all: two plug-ins
\* that register one name add it once, adding or deleting a node neither loses
\* another nor makes it unreachable, and the count is right.
Set == INSTANCE NodeSet WITH Main <- "dir", nodes <- [k \in Kinds |-> Nodes(k)], count <- fCount
IsNodeSet == Set!Spec /\ []SearchFindsAll
=============================================================================
