----------------------- MODULE PluginsAndNodes_proofs -----------------------
(* Proofs about the plug-ins and their nodes.                              *)
(*                                                                         *)
(* The node list, for any finite set of names and any number of            *)
(* registrars: its trees implement the sets of NodeSet, a search finds     *)
(* every node, and opendirectoryd is told of all.                          *)
(*                                                                         *)
(* The table of plug-ins: it is well formed, each plug-in is created once  *)
(* and not lost, and all agree on its state in the end, for any number of  *)
(* requests and plug-ins the list of attempts has room for.                *)
EXTENDS PluginTable, NodeTree, FiniteSetTheorems, WellFoundedInduction, TLAPS

-----------------------------------------------------------------------------
(***************************************************************************)
(* Trees.  D gives for each name what is below it, itself included.        *)
(***************************************************************************)
Node == Names \cup {Nil}

IsTree(rt, l, r, D) ==
  /\ rt \in Node /\ l \in [Names -> Node] /\ r \in [Names -> Node]
  /\ D \in [Node -> SUBSET Names]
  /\ D[Nil] = {}
  /\ \A x \in Names : D[x] = {x} \cup D[l[x]] \cup D[r[x]]
  /\ \A x \in Names : (\A y \in D[l[x]] : y < x) /\ (\A y \in D[r[x]] : y > x)
  /\ \A x \in Names \ D[rt] : l[x] = Nil /\ r[x] = Nil

Smaller == {p \in Nat \X Nat : p[1] < p[2]}
LEMMA SmallerIsWellFounded == IsWellFoundedOn(Smaller, Nat)
  BY NatLessThanWellFounded DEF OpToRel, Smaller

LEMMA Smallest ==
  ASSUME NEW S, S \subseteq Nat, S # {}
  PROVE  \E x \in S : \A y \in S : x <= y
<1>1. \E x \in S : \A y \in S : ~ (<<y, x>> \in Smaller)
  BY SmallerIsWellFounded, WFMin, Zenon
<1>2. PICK x \in S : \A y \in S : ~ (<<y, x>> \in Smaller)
  BY <1>1
<1>3. ASSUME NEW y \in S PROVE x <= y
  <2>1. <<y, x>> \notin Smaller
    BY <1>2
  <2>2. x \in Nat /\ y \in Nat
    OBVIOUS
  <2>3. y < x => <<y, x>> \in Smaller
    BY <2>2 DEF Smaller
  <2> QED BY <2>1, <2>2, <2>3
<1> QED BY <1>3

LEMMA TreeFacts ==
  ASSUME NodeTreeAssumption, NEW rt, NEW l, NEW r, NEW D, IsTree(rt, l, r, D)
  PROVE  /\ Nil \notin Names /\ Names \subseteq Int
         /\ \A x \in Names : x \in D[x] /\ l[x] \in Node /\ r[x] \in Node
         /\ \A x \in Node : D[x] \subseteq Names
         /\ D[rt] \subseteq Names
         /\ \A x \in Names : x \notin D[l[x]] /\ x \notin D[r[x]] /\ D[l[x]] \cap D[r[x]] = {}
<1>1. Nil \notin Names /\ Names \subseteq Int
  BY DEF NodeTreeAssumption
<1>2. \A x \in Names : x \in D[x] /\ l[x] \in Node /\ r[x] \in Node
  BY DEF IsTree
<1>3. (\A x \in Node : D[x] \subseteq Names) /\ rt \in Node
  BY DEF IsTree
<1>4. ASSUME NEW x \in Names
      PROVE  x \notin D[l[x]] /\ x \notin D[r[x]] /\ D[l[x]] \cap D[r[x]] = {}
  <2>1. (\A y \in D[l[x]] : y \in Int /\ y < x) /\ (\A y \in D[r[x]] : y \in Int /\ y > x)
    BY <1>1, <1>2, <1>3 DEF IsTree
  <2>2. x \in Int
    BY <1>1
  <2> QED BY <2>1, <2>2
<1> QED BY <1>1, <1>2, <1>3, <1>4

LEMMA Around ==
  ASSUME NodeTreeAssumption, NEW rt, NEW l, NEW r, NEW D, IsTree(rt, l, r, D), NEW x \in Names
  PROVE  /\ D[x] = {x} \cup D[l[x]] \cup D[r[x]]
         /\ l[x] \in Node /\ r[x] \in Node /\ x \in Node
         /\ x \notin D[l[x]] /\ x \notin D[r[x]] /\ D[l[x]] \cap D[r[x]] = {}
<1>1. D[x] = {x} \cup D[l[x]] \cup D[r[x]]
  BY DEF IsTree
<1> QED BY <1>1, TreeFacts DEF Node

\* Any set of names has one below which there is no other of the set.
LEMMA Bottom ==
  ASSUME NodeTreeAssumption, NEW rt, NEW l, NEW r, NEW D, IsTree(rt, l, r, D),
         NEW S, S \subseteq Names, S # {}
  PROVE  \E x \in S : l[x] \notin S /\ r[x] \notin S
<1>1. IsFiniteSet(Names)
  BY DEF NodeTreeAssumption
<1>2. \A x \in Names : IsFiniteSet(D[x]) /\ Cardinality(D[x]) \in Nat
  BY <1>1, TreeFacts, FS_Subset, FS_CardinalityType DEF Node
<1> DEFINE Size == {Cardinality(D[x]) : x \in S}
<1>3. Size \subseteq Nat /\ Size # {}
  BY <1>2
<1>4. PICK s \in Size : \A t \in Size : s <= t
  <2> HIDE DEF Size
  <2> QED BY <1>3, Smallest
<1>5. PICK x \in S : s = Cardinality(D[x])
  OBVIOUS
<1>6. ASSUME NEW c \in S, c = l[x] \/ c = r[x] PROVE FALSE
  <2>1. D[c] \subseteq D[x] /\ x \in D[x] /\ x \notin D[c]
    BY <1>6, TreeFacts DEF IsTree
  <2>2. Cardinality(D[c]) < Cardinality(D[x])
    BY <2>1, <1>2, FS_Subset
  <2>3. Cardinality(D[c]) \in Size
    OBVIOUS
  <2>4. Cardinality(D[x]) <= Cardinality(D[c])
    BY <1>4, <1>5, <2>3
  <2> HIDE DEF Size
  <2>5. x \in Names /\ c \in Names
    OBVIOUS
  <2> QED BY <2>2, <2>4, <1>2, <2>5
<1> QED BY <1>6

LEMMA Transitive ==
  ASSUME NodeTreeAssumption, NEW rt, NEW l, NEW r, NEW D, IsTree(rt, l, r, D),
         NEW x \in Names, NEW y \in D[x]
  PROVE  D[y] \subseteq D[x]
<1> DEFINE S == {a \in Names : \E b \in D[a] : ~ (D[b] \subseteq D[a])}
<1>1. SUFFICES ASSUME S # {} PROVE FALSE
  OBVIOUS
<1>2. PICK a \in S : l[a] \notin S /\ r[a] \notin S
  <2>1. S \subseteq Names
    OBVIOUS
  <2> HIDE DEF S
  <2> QED BY <1>1, <2>1, Bottom
<1>3. PICK b \in D[a] : ~ (D[b] \subseteq D[a])
  OBVIOUS
<1>4. D[a] = {a} \cup D[l[a]] \cup D[r[a]] /\ D[Nil] = {} /\ l[a] \in Node /\ r[a] \in Node
  BY DEF IsTree
<1>5. CASE b \in D[l[a]]
  <2>1. l[a] \in Names
    BY <1>5, <1>4 DEF Node
  <2> QED BY <2>1, <1>2, <1>3, <1>4, <1>5
<1>6. CASE b \in D[r[a]]
  <2>1. r[a] \in Names
    BY <1>6, <1>4 DEF Node
  <2> QED BY <2>1, <1>2, <1>3, <1>4, <1>6
<1> QED BY <1>3, <1>4, <1>5, <1>6

LEMMA Antisymmetric ==
  ASSUME NodeTreeAssumption, NEW rt, NEW l, NEW r, NEW D, IsTree(rt, l, r, D),
         NEW x \in Names, NEW y \in D[x], x \in D[y]
  PROVE  x = y
<1>1. D[x] = {x} \cup D[l[x]] \cup D[r[x]] /\ D[Nil] = {} /\ l[x] \in Node /\ r[x] \in Node
  BY DEF IsTree
<1>2. CASE y \in D[l[x]]
  <2>1. l[x] \in Names
    BY <1>1, <1>2 DEF Node
  <2>2. D[y] \subseteq D[l[x]]
    BY <2>1, <1>2, Transitive
  <2> QED BY <2>2, TreeFacts
<1>3. CASE y \in D[r[x]]
  <2>1. r[x] \in Names
    BY <1>1, <1>3 DEF Node
  <2>2. D[y] \subseteq D[r[x]]
    BY <2>1, <1>3, Transitive
  <2> QED BY <2>2, TreeFacts
<1> QED BY <1>1, <1>2, <1>3

\* Of two nodes above a third, one is above the other.
LEMMA Comparable ==
  ASSUME NodeTreeAssumption, NEW rt, NEW l, NEW r, NEW D, IsTree(rt, l, r, D),
         NEW w \in Names, NEW x \in D[w], NEW z \in D[w], NEW c, c \in D[x], c \in D[z]
  PROVE  x \in D[z] \/ z \in D[x]
<1> DEFINE Bad(a, b, d) == c \in D[b] /\ c \in D[d] /\ b \notin D[d] /\ d \notin D[b]
           S == {a \in Names : \E b, d \in D[a] : Bad(a, b, d)}
<1>1. SUFFICES ASSUME S # {} PROVE FALSE
  OBVIOUS
<1>2. PICK a \in S : l[a] \notin S /\ r[a] \notin S
  <2>1. S \subseteq Names
    OBVIOUS
  <2> HIDE DEF S
  <2> QED BY <1>1, <2>1, Bottom
<1>3. PICK b \in D[a], d \in D[a] : Bad(a, b, d)
  OBVIOUS
<1>4. D[a] = {a} \cup D[l[a]] \cup D[r[a]] /\ D[Nil] = {} /\ l[a] \in Node /\ r[a] \in Node
  BY DEF IsTree
<1>5. b # a /\ d # a
  BY <1>3
<1>6. ~ (b \in D[l[a]] /\ d \in D[l[a]])
  <2>1. l[a] # Nil => l[a] \in Names
    BY <1>4 DEF Node
  <2> QED BY <2>1, <1>2, <1>3, <1>4
<1>7. ~ (b \in D[r[a]] /\ d \in D[r[a]])
  <2>1. r[a] # Nil => r[a] \in Names
    BY <1>4 DEF Node
  <2> QED BY <2>1, <1>2, <1>3, <1>4
<1>8. ASSUME NEW p \in D[l[a]], NEW q \in D[r[a]], c \in D[p], c \in D[q] PROVE FALSE
  <2>1. l[a] \in Names /\ r[a] \in Names
    BY <1>4 DEF Node
  <2>2. c \in D[l[a]] /\ c \in D[r[a]]
    BY <2>1, <1>8, Transitive
  <2>3. a \in Names
    OBVIOUS
  <2> QED BY <2>2, <2>3, TreeFacts
<1> QED BY <1>3, <1>4, <1>5, <1>6, <1>7, <1>8

\* A node of the tree hangs from one node only.
LEMMA OneParent ==
  ASSUME NodeTreeAssumption, NEW rt, NEW l, NEW r, NEW D, IsTree(rt, l, r, D),
         NEW x \in Names, NEW z \in Names, NEW c \in Names,
         c \in {l[x], r[x]}, c \in {l[z], r[z]}
  PROVE  x = z
<1>1. x \in D[rt] /\ z \in D[rt] /\ Nil \notin Names
  BY TreeFacts DEF IsTree
<1>2. rt \in Names
  BY <1>1 DEF IsTree, Node
<1>3. /\ D[x] = {x} \cup D[l[x]] \cup D[r[x]] /\ D[z] = {z} \cup D[l[z]] \cup D[r[z]]
      /\ c \in D[c]
  BY TreeFacts DEF IsTree
<1>4. x \in D[z] \/ z \in D[x]
  BY <1>1, <1>2, <1>3, Comparable
<1>5. ASSUME NEW a \in Names, NEW b \in D[a], a # b, c \in {l[a], r[a]}, c \in {l[b], r[b]}, b \in Names
      PROVE  FALSE
  <2>1. D[a] = {a} \cup D[l[a]] \cup D[r[a]] /\ D[b] = {b} \cup D[l[b]] \cup D[r[b]]
    BY <1>5 DEF IsTree
  <2>2. c \in D[b] /\ c \notin {a, b}
    BY <2>1, <1>3, <1>5, TreeFacts
  <2>3. CASE b \in D[c]
    BY <2>2, <2>3, <1>5, Antisymmetric
  <2>4. CASE b \notin D[c]
    <3>1. PICK o \in Names : b \in D[o] /\ {o, c} = {l[a], r[a]} /\ o # c
      <4>1. PICK o \in {l[a], r[a]} : b \in D[o] /\ o # c
        BY <2>1, <1>5, <2>4
      <4>2. o \in Names
        BY <4>1, TreeFacts DEF Node, IsTree
      <4> QED BY <4>1, <4>2, <1>5
    <3>2. c \in D[o]
      BY <3>1, <2>2, Transitive
    <3>3. D[l[a]] \cap D[r[a]] = {}
      BY TreeFacts
    <3> QED BY <3>1, <3>2, <3>3, <1>3
  <2> QED BY <2>3, <2>4
<1> QED BY <1>4, <1>5

LEMMA RootHasNone ==
  ASSUME NodeTreeAssumption, NEW rt, NEW l, NEW r, NEW D, IsTree(rt, l, r, D),
         NEW x \in Names, rt \in Names
  PROVE  rt \notin {l[x], r[x]}
<1>1. SUFFICES ASSUME rt \in {l[x], r[x]} PROVE FALSE
  OBVIOUS
<1>2. x \in D[rt]
  BY <1>1, TreeFacts DEF IsTree
<1>3. rt \in D[rt] /\ rt \in D[x] /\ x \notin D[l[x]] /\ x \notin D[r[x]]
  BY <1>1, TreeFacts DEF IsTree
<1> QED BY <1>1, <1>2, <1>3

\* What the recursive function computes.
LEMMA SubtreesAre ==
  ASSUME NodeTreeAssumption, NEW rt, NEW l, NEW r, NEW D, IsTree(rt, l, r, D)
  PROVE  Subtrees(l, r) = D
<1> DEFINE Body(s) == [x \in Names \cup {Nil} |-> IF x = Nil THEN {} ELSE {x} \cup s[l[x]] \cup s[r[x]]]
           sub == CHOOSE s : s = Body(s)
<1>1. D = Body(D)
  <2>1. DOMAIN D = Names \cup {Nil} /\ D = [x \in Names \cup {Nil} |-> D[x]]
    BY DEF IsTree, Node
  <2>2. \A x \in Names \cup {Nil} : D[x] = IF x = Nil THEN {} ELSE {x} \cup D[l[x]] \cup D[r[x]]
    BY DEF IsTree, Node
  <2> QED BY <2>1, <2>2
<1>2. sub = Body(sub)
  <2> HIDE DEF Body
  <2> QED BY <1>1
<1>3. Subtrees(l, r) = sub
  BY DEF Subtrees
<1> HIDE DEF sub
<1>4. \A x \in Node : sub[x] = IF x = Nil THEN {} ELSE {x} \cup sub[l[x]] \cup sub[r[x]]
  BY <1>2 DEF Node
<1>5. DOMAIN sub = Node /\ DOMAIN D = Node
  BY <1>2 DEF Node, IsTree
<1> DEFINE S == {x \in Names : sub[x] # D[x]}
<1>6. sub[Nil] = D[Nil]
  BY <1>4 DEF IsTree, Node
<1>7. S = {}
  <2>1. SUFFICES ASSUME S # {} PROVE FALSE
    OBVIOUS
  <2>2. PICK a \in S : l[a] \notin S /\ r[a] \notin S
    <3>1. S \subseteq Names
      OBVIOUS
    <3> HIDE DEF S
    <3> QED BY <2>1, <3>1, Bottom
  <2>3. sub[l[a]] = D[l[a]] /\ sub[r[a]] = D[r[a]]
    BY <2>2, <1>6, TreeFacts DEF Node
  <2>4. sub[a] = {a} \cup sub[l[a]] \cup sub[r[a]] /\ D[a] = {a} \cup D[l[a]] \cup D[r[a]]
    BY <1>4, TreeFacts DEF IsTree, Node
  <2> QED BY <2>3, <2>4
<1>8. \A x \in Node : sub[x] = D[x]
  BY <1>6, <1>7 DEF Node
<1>9. sub = [x \in Node |-> sub[x]] /\ D = [x \in Node |-> D[x]]
  BY <1>2, <1>5 DEF IsTree, Node
<1> QED BY <1>3, <1>8, <1>9

-----------------------------------------------------------------------------
(***************************************************************************)
(* Walks.                                                                  *)
(***************************************************************************)
\* The walk is defined by its recursion, whatever the children are.
LEMMA WalkSteps ==
  ASSUME NEW child, NEW ends, ends \subseteq Names, \A x \in Names \ ends : child[x] \in Names
  PROVE  \A x \in Names : WalkEnd(child, ends)[x] = IF x \in ends THEN x ELSE WalkEnd(child, ends)[child[x]]
<1> DEFINE Closed(S) == \A z \in S \ ends : child[z] \in S
           Path(x) == {y \in Names : \A S \in SUBSET Names : x \in S /\ Closed(S) => y \in S}
           f == [x \in Names |-> CHOOSE y : y \in Path(x) \cap ends]
           Body(e) == [x \in Names |-> IF x \in ends THEN x ELSE e[child[x]]]
           end == CHOOSE e : e = Body(e)
<1>1. ASSUME NEW x \in Names PROVE f[x] = IF x \in ends THEN x ELSE f[child[x]]
  <2>1. CASE x \in ends
    <3>1. Closed({x}) /\ {x} \in SUBSET Names /\ x \in {x}
      BY <2>1
    <3>2. Path(x) \cap ends = {x}
      BY <3>1, <2>1
    <3>3. f[x] = CHOOSE y : y \in {x}
      BY <3>2
    <3> QED BY <3>3, <2>1
  <2>2. CASE x \notin ends
    <3>1. child[x] \in Names
      BY <2>2
    <3>2. \A S : x \in S /\ Closed(S) => child[x] \in S
      BY <2>2
    <3>3. Path(child[x]) \subseteq Path(x)
      <4>1. SUFFICES ASSUME NEW y \in Path(child[x]), NEW S \in SUBSET Names, x \in S, Closed(S)
                     PROVE  y \in S
        OBVIOUS
      <4> HIDE DEF Closed
      <4>2. child[x] \in S
        BY <4>1, <3>2
      <4> QED BY <4>1, <4>2
    <3>4. Path(x) \subseteq {x} \cup Path(child[x])
      <4>1. SUFFICES ASSUME NEW y \in Path(x), y # x, NEW S \in SUBSET Names, child[x] \in S, Closed(S)
                     PROVE  y \in S
        OBVIOUS
      <4>2. Closed(S \cup {x}) /\ S \cup {x} \in SUBSET Names /\ x \in S \cup {x}
        BY <4>1
      <4> HIDE DEF Closed
      <4>3. y \in S \cup {x}
        BY <4>1, <4>2
      <4> QED BY <4>1, <4>3
    <3>5. Path(x) \cap ends = Path(child[x]) \cap ends
      BY <3>3, <3>4, <2>2
    <3> HIDE DEF Path
    <3> QED BY <3>1, <3>5, <2>2
  <2> QED BY <2>1, <2>2
<1> HIDE DEF f
<1>2. f = Body(f)
  <2>1. f = [x \in Names |-> f[x]]
    BY DEF f
  <2> QED BY <1>1, <2>1
<1>3. end = Body(end)
  <2> HIDE DEF Body
  <2> QED BY <1>2
<1>4. WalkEnd(child, ends) = end
  BY DEF WalkEnd
<1> HIDE DEF end
<1>5. \A x \in Names : end[x] = IF x \in ends THEN x ELSE end[child[x]]
  BY <1>3
<1> QED BY <1>4, <1>5

\* The child of x on the way to n.
Way(l, r, n) == [x \in Names |-> IF n < x THEN l[x] ELSE r[x]]

LEMMA WayFacts ==
  ASSUME NodeTreeAssumption, NEW rt, NEW l, NEW r, NEW D, IsTree(rt, l, r, D), NEW n \in Names,
         NEW x \in Names
  PROVE  /\ Way(l, r, n)[x] \in {l[x], r[x]}
         /\ Way(l, r, n)[x] # Nil => Way(l, r, n)[x] \in Names
         /\ n \in D[x] /\ n # x => n \in D[Way(l, r, n)[x]]
<1>1. Way(l, r, n)[x] = IF n < x THEN l[x] ELSE r[x]
  BY DEF Way
<1>2. l[x] \in Node /\ r[x] \in Node /\ x \in Int /\ n \in Int
  BY TreeFacts
<1>3. ASSUME n \in D[x], n # x PROVE n \in D[Way(l, r, n)[x]]
  <2>1. n \in D[l[x]] \/ n \in D[r[x]]
    BY <1>3 DEF IsTree
  <2>2. (n \in D[l[x]] => n < x) /\ (n \in D[r[x]] => n > x)
    BY DEF IsTree
  <2> QED BY <1>1, <1>2, <2>1, <2>2
<1> QED BY <1>1, <1>2, <1>3 DEF Node

SearchEnds(child, n) == {x \in Names : x = n \/ child[x] = Nil}

\* A search that begins at x ends below x, at n if n is below x; all that it
\* passed, and nothing else above its end, is on its way.
LEMMA SearchEndsWell ==
  ASSUME NodeTreeAssumption, NEW rt, NEW l, NEW r, NEW D, IsTree(rt, l, r, D), NEW n \in Names,
         NEW x \in Names,
         NEW child, child = Way(l, r, n),
         NEW y, y = WalkEnd(child, SearchEnds(child, n))[x]
  PROVE  /\ y \in D[x] /\ y \in SearchEnds(child, n)
         /\ n \in D[x] => y = n
         /\ \A a \in D[x] : y \in D[a] /\ a # y => y \in D[child[a]]
<1> DEFINE ends == SearchEnds(child, n)
           at == WalkEnd(child, ends)
           Good(b) == /\ at[b] \in D[b] /\ at[b] \in ends
                      /\ n \in D[b] => at[b] = n
                      /\ \A a \in D[b] : at[b] \in D[a] /\ a # at[b] => at[b] \in D[child[a]]
           S == {b \in Names : ~ Good(b)}
<1>1. ends \subseteq Names /\ \A b \in Names \ ends : child[b] \in Names /\ b # n
  BY WayFacts DEF SearchEnds
<1>2. \A b \in Names : at[b] = IF b \in ends THEN b ELSE at[child[b]]
  <2> HIDE DEF ends
  <2> QED BY <1>1, WalkSteps
<1> HIDE DEF at
<1>3. SUFFICES S = {}
  BY DEF at
<1>4. SUFFICES ASSUME S # {} PROVE FALSE
  OBVIOUS
<1>5. PICK b \in S : l[b] \notin S /\ r[b] \notin S
  <2>1. S \subseteq Names
    OBVIOUS
  <2> HIDE DEF S
  <2> QED BY <1>4, <2>1, Bottom
<1>6. b \in Names /\ b \in D[b]
  BY TreeFacts
<1>7. CASE b \in ends
  <2>1. at[b] = b
    BY <1>2, <1>6, <1>7
  <2>2. n \in D[b] => b = n
    BY <1>6, <1>7, WayFacts DEF SearchEnds, IsTree
  <2>3. ASSUME NEW a \in D[b], b \in D[a] PROVE a = b
    BY <2>3, <1>6, Antisymmetric
  <2> QED BY <2>1, <2>2, <2>3, <1>6, <1>7
<1>8. CASE b \notin ends
  <2> DEFINE c == child[b]
  <2>1. c \in Names /\ b # n /\ c \in {l[b], r[b]}
    BY <1>1, <1>6, <1>8, WayFacts
  <2>2. at[b] = at[c] /\ Good(c)
    BY <1>2, <1>5, <1>6, <1>8, <2>1
  <2>3. D[b] = {b} \cup D[l[b]] \cup D[r[b]] /\ D[l[b]] \cap D[r[b]] = {} /\ b \notin D[c]
    BY <1>6, <2>1, TreeFacts DEF IsTree
  <2>4. n \in D[b] => n \in D[c]
    BY <1>6, <2>1, WayFacts
  <2>5. ASSUME NEW a \in D[b], at[b] \in D[a], a # at[b] PROVE at[b] \in D[child[a]]
    <3>1. CASE a = b
      BY <3>1, <2>2
    <3>2. CASE a \in D[c]
      BY <3>2, <2>2, <2>5
    <3>3. CASE a # b /\ a \notin D[c]
      <4>1. PICK o \in {l[b], r[b]} : a \in D[o] /\ o # c /\ o \in Names
        BY <3>3, <2>3, <2>1, TreeFacts DEF Node, IsTree
      <4>2. at[b] \in D[o]
        BY <4>1, <2>5, Transitive
      <4> QED BY <4>1, <4>2, <2>1, <2>2, <2>3
    <3> QED BY <3>1, <3>2, <3>3
  <2>6. at[b] \in D[b] /\ at[b] \in ends
    BY <2>1, <2>2, <2>3
  <2> QED BY <2>2, <2>4, <2>5, <2>6
<1> QED BY <1>7, <1>8

ParentEnds(child, n) == {x \in Names : child[x] \in {n, Nil}}

\* The walk to the node that n hangs from.
LEMMA ParentFound ==
  ASSUME NodeTreeAssumption, NEW rt, NEW l, NEW r, NEW D, IsTree(rt, l, r, D), NEW n \in Names,
         NEW x \in Names, n \in D[x], n # x,
         NEW child, child = Way(l, r, n),
         NEW y, y = WalkEnd(child, ParentEnds(child, n))[x]
  PROVE  y \in D[x] /\ child[y] = n
<1> DEFINE ends == ParentEnds(child, n)
           at == WalkEnd(child, ends)
           S == {b \in Names : n \in D[b] /\ n # b /\ ~ (at[b] \in D[b] /\ child[at[b]] = n)}
<1>1. ends \subseteq Names /\ \A b \in Names \ ends : child[b] \in Names /\ child[b] # n
  BY WayFacts DEF ParentEnds
<1>2. \A b \in Names : at[b] = IF b \in ends THEN b ELSE at[child[b]]
  <2> HIDE DEF ends
  <2> QED BY <1>1, WalkSteps
<1> HIDE DEF at
<1>3. SUFFICES ASSUME S # {} PROVE FALSE
  BY DEF at
<1>4. PICK b \in S : l[b] \notin S /\ r[b] \notin S
  <2>1. S \subseteq Names
    OBVIOUS
  <2> HIDE DEF S
  <2> QED BY <1>3, <2>1, Bottom
<1>5. b \in D[b] /\ n \in D[child[b]] /\ child[b] \in {l[b], r[b]} /\ D[Nil] = {}
  <2>1. b \in Names /\ n \in D[b] /\ n # b
    OBVIOUS
  <2> HIDE DEF S
  <2>2. b \in D[b]
    BY <2>1, TreeFacts
  <2>3. n \in D[child[b]] /\ child[b] \in {l[b], r[b]}
    BY <2>1, WayFacts
  <2> QED BY <2>2, <2>3 DEF IsTree
<1>6. CASE b \in ends
  <2>1. at[b] = b /\ child[b] = n
    BY <1>2, <1>5, <1>6 DEF ParentEnds
  <2> QED BY <2>1, <1>5
<1>7. CASE b \notin ends
  <2>1. at[b] = at[child[b]] /\ child[b] \in Names /\ child[b] # n
    BY <1>1, <1>2, <1>7
  <2>2. at[child[b]] \in D[child[b]] /\ child[at[child[b]]] = n
    BY <2>1, <1>4, <1>5
  <2>3. D[child[b]] \subseteq D[b]
    BY <1>5 DEF IsTree
  <2> QED BY <2>1, <2>2, <2>3
<1> QED BY <1>6, <1>7

\* The least node below x.
LEMMA LeftmostFound ==
  ASSUME NodeTreeAssumption, NEW rt, NEW l, NEW r, NEW D, IsTree(rt, l, r, D), NEW x \in Names,
         NEW y, y = WalkEnd(l, {a \in Names : l[a] = Nil})[x]
  PROVE  y \in D[x] /\ l[y] = Nil /\ \A a \in D[x] : a # y => a > y
<1> DEFINE ends == {a \in Names : l[a] = Nil}
           at == WalkEnd(l, ends)
           S == {b \in Names : ~ (at[b] \in D[b] /\ l[at[b]] = Nil /\ \A a \in D[b] : a # at[b] => a > at[b])}
<1>1. ends \subseteq Names /\ \A b \in Names \ ends : l[b] \in Names
  BY TreeFacts DEF Node
<1>2. \A b \in Names : at[b] = IF b \in ends THEN b ELSE at[l[b]]
  <2> HIDE DEF ends
  <2> QED BY <1>1, WalkSteps
<1> HIDE DEF at
<1>3. SUFFICES ASSUME S # {} PROVE FALSE
  BY DEF at
<1>4. PICK b \in S : l[b] \notin S /\ r[b] \notin S
  <2>1. S \subseteq Names
    OBVIOUS
  <2> HIDE DEF S
  <2> QED BY <1>3, <2>1, Bottom
<1>5. b \in D[b] /\ D[b] = {b} \cup D[l[b]] \cup D[r[b]] /\ D[Nil] = {} /\ D[b] \subseteq Int /\ b \in Int
  <2>1. b \in Names
    OBVIOUS
  <2> HIDE DEF S
  <2>2. b \in D[b] /\ D[b] \subseteq Names /\ Names \subseteq Int
    BY <2>1, TreeFacts DEF Node
  <2> QED BY <2>1, <2>2 DEF IsTree
<1>6. (\A a \in D[l[b]] : a < b) /\ (\A a \in D[r[b]] : a > b)
  BY DEF IsTree
<1>7. CASE b \in ends
  <2>1. at[b] = b /\ l[b] = Nil
    BY <1>2, <1>7
  <2> QED BY <2>1, <1>5, <1>6
<1>8. CASE b \notin ends
  <2>1. at[b] = at[l[b]] /\ l[b] \in Names
    BY <1>1, <1>2, <1>8
  <2>2. at[l[b]] \in D[l[b]] /\ l[at[l[b]]] = Nil /\ \A a \in D[l[b]] : a # at[l[b]] => a > at[l[b]]
    BY <2>1, <1>4
  <2>3. \A a \in D[b] : a # at[b] => a > at[b]
    <3>1. at[b] \in D[l[b]] /\ at[b] < b /\ at[b] \in Int
      BY <2>1, <2>2, <1>5, <1>6
    <3>2. \A a \in D[r[b]] : a > at[b]
      BY <3>1, <1>5, <1>6
    <3> QED BY <3>1, <3>2, <2>1, <2>2, <1>5
  <2> QED BY <2>1, <2>2, <2>3, <1>5
<1> QED BY <1>7, <1>8

-----------------------------------------------------------------------------
(***************************************************************************)
(* Adding a node, and taking one out.                                      *)
(***************************************************************************)
LEMMA AddedAtRoot ==
  ASSUME NodeTreeAssumption, NEW l, NEW r, NEW D, IsTree(Nil, l, r, D), NEW n \in Names
  PROVE  IsTree(n, l, r, D) /\ D[n] = D[Nil] \cup {n}
<1>1. D[Nil] = {} /\ \A x \in Names : l[x] = Nil /\ r[x] = Nil
  BY DEF IsTree
<1>2. D[n] = {n}
  BY <1>1 DEF IsTree
<1>3. IsTree(n, l, r, D)
  BY <1>1 DEF IsTree, Node
<1> QED BY <1>1, <1>2, <1>3

LEMMA AddedBelow ==
  ASSUME NodeTreeAssumption, NEW rt \in Names, NEW l, NEW r, NEW D, IsTree(rt, l, r, D),
         NEW n \in Names, n \notin D[rt],
         NEW child, child = Way(l, r, n),
         NEW p, p = WalkEnd(child, SearchEnds(child, n))[rt],
         NEW m, m = IF n < p THEN [l EXCEPT ![p] = n] ELSE l,
         NEW s, s = IF n > p THEN [r EXCEPT ![p] = n] ELSE r
  PROVE  p \notin {Nil, n} /\ \E E : IsTree(rt, m, s, E) /\ E[rt] = D[rt] \cup {n}
<1>1. /\ p \in D[rt] /\ p \in SearchEnds(child, n)
      /\ \A a \in D[rt] : p \in D[a] /\ a # p => p \in D[child[a]]
  BY SearchEndsWell
<1>2. p \in Names /\ p # n /\ p # Nil /\ n # Nil /\ p \in Int /\ n \in Int /\ child[p] = Nil
  BY <1>1, TreeFacts DEF SearchEnds
<1>3. l[n] = Nil /\ r[n] = Nil /\ D[n] = {n} /\ D[Nil] = {}
  BY DEF IsTree
<1>4. /\ m \in [Names -> Node] /\ s \in [Names -> Node]
      /\ \A x \in Names : m[x] = IF x = p /\ n < p THEN n ELSE l[x]
      /\ \A x \in Names : s[x] = IF x = p /\ n > p THEN n ELSE r[x]
  BY <1>2 DEF IsTree, Node
<1>5. (n < p => l[p] = Nil) /\ (n > p => r[p] = Nil) /\ (n < p \/ n > p)
  BY <1>2 DEF Way
<1> DEFINE E == [x \in Node |-> IF p \in D[x] THEN D[x] \cup {n} ELSE D[x]]
<1>6. E \in [Node -> SUBSET Names] /\ E[Nil] = {}
  BY <1>3 DEF IsTree, Node
<1>7. \A x \in Node : E[x] = IF p \in D[x] THEN D[x] \cup {n} ELSE D[x]
  OBVIOUS
<1>8. E[n] = {n}
  BY <1>2, <1>3 DEF Node
<1> HIDE DEF E
<1>9. ASSUME NEW x \in Names
      PROVE  /\ E[x] = {x} \cup E[m[x]] \cup E[s[x]]
             /\ (\A y \in E[m[x]] : y < x) /\ (\A y \in E[s[x]] : y > x)
  <2>1. /\ D[x] = {x} \cup D[l[x]] \cup D[r[x]] /\ l[x] \in Node /\ r[x] \in Node /\ x \in Node
        /\ x \notin D[l[x]] /\ x \notin D[r[x]] /\ D[l[x]] \cap D[r[x]] = {}
    BY Around
  <2>2. (\A y \in D[l[x]] : y < x) /\ (\A y \in D[r[x]] : y > x) /\ x \in Int
    BY TreeFacts DEF IsTree
  <2>3. CASE x = p
    <3>1. E[l[x]] = D[l[x]] /\ E[r[x]] = D[r[x]] /\ E[x] = D[x] \cup {n}
      BY <2>1, <2>3, <1>7
    <3>2. CASE n < p
      <4>1. m[x] = n /\ s[x] = r[x] /\ D[l[x]] = {}
        BY <3>2, <2>3, <1>2, <1>3, <1>4, <1>5
      <4> QED BY <4>1, <3>1, <3>2, <2>1, <2>2, <2>3, <1>8
    <3>3. CASE n > p
      <4>1. s[x] = n /\ m[x] = l[x] /\ D[r[x]] = {}
        BY <3>3, <2>3, <1>2, <1>3, <1>4, <1>5
      <4> QED BY <4>1, <3>1, <3>3, <2>1, <2>2, <2>3, <1>8
    <3> QED BY <3>2, <3>3, <1>5
  <2>4. CASE x # p
    <3>1. m[x] = l[x] /\ s[x] = r[x]
      BY <2>4, <1>4
    <3>2. E[x] = {x} \cup E[m[x]] \cup E[s[x]]
      BY <3>1, <2>1, <2>4, <1>7
    <3>3. ASSUME p \in D[x] PROVE p \in D[child[x]] /\ x # n
      <4>1. x \in D[rt]
        <5>1. x \notin D[rt] => D[x] = {x}
          BY DEF IsTree
        <5> QED BY <5>1, <3>3, <2>4
      <4> QED BY <4>1, <3>3, <2>4, <1>1, <1>2, <1>3
    <3>4. child[x] = IF n < x THEN l[x] ELSE r[x]
      BY DEF Way
    <3>5. (p \in D[l[x]] => n < x) /\ (p \in D[r[x]] => n > x)
      BY <3>3, <3>4, <2>1, <2>2, <1>2
    <3>6. \A y \in E[m[x]] : y < x
      <4>1. E[m[x]] = IF p \in D[l[x]] THEN D[l[x]] \cup {n} ELSE D[l[x]]
        BY <3>1, <2>1, <1>7
      <4> QED BY <4>1, <3>5, <2>2
    <3>7. \A y \in E[s[x]] : y > x
      <4>1. E[s[x]] = IF p \in D[r[x]] THEN D[r[x]] \cup {n} ELSE D[r[x]]
        BY <3>1, <2>1, <1>7
      <4> QED BY <4>1, <3>5, <2>2
    <3> QED BY <3>2, <3>6, <3>7
  <2> QED BY <2>3, <2>4
<1>10. E[rt] = D[rt] \cup {n}
  BY <1>1, <1>7 DEF Node
<1>11. \A x \in Names \ E[rt] : m[x] = Nil /\ s[x] = Nil
  BY <1>1, <1>4, <1>10 DEF IsTree
<1>12. IsTree(rt, m, s, E)
  BY <1>4, <1>6, <1>9, <1>11 DEF IsTree, Node
<1> QED BY <1>2, <1>10, <1>12

\* The node n hangs from; no other node than p has n for a child.
Above(rt, l, r, n) ==
  IF rt = n THEN Nil ELSE WalkEnd(Way(l, r, n), ParentEnds(Way(l, r, n), n))[rt]

LEMMA OnlyParent ==
  ASSUME NodeTreeAssumption, NEW rt, NEW l, NEW r, NEW D, IsTree(rt, l, r, D),
         NEW n \in D[rt],
         NEW p, p = Above(rt, l, r, n)
  PROVE  /\ rt \in Names /\ n \in Names
         /\ p # Nil => p \in D[rt] /\ p \in Names /\ rt # n /\ p # n /\ n \in {l[p], r[p]}
         /\ p = Nil => rt = n
         /\ \A x \in Names : x # p => n \notin {l[x], r[x]}
<1>1. rt \in Names /\ n \in Names /\ D[rt] \subseteq Names /\ Nil \notin Names
  BY TreeFacts DEF IsTree, Node
<1>2. CASE rt = n
  <2>1. p = Nil
    BY <1>2 DEF Above
  <2>2. \A x \in Names : n \notin {l[x], r[x]}
    BY <1>1, <1>2, RootHasNone
  <2> QED BY <1>1, <1>2, <2>1, <2>2
<1>3. CASE rt # n
  <2>1. p \in D[rt] /\ Way(l, r, n)[p] = n
    BY <1>1, <1>3, ParentFound DEF Above
  <2>2. p \in Names /\ p # Nil
    BY <1>1, <2>1
  <2>3. n \in {l[p], r[p]}
    BY <1>1, <2>1, <2>2, WayFacts
  <2>4. p # n
    BY <1>1, <2>2, <2>3, TreeFacts
  <2>5. \A x \in Names : n \in {l[x], r[x]} => x = p
    BY <1>1, <2>2, <2>3, OneParent
  <2> QED BY <1>1, <1>3, <2>1, <2>2, <2>3, <2>4, <2>5
<1> QED BY <1>2, <1>3

\* The children once rem, the only one n has, hangs from p in the place of n.
CutLeft(l, n, p, rem) ==
  [x \in Names |-> IF x = n THEN Nil
                  ELSE IF p # Nil /\ x = p /\ l[p] = n THEN rem ELSE l[x]]
CutRight(l, r, n, p, rem) ==
  [x \in Names |-> IF x = n THEN Nil
                  ELSE IF p # Nil /\ x = p /\ l[p] # n THEN rem ELSE r[x]]

\* Where a walk to the left ends.
Lasts(l) == {a \in Names : l[a] = Nil}

\* The children once rem, the least on the right of n, is in the place of n;
\* deep: rem leaves what was on its right to up, the node it hung from.
MovedLeft(l, r, n, p, rem, deep, up) ==
  [x \in Names |-> IF x = n THEN Nil
                  ELSE IF x = rem THEN l[n]
                  ELSE IF deep /\ x = up THEN r[rem]
                  ELSE IF p # Nil /\ x = p /\ l[p] = n THEN rem ELSE l[x]]
MovedRight(l, r, n, p, rem, deep) ==
  [x \in Names |-> IF x = n THEN Nil
                  ELSE IF deep /\ x = rem THEN r[n]
                  ELSE IF p # Nil /\ x = p /\ l[p] # n THEN rem ELSE r[x]]

\* A node with one child or none.
LEMMA TakenOut ==
  ASSUME NodeTreeAssumption, NEW rt, NEW l, NEW r, NEW D, IsTree(rt, l, r, D),
         NEW n \in D[rt],
         NEW p, p = Above(rt, l, r, n),
         l[n] = Nil \/ r[n] = Nil,
         NEW rem, rem = IF l[n] = Nil THEN r[n] ELSE l[n],
         NEW root2, root2 = IF p = Nil THEN rem ELSE rt,
         NEW m, m = CutLeft(l, n, p, rem),
         NEW s, s = CutRight(l, r, n, p, rem)
  PROVE  (\E E : IsTree(root2, m, s, E) /\ E[root2] = D[rt] \ {n}) /\ p # n
<1>1. /\ rt \in Names /\ n \in Names
      /\ p # Nil => p \in D[rt] /\ p \in Names /\ rt # n /\ p # n /\ n \in {l[p], r[p]}
      /\ p = Nil => rt = n
      /\ \A x \in Names : x # p => n \notin {l[x], r[x]}
  BY OnlyParent
<1>2. /\ rem \in Node /\ rem # n /\ D[n] = {n} \cup D[rem] /\ n \notin D[rem] /\ D[Nil] = {}
  <2>1. D[n] = {n} \cup D[l[n]] \cup D[r[n]] /\ D[Nil] = {} /\ l[n] \in Node /\ r[n] \in Node
    BY <1>1 DEF IsTree
  <2>2. n \notin D[l[n]] /\ n \notin D[r[n]] /\ n \in D[n] /\ Nil \notin Names
    BY <1>1, TreeFacts
  <2> QED BY <1>1, <2>1, <2>2
<1> DEFINE E == [x \in Node |-> IF x = n THEN {n} ELSE D[x] \ {n}]
<1>3. E \in [Node -> SUBSET Names] /\ E[Nil] = {} /\ Nil \notin Names
  <2>1. Nil \notin Names /\ \A x \in Node : D[x] \subseteq Names
    BY TreeFacts
  <2> QED BY <1>1, <1>2, <2>1 DEF Node
<1>4. \A x \in Node : E[x] = IF x = n THEN {n} ELSE D[x] \ {n}
  OBVIOUS
<1> HIDE DEF E
<1>5. \A x \in Names : /\ m[x] = IF x = n THEN Nil ELSE IF p # Nil /\ x = p /\ l[p] = n THEN rem ELSE l[x]
                       /\ s[x] = IF x = n THEN Nil ELSE IF p # Nil /\ x = p /\ l[p] # n THEN rem ELSE r[x]
  BY DEF CutLeft, CutRight
<1>6. m \in [Names -> Node] /\ s \in [Names -> Node] /\ root2 \in Node
  BY <1>1, <1>2 DEF IsTree, Node, CutLeft, CutRight
<1>7. E[root2] = D[rt] \ {n}
  BY <1>1, <1>2, <1>4 DEF Node
<1> HIDE DEF E
<1>8. ASSUME NEW x \in Names
      PROVE  /\ E[x] = {x} \cup E[m[x]] \cup E[s[x]]
             /\ (\A y \in E[m[x]] : y < x) /\ (\A y \in E[s[x]] : y > x)
  <2>1. /\ D[x] = {x} \cup D[l[x]] \cup D[r[x]] /\ l[x] \in Node /\ r[x] \in Node /\ x \in Node
        /\ x \notin D[l[x]] /\ x \notin D[r[x]] /\ D[l[x]] \cap D[r[x]] = {}
    BY Around
  <2>2. (\A y \in D[l[x]] : y < x) /\ (\A y \in D[r[x]] : y > x)
    BY DEF IsTree
  <2>3. CASE x = n
    BY <2>3, <1>3, <1>4, <1>5 DEF Node
  <2>4. CASE x # n /\ x # p
    <3>1. m[x] = l[x] /\ s[x] = r[x] /\ l[x] # n /\ r[x] # n
      BY <2>4, <1>1, <1>5
    <3>2. E[m[x]] = D[l[x]] \ {n} /\ E[s[x]] = D[r[x]] \ {n} /\ E[x] = D[x] \ {n}
      BY <3>1, <2>1, <2>4, <1>4
    <3> QED BY <3>2, <2>1, <2>2, <2>4
  <2>5. CASE x # n /\ x = p /\ l[p] = n
    <3>1. m[x] = rem /\ s[x] = r[x] /\ n \in D[n] /\ p # Nil
      BY <2>5, <1>2, <1>3, <1>5
    <3>2. r[x] # n
      BY <2>1, <2>5, <3>1
    <3>4. E[rem] = D[rem] \ {n} /\ E[r[x]] = D[r[x]] \ {n} /\ E[x] = D[x] \ {n}
      BY <3>2, <2>1, <2>5, <1>2, <1>4
    <3>5. D[rem] \ {n} = D[l[x]] \ {n}
      BY <2>5, <1>2
    <3>3. E[m[x]] = D[l[x]] \ {n} /\ E[s[x]] = D[r[x]] \ {n} /\ E[x] = D[x] \ {n}
      BY <3>1, <3>4, <3>5
    <3> QED BY <3>3, <2>1, <2>2, <2>5
  <2>6. CASE x # n /\ x = p /\ l[p] # n
    <3>1. m[x] = l[x] /\ s[x] = rem /\ r[x] = n /\ p # Nil
      BY <2>6, <1>1, <1>3, <1>5
    <3>2. E[m[x]] = D[l[x]] \ {n} /\ E[s[x]] = D[r[x]] \ {n} /\ E[x] = D[x] \ {n}
      BY <3>1, <2>1, <2>6, <1>2, <1>4
    <3> QED BY <3>2, <2>1, <2>2, <2>6
  <2> QED BY <2>3, <2>4, <2>5, <2>6
<1>9. \A x \in Names \ E[root2] : m[x] = Nil /\ s[x] = Nil
  BY <1>1, <1>3, <1>5, <1>7 DEF IsTree
<1>10. IsTree(root2, m, s, E)
  BY <1>3, <1>6, <1>8, <1>9 DEF IsTree
<1>20. p # n
  BY <1>1, TreeFacts DEF Node
<1> QED BY <1>7, <1>10, <1>20

\* A node with two children, whose place the least node on its right takes.
LEMMA Replaced ==
  ASSUME NodeTreeAssumption, NEW rt, NEW l, NEW r, NEW D, IsTree(rt, l, r, D),
         NEW n \in D[rt],
         NEW p, p = Above(rt, l, r, n),
         l[n] # Nil, r[n] # Nil,
         NEW rem, rem = WalkEnd(l, Lasts(l))[r[n]],
         NEW up, up = Above(rt, l, r, rem),
         NEW deep, deep = (rem # r[n]),
         NEW root2, root2 = IF p = Nil THEN rem ELSE rt,
         NEW m, m = MovedLeft(l, r, n, p, rem, deep, up),
         NEW s, s = MovedRight(l, r, n, p, rem, deep)
  PROVE  /\ \E E : IsTree(root2, m, s, E) /\ E[root2] = D[rt] \ {n}
         /\ p # n /\ rem # n /\ p # rem /\ (deep => up # n /\ up # rem /\ up # p)
<1>1. /\ rt \in Names /\ n \in Names
      /\ p # Nil => p \in D[rt] /\ p \in Names /\ rt # n /\ p # n /\ n \in {l[p], r[p]}
      /\ p = Nil => rt = n
      /\ \A x \in Names : x # p => n \notin {l[x], r[x]}
  BY OnlyParent
<1>2. /\ D[n] = {n} \cup D[l[n]] \cup D[r[n]] /\ D[Nil] = {} /\ l[n] \in Names /\ r[n] \in Names
      /\ n \notin D[l[n]] /\ n \notin D[r[n]] /\ D[l[n]] \cap D[r[n]] = {}
      /\ l[n] \in D[l[n]] /\ r[n] \in D[r[n]] /\ Nil \notin Names /\ n \in D[n]
  <2>1. l[n] \in Names /\ r[n] \in Names
    BY <1>1, Around DEF Node
  <2>2. l[n] \in D[l[n]] /\ r[n] \in D[r[n]] /\ Nil \notin Names /\ n \in D[n]
    BY <2>1, <1>1, TreeFacts
  <2>3. /\ D[n] = {n} \cup D[l[n]] \cup D[r[n]]
        /\ n \notin D[l[n]] /\ n \notin D[r[n]] /\ D[l[n]] \cap D[r[n]] = {}
    BY <1>1, Around
  <2>4. D[Nil] = {}
    BY DEF IsTree
  <2> QED BY <2>1, <2>2, <2>3, <2>4
<1>3. D[n] \subseteq D[rt] /\ D[rt] \subseteq Names /\ Names \subseteq Int
  BY <1>1, Transitive, TreeFacts
\* The node that moves is least on the right of n.
<1>4. /\ rem \in D[r[n]] /\ l[rem] = Nil /\ \A a \in D[r[n]] : a # rem => a > rem
  BY <1>2, LeftmostFound DEF Lasts
<1>5. /\ rem \in Names /\ rem \in D[n] /\ rem # n /\ rem \in D[rt] /\ rem \notin D[l[n]] /\ rt # rem
      /\ rem \in D[rem] /\ rem > n
  <2>1. rem \in Names /\ rem \in D[n] /\ rem \in D[rt] /\ rem # n /\ rem \notin D[l[n]]
    BY <1>2, <1>3, <1>4
  <2>2. rt # rem
    <3>1. n \in D[rt] /\ rt \in D[rt]
      BY <1>1, TreeFacts
    <3> QED BY <3>1, <2>1, <1>1, Antisymmetric
  <2>3. rem \in D[rem] /\ rem > n
    BY <2>1, <1>1, <1>4, TreeFacts DEF IsTree
  <2> QED BY <2>1, <2>2, <2>3
<1>6. /\ up \in Names /\ rem \in {l[up], r[up]} /\ up # rem
      /\ \A x \in Names : x # up => rem \notin {l[x], r[x]}
  <2>1. /\ up # Nil => up \in Names /\ up # rem /\ rem \in {l[up], r[up]}
        /\ up = Nil => rt = rem
        /\ \A x \in Names : x # up => rem \notin {l[x], r[x]}
    <3>1. rem \in D[rt]
      BY <1>5
    <3> HIDE DEF NodeTreeAssumption
    <3> QED BY <3>1, OnlyParent, SMTT(60)
  <2>2. up # Nil
    BY <1>5, <2>1
  <2> QED BY <2>1, <2>2
<1>7. ~ deep => up = n
  BY <1>1, <1>2, <1>6
<1>8. deep => up \in D[r[n]] /\ l[up] = rem /\ up > rem
  <2>1. SUFFICES ASSUME deep PROVE up \in D[r[n]] /\ l[up] = rem /\ up > rem
    OBVIOUS
  <2> DEFINE toRem == Way(l, r, rem)
             u == WalkEnd(toRem, ParentEnds(toRem, rem))[r[n]]
  <2>2. u \in D[r[n]] /\ toRem[u] = rem
    <3>1. rem \in Names /\ r[n] \in Names /\ rem \in D[r[n]] /\ rem # r[n]
      BY <2>1, <1>2, <1>4, <1>5
    <3> QED BY <3>1, ParentFound
  <2> HIDE DEF u
  <2>3. u \in Names
    BY <2>2, <1>2, TreeFacts DEF Node
  <2>4. rem \in {l[u], r[u]}
    BY <2>2, <2>3, <1>5, WayFacts
  <2>5. u = up
    BY <2>3, <2>4, <1>6
  <2>6. u > rem
    BY <2>2, <2>5, <1>4, <1>6
  <2>7. rem < u
    BY <2>3, <2>6, <1>5, <1>3
  <2>8. toRem[u] = l[u]
    BY <2>3, <2>7 DEF Way
  <2> QED BY <2>2, <2>5, <2>6, <2>8
\* What is below rem stays below it or what it hung from.
<1> DEFINE c == r[rem]
<1>9. c \in Node /\ D[rem] = {rem} \cup D[c] /\ rem \notin D[c] /\ c # n /\ c # rem
  <2>1. c \in Node /\ D[rem] = {rem} \cup D[l[rem]] \cup D[c] /\ rem \notin D[c]
    <3>1. rem \in Names
      BY <1>5
    <3> HIDE DEF c
    <3>2. c = r[rem]
      BY DEF c
    <3>3. D[rem] = {rem} \cup D[l[rem]] \cup D[r[rem]]
      BY <3>1 DEF IsTree
    <3>4. r[rem] \in Node /\ rem \notin D[r[rem]]
      BY <3>1, TreeFacts
    <3> QED BY <3>2, <3>3, <3>4
  <2>2. D[rem] = {rem} \cup D[c]
    BY <2>1, <1>2, <1>4
  <2>3. c # rem
    BY <2>1, <1>5
  <2>4. D[rem] \subseteq D[r[n]]
    BY <1>2, <1>4, Transitive
  <2>5. c # n
    BY <2>2, <2>4, <1>2
  <2> QED BY <2>1, <2>2, <2>3, <2>5
<1> HIDE DEF c
<1> DEFINE E == [x \in Node |-> IF x = n THEN {n}
                               ELSE IF x = rem THEN D[n] \ {n}
                               ELSE IF x \in D[n] THEN D[x] \ {rem}
                               ELSE D[x] \ {n}]
<1>10. E \in [Node -> SUBSET Names]
  <2>1. \A x \in Node : D[x] \subseteq Names
    BY TreeFacts
  <2> QED BY <1>1, <1>3, <2>1 DEF Node
<1>11. \A x \in Node : E[x] = IF x = n THEN {n} ELSE IF x = rem THEN D[n] \ {n}
                             ELSE IF x \in D[n] THEN D[x] \ {rem} ELSE D[x] \ {n}
  OBVIOUS
<1> HIDE DEF E
<1>21. /\ \A x \in Node : x # n /\ x # rem /\ x \in D[n] => E[x] = D[x] \ {rem}
       /\ \A x \in Node : x # n /\ x # rem /\ x \notin D[n] => E[x] = D[x] \ {n}
  BY <1>11
<1>12. E[Nil] = {} /\ E[rem] = D[n] \ {n}
  BY <1>1, <1>2, <1>3, <1>5, <1>11 DEF Node
<1>13. m \in [Names -> Node] /\ s \in [Names -> Node] /\ root2 \in Node
  <2>1. l \in [Names -> Node] /\ r \in [Names -> Node]
    BY DEF IsTree
  <2> QED BY <2>1, <1>1, <1>2, <1>5, <1>9 DEF Node, c, MovedLeft, MovedRight
<1>18. E[c] = D[c]
  <2>1. c # Nil => c \in D[n]
    <3>1. c # Nil => c \in D[rem]
      BY <1>9, TreeFacts DEF Node
    <3>2. D[rem] \subseteq D[n]
      BY <1>1, <1>5, Transitive
    <3> QED BY <3>1, <3>2
  <2>2. c # Nil => E[c] = D[c] \ {rem}
    BY <2>1, <1>9, <1>11
  <2>3. CASE c = Nil
    BY <2>3, <1>2, <1>12
  <2>4. CASE c # Nil
    BY <2>2, <2>4, <1>9
  <2> QED BY <2>3, <2>4
<1>14. E[root2] = D[rt] \ {n}
  <2>1. CASE p = Nil
    BY <2>1, <1>1, <1>12
  <2>2. CASE p # Nil
    <3>1. rt \notin D[n]
      <4>1. rt \in D[rt] /\ rt # n
        BY <2>2, <1>1, TreeFacts
      <4> QED BY <4>1, <1>1, Antisymmetric
    <3> QED BY <2>2, <3>1, <1>1, <1>5, <1>11 DEF Node
  <2> QED BY <2>1, <2>2
<1>15. ASSUME NEW x \in Names
      PROVE  /\ E[x] = {x} \cup E[m[x]] \cup E[s[x]]
             /\ (\A y \in E[m[x]] : y < x) /\ (\A y \in E[s[x]] : y > x)
  <2>1. /\ D[x] = {x} \cup D[l[x]] \cup D[r[x]] /\ l[x] \in Node /\ r[x] \in Node /\ x \in Node
        /\ x \notin D[l[x]] /\ x \notin D[r[x]] /\ D[l[x]] \cap D[r[x]] = {}
    BY Around
  <2>2. (\A y \in D[l[x]] : y < x) /\ (\A y \in D[r[x]] : y > x)
    BY DEF IsTree
  <2>3. /\ m[x] = IF x = n THEN Nil ELSE IF x = rem THEN l[n]
                  ELSE IF deep /\ x = up THEN c ELSE IF p # Nil /\ x = p /\ l[p] = n THEN rem ELSE l[x]
        /\ s[x] = IF x = n THEN Nil ELSE IF deep /\ x = rem THEN r[n]
                  ELSE IF p # Nil /\ x = p /\ l[p] # n THEN rem ELSE r[x]
    BY DEF c, MovedLeft, MovedRight
  \* The children of a node below n are below n, and others' are not.
  <2>4. ASSUME NEW o \in {l[x], r[x]}, o # Nil, x \in D[n] PROVE o \in Names /\ o \in D[n] /\ o # n
    <3>1. o \in Names /\ o \in D[o] /\ o \in D[x]
      BY <2>1, <2>4, TreeFacts DEF Node
    <3>2. o \in D[n]
      BY <3>1, <2>4, <1>1, Transitive
    <3>3. o # n
      BY <3>1, <2>1, <2>4, <1>1, Antisymmetric
    <3> QED BY <3>1, <3>2, <3>3
  <2>5. ASSUME NEW o \in {l[x], r[x]}, o \in D[n], o # n PROVE x \in D[n]
    <3> DEFINE q == WalkEnd(Way(l, r, o), ParentEnds(Way(l, r, o), o))[n]
    <3>1. o \in Names
      BY <2>5, <1>1, TreeFacts DEF Node
    <3>2. q \in D[n] /\ Way(l, r, o)[q] = o
      BY <3>1, <2>5, <1>1, ParentFound
    <3> HIDE DEF q
    <3>3. q \in Names
      BY <3>2, <1>3
    <3>5. o \in {l[q], r[q]}
      BY <3>1, <3>2, <3>3, WayFacts
    <3>4. q = x
      BY <3>1, <3>3, <3>5, <2>5, OneParent
    <3> QED BY <3>2, <3>4
  <2>6. CASE x = n
    BY <2>6, <2>3, <1>1, <1>11, <1>12 DEF Node
  <2>7. CASE x = rem
    <3>1. m[x] = l[n] /\ E[x] = D[n] \ {n}
      BY <2>7, <2>3, <1>5, <1>12
    <3>2. E[l[n]] = D[l[n]]
      <4>1. l[n] # n /\ l[n] # rem /\ l[n] \in D[n] /\ l[n] \in Node
        BY <1>2, <1>5 DEF Node
      <4>2. E[l[n]] = D[l[n]] \ {rem}
        BY <4>1, <1>11
      <4> QED BY <4>2, <1>5
    <3>3. E[s[x]] = D[r[n]] \ {rem}
      <4>1. CASE deep
        <5>1. s[x] = r[n]
          BY <4>1, <2>3, <2>7, <1>5
        <5>2. r[n] # n /\ r[n] # rem /\ r[n] \in D[n] /\ r[n] \in Node
          BY <4>1, <1>2, <1>5 DEF Node
        <5> QED BY <5>1, <5>2, <1>11
      <4>2. CASE ~ deep
        <5>1. x # p
          <6>1. p # Nil => p \notin D[n]
            BY <1>1, Antisymmetric, TreeFacts
          <6> QED BY <6>1, <2>7, <1>2, <1>5
        <5>2. s[x] = c /\ rem = r[n]
          BY <4>2, <5>1, <2>3, <2>7, <1>5 DEF c
        <5> QED BY <5>2, <1>9, <1>18
      <4> QED BY <4>1, <4>2
    <3>4. \A y \in D[l[n]] : y < x
      <4>1. \A y \in D[l[n]] : y < n /\ y \in Int
        BY <1>1, <1>2, <1>3 DEF IsTree
      <4> QED BY <4>1, <2>7, <1>1, <1>3, <1>5
    <3>5. \A y \in D[r[n]] \ {rem} : y > x
      BY <2>7, <1>4
    <3>6. E[x] = {x} \cup D[l[n]] \cup (D[r[n]] \ {rem})
      BY <3>1, <2>7, <1>2, <1>4, <1>5
    <3> QED BY <3>1, <3>2, <3>3, <3>4, <3>5, <3>6
  <2>8. CASE x = up /\ deep
    <3>1. x \in D[n] /\ x # n /\ x # rem /\ l[x] = rem /\ rem \notin D[r[x]]
      BY <2>8, <2>1, <1>2, <1>5, <1>6, <1>8
    <3>2. x # p
      <4>1. p # Nil => p \notin D[n]
        BY <1>1, Antisymmetric, TreeFacts
      <4> QED BY <4>1, <3>1, <1>2
    <3>3. m[x] = c /\ s[x] = r[x] /\ E[x] = D[x] \ {rem}
      BY <3>1, <3>2, <2>1, <2>3, <2>8, <1>11
    <3>5. E[r[x]] = D[r[x]]
      <4>1. r[x] # rem
        BY <3>1, <1>5
      <4>2. r[x] # Nil => r[x] \in D[n] /\ r[x] # n
        BY <2>4, <3>1
      <4>3. r[x] # Nil => E[r[x]] = D[r[x]] \ {rem}
        BY <4>1, <4>2, <2>1, <1>11
      <4>4. r[x] = Nil => E[r[x]] = {} /\ D[r[x]] = {}
        BY <1>2, <1>12
      <4> QED BY <4>3, <4>4, <3>1
    <3>6. E[x] = {x} \cup E[m[x]] \cup E[s[x]]
      <4>1. D[x] = {x} \cup D[rem] \cup D[r[x]]
        BY <3>1, <2>1
      <4>3. D[rem] \ {rem} = D[c]
        BY <1>9
      <4>2. E[x] = {x} \cup D[c] \cup D[r[x]]
        BY <4>1, <4>3, <3>1, <3>3
      <4> QED BY <4>2, <3>3, <3>5, <1>18
    <3>7. E[m[x]] \subseteq D[l[x]] /\ E[s[x]] \subseteq D[r[x]]
      BY <3>1, <3>3, <3>5, <1>9, <1>18
    <3> QED BY <3>6, <3>7, <2>2
  <2>9. CASE x \in D[n] /\ x # n /\ x # rem /\ ~ (x = up /\ deep)
    <3>1. x # p
      <4>1. p # Nil => p \notin D[n]
        BY <1>1, Antisymmetric, TreeFacts
      <4> QED BY <4>1, <2>9, <1>2
    <3>2. m[x] = l[x] /\ s[x] = r[x] /\ E[x] = D[x] \ {rem}
      BY <3>1, <2>1, <2>3, <2>9, <1>11
    <3>3. rem \notin {l[x], r[x]}
      BY <2>9, <1>6, <1>7
    <3>4. ASSUME NEW o \in {l[x], r[x]} PROVE E[o] = D[o] \ {rem}
      <4>1. o # Nil => o \in D[n] /\ o # n /\ o \in Names
        BY <2>4, <2>9
      <4>2. CASE o = Nil
        BY <4>2, <1>2, <1>12
      <4>3. CASE o # Nil
        <5>1. o \in Node /\ o # n /\ o # rem /\ o \in D[n]
          BY <4>1, <4>3, <3>3 DEF Node
        <5> QED BY <5>1, <1>21
      <4> QED BY <4>2, <4>3
    <3> QED BY <3>2, <3>4, <2>1, <2>2, <2>9
  <2>10. CASE x = p /\ p # Nil
    <3>1. x \notin D[n] /\ x # n /\ x # rem /\ n \in {l[x], r[x]}
      <4>1. p \notin D[n]
        BY <2>10, <1>1, Antisymmetric, TreeFacts
      <4> QED BY <4>1, <2>10, <1>1, <1>5
    <3>2. ~ (deep /\ x = up)
      BY <3>1, <1>2, <1>8
    <3>3. ASSUME NEW o \in {l[x], r[x]}, o # n PROVE E[o] = D[o] \ {n}
      <4>1. o \notin D[n]
        BY <3>1, <3>3, <2>5
      <4>2. o # rem /\ o \in Node
        BY <4>1, <2>1, <1>5
      <4> QED BY <4>1, <4>2, <3>3, <1>11
    <3>4. E[x] = D[x] \ {n}
      BY <3>1, <2>1, <1>11
    <3>5. CASE l[x] = n
      <4>1. m[x] = rem /\ s[x] = r[x] /\ r[x] # n
        <5>1. r[x] # n
          BY <3>5, <2>1, <1>2
        <5> QED BY <5>1, <3>1, <3>2, <3>5, <2>3, <2>10
      <4>2. E[m[x]] = D[l[x]] \ {n} /\ E[s[x]] = D[r[x]] \ {n}
        BY <4>1, <3>3, <3>5, <1>12
      <4> QED BY <4>2, <3>1, <3>4, <2>1, <2>2
    <3>6. CASE l[x] # n
      <4>1. m[x] = l[x] /\ s[x] = rem /\ r[x] = n
        BY <3>1, <3>2, <3>6, <2>3, <2>10
      <4>2. E[m[x]] = D[l[x]] \ {n} /\ E[s[x]] = D[r[x]] \ {n}
        BY <4>1, <3>3, <3>6, <1>12
      <4> QED BY <4>2, <3>1, <3>4, <2>1, <2>2
    <3> QED BY <3>5, <3>6
  <2>11. CASE x \notin D[n] /\ x # p
    <3>1. x # n /\ x # rem /\ ~ (deep /\ x = up) /\ n \notin {l[x], r[x]}
      BY <2>11, <1>1, <1>2, <1>5, <1>8
    <3>2. m[x] = l[x] /\ s[x] = r[x] /\ E[x] = D[x] \ {n}
      BY <3>1, <2>1, <2>3, <2>11, <1>11
    <3>3. ASSUME NEW o \in {l[x], r[x]} PROVE E[o] = D[o] \ {n}
      <4>1. o \notin D[n]
        BY <3>1, <2>11, <2>5
      <4>2. o # rem /\ o \in Node /\ o # n
        BY <4>1, <3>1, <2>1, <1>5
      <4> QED BY <4>1, <4>2, <1>21
    <3> QED BY <3>2, <3>1, <3>3, <2>1, <2>2
  <2>12. x = p => p # Nil
    BY <1>2
  <2> QED BY <2>6, <2>7, <2>8, <2>9, <2>10, <2>11, <2>12
<1>16. \A x \in Names \ E[root2] : m[x] = Nil /\ s[x] = Nil
  <2>1. SUFFICES ASSUME NEW x \in Names, x \notin E[root2] PROVE m[x] = Nil /\ s[x] = Nil
    OBVIOUS
  <2>2. CASE x = n
    BY <2>2 DEF MovedLeft, MovedRight
  <2>3. CASE x # n
    <3>1. x \notin D[rt] /\ x # rem /\ (p # Nil => x # p) /\ (deep => x # up)
      BY <2>1, <2>3, <1>1, <1>2, <1>3, <1>5, <1>8, <1>14
    <3>2. l[x] = Nil /\ r[x] = Nil
      BY <3>1 DEF IsTree
    <3> QED BY <3>1, <3>2, <2>3 DEF MovedLeft, MovedRight
  <2> QED BY <2>2, <2>3
<1>17. IsTree(root2, m, s, E)
  BY <1>10, <1>12, <1>13, <1>15, <1>16 DEF IsTree
<1>19. p # n /\ rem # n /\ p # rem /\ (deep => up # n /\ up # rem /\ up # p)
  <2>1. p # Nil => p \notin D[n]
    BY <1>1, Antisymmetric, TreeFacts
  <2>2. deep => up \in D[r[n]] /\ up \in D[n]
    BY <1>2, <1>8
  <2> QED BY <2>1, <2>2, <1>1, <1>2, <1>5, <1>6
<1> QED BY <1>14, <1>17, <1>19

-----------------------------------------------------------------------------
(***************************************************************************)
(* The trees of the node list.                                             *)
(***************************************************************************)
TreeAt(k, D) == IsTree(root[k], left[k], right[k], D)

LEMMA NodesAre ==
  ASSUME NodeTreeAssumption, NEW k \in Kinds, NEW D, TreeAt(k, D)
  PROVE  Nodes(k) = D[root[k]]
<1>1. Subtrees(left[k], right[k]) = D
  BY SubtreesAre DEF TreeAt
<1> QED BY <1>1 DEF Nodes

LEMMA SearchIs ==
  ASSUME NodeTreeAssumption, NEW k \in Kinds, NEW D, TreeAt(k, D), NEW n \in Names
  PROVE  /\ SearchEnd(k, n) = n <=> n \in D[root[k]]
         /\ SearchEnd(k, n) = Nil <=> root[k] = Nil
<1> DEFINE child == Way(left[k], right[k], n)
<1>1. SearchEnd(k, n) = IF root[k] = Nil THEN Nil ELSE WalkEnd(child, SearchEnds(child, n))[root[k]]
  BY DEF SearchEnd, SearchEnds, Toward, Way
<1>2. n # Nil /\ D[Nil] = {} /\ root[k] \in Node
  BY TreeFacts DEF TreeAt, IsTree
<1> DEFINE y == WalkEnd(child, SearchEnds(child, n))[root[k]]
<1>3. ASSUME root[k] # Nil
      PROVE  y \in D[root[k]] /\ y \in Names /\ (n \in D[root[k]] => y = n)
  <2>1. root[k] \in Names
    BY <1>2, <1>3 DEF Node
  <2>2. y \in D[root[k]] /\ (n \in D[root[k]] => y = n)
    BY <2>1, SearchEndsWell DEF TreeAt
  <2>3. D[root[k]] \subseteq Names
    BY TreeFacts DEF TreeAt
  <2> QED BY <2>2, <2>3
<1>4. Nil \notin Names
  BY DEF NodeTreeAssumption
<1> HIDE DEF y
<1>5. SearchEnd(k, n) = IF root[k] = Nil THEN Nil ELSE y
  BY <1>1 DEF y
<1> QED BY <1>2, <1>3, <1>4, <1>5

LEMMA PresentIff ==
  ASSUME NodeTreeAssumption, NEW k \in Kinds, NEW D, TreeAt(k, D), NEW n \in Names
  PROVE  IsPresent(n, k) <=> n \in Nodes(k)
BY NodesAre, SearchIs DEF IsPresent

\* The children once n hangs from p, the node its search ended at.
AddedLeft(l, p, n) == IF p \notin {Nil, n} /\ n < p THEN [l EXCEPT ![p] = n] ELSE l
AddedRight(r, p, n) == IF p \notin {Nil, n} /\ n > p THEN [r EXCEPT ![p] = n] ELSE r

\* The tree as AddNode leaves it.
LEMMA AddedTo ==
  ASSUME NodeTreeAssumption, NEW k \in Kinds, NEW D, TreeAt(k, D), NEW n \in Names, n \notin Nodes(k),
         NEW p, p = SearchEnd(k, n),
         NEW rt, rt = IF p = Nil THEN n ELSE root[k],
         NEW l, l = AddedLeft(left[k], p, n),
         NEW r, r = AddedRight(right[k], p, n)
  PROVE  \E E : IsTree(rt, l, r, E) /\ E[rt] = Nodes(k) \cup {n}
<1>1. Nodes(k) = D[root[k]] /\ p # n /\ (p = Nil <=> root[k] = Nil)
  BY NodesAre, SearchIs
<1>2. CASE root[k] = Nil
  <2>1. IsTree(n, left[k], right[k], D) /\ D[n] = D[Nil] \cup {n}
    BY <1>2, AddedAtRoot DEF TreeAt
  <2>2. l = left[k] /\ r = right[k] /\ rt = n
    BY <1>1, <1>2 DEF AddedLeft, AddedRight
  <2> QED BY <1>1, <1>2, <2>1, <2>2
<1>3. CASE root[k] # Nil
  <2> DEFINE child == Way(left[k], right[k], n)
             y == WalkEnd(child, SearchEnds(child, n))[root[k]]
             m == IF n < y THEN [left[k] EXCEPT ![y] = n] ELSE left[k]
             s == IF n > y THEN [right[k] EXCEPT ![y] = n] ELSE right[k]
  <2>1. p = y
    BY <1>3 DEF SearchEnd, SearchEnds, Toward, Way
  <2>2. root[k] \in Names
    BY <1>3 DEF TreeAt, IsTree, Node
  <2>3. \E E : IsTree(root[k], m, s, E) /\ E[root[k]] = D[root[k]] \cup {n}
    BY <1>1, <2>2, AddedBelow DEF TreeAt
  <2> HIDE DEF y
  <2>4. rt = root[k] /\ l = m /\ r = s
    BY <1>1, <1>3, <2>1 DEF AddedLeft, AddedRight
  <2> QED BY <1>1, <2>3, <2>4
<1> QED BY <1>2, <1>3

\* What DeleteNodeFromTree links: a node with one child at most, and one with two.
LEMMA OneChildLeft ==
  ASSUME NEW k \in Kinds, NEW n, left[k][n] = Nil \/ right[k][n] = Nil, NEW p, p = Parent(k, n), p # n,
         NEW rem, rem = IF left[k][n] = Nil THEN right[k][n] ELSE left[k][n]
  PROVE  /\ Without(k, n).root = (IF p = Nil THEN rem ELSE root[k])
         /\ Without(k, n).left = CutLeft(left[k], n, p, rem)
         /\ Without(k, n).right = CutRight(left[k], right[k], n, p, rem)
<1>1. Without(k, n).root = (IF p = Nil THEN rem ELSE root[k])
  BY DEF Without
<1>2. Without(k, n).left = CutLeft(left[k], n, p, rem)
  BY DEF Without, CutLeft
<1>3. Without(k, n).right = CutRight(left[k], right[k], n, p, rem)
  BY DEF Without, CutRight
<1> QED BY <1>1, <1>2, <1>3

LEMMA TwoChildren ==
  ASSUME NEW k \in Kinds, NEW n, left[k][n] # Nil, right[k][n] # Nil, NEW p, p = Parent(k, n),
         NEW rem, rem = Leftmost(k, right[k][n]), NEW up, up = Parent(k, rem),
         NEW deep, deep = (rem # right[k][n]),
         p # n, rem # n, p # rem, deep => up # n /\ up # rem /\ up # p
  PROVE  /\ Without(k, n).root = (IF p = Nil THEN rem ELSE root[k])
         /\ Without(k, n).left = MovedLeft(left[k], right[k], n, p, rem, deep, up)
         /\ Without(k, n).right = MovedRight(left[k], right[k], n, p, rem, deep)
<1>1. Without(k, n).root = (IF p = Nil THEN rem ELSE root[k])
  BY DEF Without
<1>2. Without(k, n).left = MovedLeft(left[k], right[k], n, p, rem, deep, up)
  BY DEF Without, MovedLeft
<1>3. Without(k, n).right = MovedRight(left[k], right[k], n, p, rem, deep)
  BY DEF Without, MovedRight
<1> QED BY <1>1, <1>2, <1>3

\* The tree without one of its nodes.
LEMMA WithoutIsTree ==
  ASSUME NodeTreeAssumption, NEW k \in Kinds, NEW D, TreeAt(k, D), NEW n \in Nodes(k),
         NEW w, w = Without(k, n)
  PROVE  \E E : IsTree(w.root, w.left, w.right, E) /\ E[w.root] = Nodes(k) \ {n}
<1>1. Nodes(k) = D[root[k]] /\ IsTree(root[k], left[k], right[k], D) /\ n \in D[root[k]]
  BY NodesAre DEF TreeAt
<1>2. \A x : Parent(k, x) = Above(root[k], left[k], right[k], x)
  BY DEF Parent, Above, ParentEnds, Toward, Way
<1> PICK p : p = Parent(k, n)
  OBVIOUS
<1>5. p = Above(root[k], left[k], right[k], n)
  BY <1>2
<1>3. CASE left[k][n] = Nil \/ right[k][n] = Nil
  <2> PICK rem : rem = IF left[k][n] = Nil THEN right[k][n] ELSE left[k][n]
    OBVIOUS
  <2> PICK m : m = CutLeft(left[k], n, p, rem)
    OBVIOUS
  <2> PICK s : s = CutRight(left[k], right[k], n, p, rem)
    OBVIOUS
  <2> PICK rt : rt = IF p = Nil THEN rem ELSE root[k]
    OBVIOUS
  <2>1. (\E E : IsTree(rt, m, s, E) /\ E[rt] = D[root[k]] \ {n}) /\ p # n
    BY <1>1, <1>3, <1>5, TakenOut
  <2>2. w.root = rt /\ w.left = m /\ w.right = s
    BY <2>1, <1>3, OneChildLeft
  <2> QED BY <1>1, <2>1, <2>2
<1>4. CASE left[k][n] # Nil /\ right[k][n] # Nil
  <2> PICK rem : rem = Leftmost(k, right[k][n])
    OBVIOUS
  <2> PICK up : up = Parent(k, rem)
    OBVIOUS
  <2> PICK deep : deep = (rem # right[k][n])
    OBVIOUS
  <2> PICK m : m = MovedLeft(left[k], right[k], n, p, rem, deep, up)
    OBVIOUS
  <2> PICK s : s = MovedRight(left[k], right[k], n, p, rem, deep)
    OBVIOUS
  <2> PICK rt : rt = IF p = Nil THEN rem ELSE root[k]
    OBVIOUS
  <2>1. rem = WalkEnd(left[k], Lasts(left[k]))[right[k][n]]
    BY DEF Leftmost, Lasts
  <2>2. up = Above(root[k], left[k], right[k], rem)
    BY <1>2
  <2>3. /\ \E E : IsTree(rt, m, s, E) /\ E[rt] = D[root[k]] \ {n}
        /\ p # n /\ rem # n /\ p # rem /\ (deep => up # n /\ up # rem /\ up # p)
    BY <1>1, <1>4, <1>5, <2>1, <2>2, Replaced, SMTT(60)
  <2>4. w.root = rt /\ w.left = m /\ w.right = s
    BY <2>3, <1>4, TwoChildren
  <2> QED BY <1>1, <2>3, <2>4
<1> QED BY <1>3, <1>4

LEMMA NodesOf ==
  ASSUME NodeTreeAssumption, NEW rt, NEW l, NEW r, NEW E, IsTree(rt, l, r, E)
  PROVE  Subtrees(l, r)[rt] = E[rt]
BY SubtreesAre

-----------------------------------------------------------------------------
(***************************************************************************)
(* The steps of the registrars.                                            *)
(***************************************************************************)
\* What is left of a registration: its name and kinds.
Tasks == (Names \cup FixedNames \cup {Nil}) \X SUBSET Kinds

Steps == {"idle", "look_up", "add", "advertise", "advertise_fixed"}

TreeShape ==
  /\ root \in [Kinds -> Node]
  /\ left \in [Kinds -> [Names -> Node]] /\ right \in [Kinds -> [Names -> Node]]
  /\ fixed \in [FixedKinds -> FixedNames \cup {Nil}]
  /\ registrar \in [Registrars -> Steps]
  /\ todo \in [Registrars -> Tasks]

Trees == \A k \in Kinds : \E D : TreeAt(k, D)

\* A registrar that looks up or adds has a node's name and a kind left.
Registering ==
  \A r \in Registrars :
    registrar[r] \in {"look_up", "add", "advertise"} => todo[r][1] \in Names /\ todo[r][2] # {}

TreeInv == TreeShape /\ Trees /\ Registering
ListInv == TreeInv /\ Advertised

LEMMA CurrentIsLeft ==
  ASSUME TreeInv, NEW r \in Registrars, registrar[r] \in {"look_up", "add", "advertise"}
  PROVE  Current(r) \in todo[r][2] /\ Current(r) \in Kinds
<1>1. todo[r][2] \subseteq Kinds /\ todo[r][2] # {}
  BY DEF TreeInv, TreeShape, Registering, Tasks
<1> QED BY <1>1 DEF Current, Kinds

\* The steps that leave the trees alone.
LEMMA SameTrees ==
  ASSUME UNCHANGED <<root, left, right>>
  PROVE  (Trees => Trees') /\ \A k \in Kinds : Nodes(k)' = Nodes(k)
BY DEF Trees, TreeAt, Nodes

LEMMA DoneKeeps ==
  ASSUME TreeInv, NEW r \in Registrars, registrar[r] \in {"look_up", "add", "advertise"}, KindDone(r)
  PROVE  /\ registrar' \in [Registrars -> Steps]
         /\ todo' \in [Registrars -> Tasks]
         /\ Registering'
         /\ registrar'[r] \in {"idle", "look_up"}
         /\ \A o \in Registrars \ {r} : registrar'[o] = registrar[o] /\ todo'[o] = todo[o]
<1> DEFINE rest == todo[r][2] \ {Current(r)}
<1>1. /\ registrar \in [Registrars -> Steps]
      /\ todo \in [Registrars -> Tasks]
      /\ Registering /\ todo[r][1] \in Names
  BY DEF TreeInv, TreeShape, Registering
<1>2. todo[r] \in Tasks /\ todo[r][2] \in SUBSET Kinds
  BY <1>1 DEF Tasks
<1>3. /\ registrar' = [registrar EXCEPT ![r] = IF rest = {} THEN "idle" ELSE "look_up"]
      /\ todo' = [todo EXCEPT ![r] = IF rest = {} THEN Idle ELSE <<@[1], rest>>]
  BY DEF KindDone
<1>4. rest \in SUBSET Kinds
  BY <1>2
<1> HIDE DEF rest
<1>5. /\ Idle \in Tasks
      /\ <<todo[r][1], rest>> \in Tasks
  BY <1>2, <1>4 DEF Idle, Tasks
<1>6. /\ registrar' \in [Registrars -> Steps]
      /\ todo' \in [Registrars -> Tasks]
  <2> PICK then : then = IF rest = {} THEN Idle ELSE <<todo[r][1], rest>>
    OBVIOUS
  <2> PICK at : at = IF rest = {} THEN "idle" ELSE "look_up"
    OBVIOUS
  <2>1. /\ then \in Tasks
        /\ at \in Steps
    BY <1>5 DEF Steps
  <2>2. registrar' = [registrar EXCEPT ![r] = at] /\ todo' = [todo EXCEPT ![r] = then]
    BY <1>3
  <2> QED BY <2>1, <2>2, <1>1
<1>7. /\ registrar'[r] = IF rest = {} THEN "idle" ELSE "look_up"
      /\ todo'[r] = IF rest = {} THEN Idle ELSE <<todo[r][1], rest>>
      /\ \A o \in Registrars \ {r} : registrar'[o] = registrar[o] /\ todo'[o] = todo[o]
  BY <1>1, <1>3
<1>8. Registering'
  <2>1. SUFFICES ASSUME NEW o \in Registrars, registrar'[o] \in {"look_up", "add", "advertise"}
                 PROVE  todo'[o][1] \in Names /\ todo'[o][2] # {}
    BY DEF Registering
  <2>2. CASE o = r
    BY <2>1, <2>2, <1>1, <1>7
  <2>3. CASE o # r
    BY <2>1, <2>3, <1>1, <1>7 DEF Registering
  <2> QED BY <2>2, <2>3
<1> QED BY <1>6, <1>7, <1>8

\* AddNode adds a name that is not in the tree and leaves one that is.
LEMMA AddNodeAdds ==
  ASSUME NodeTreeAssumption, TreeInv, NEW r \in Registrars, AddNode(r),
         NEW n, n = todo[r][1], NEW k, k = Current(r)
  PROVE  /\ n \in Names /\ k \in Kinds
         /\ Trees'
         /\ root' \in [Kinds -> Node]
         /\ left' \in [Kinds -> [Names -> Node]] /\ right' \in [Kinds -> [Names -> Node]]
         /\ Nodes(k)' = Nodes(k) \cup {n}
         /\ \A j \in Kinds \ {k} : Nodes(j)' = Nodes(j)
         /\ fCount' = IF k = "dir" /\ n \notin Nodes(k) THEN fCount + 1 ELSE fCount
<1>1. n \in Names /\ k \in Kinds /\ registrar[r] = "add" /\ Nil \notin Names
  <2>1. registrar[r] = "add"
    BY DEF AddNode
  <2> QED BY <2>1, CurrentIsLeft DEF TreeInv, Registering, NodeTreeAssumption
<1> PICK p : p = SearchEnd(k, n)
  OBVIOUS
<1>2. /\ IF p = Nil THEN root' = [root EXCEPT ![k] = n] ELSE UNCHANGED root
      /\ left' = IF p \notin {Nil, n} /\ n < p THEN [left EXCEPT ![k][p] = n] ELSE left
      /\ right' = IF p \notin {Nil, n} /\ n > p THEN [right EXCEPT ![k][p] = n] ELSE right
      /\ fCount' = IF k = "dir" /\ p # n THEN fCount + 1 ELSE fCount
  BY DEF AddNode
<1>3. /\ root \in [Kinds -> Node]
      /\ left \in [Kinds -> [Names -> Node]] /\ right \in [Kinds -> [Names -> Node]]
  BY DEF TreeInv, TreeShape
<1>4. PICK D : TreeAt(k, D)
  BY <1>1 DEF TreeInv, Trees
<1>5. p = n <=> n \in Nodes(k)
  BY <1>1, <1>4, NodesAre, SearchIs
<1>6. /\ root' \in [Kinds -> Node]
      /\ left' \in [Kinds -> [Names -> Node]] /\ right' \in [Kinds -> [Names -> Node]]
  <2>1. n \in Node
    BY <1>1 DEF Node
  <2> QED BY <1>1, <1>2, <1>3, <2>1
<1>7. \A j \in Kinds \ {k} : root'[j] = root[j] /\ left'[j] = left[j] /\ right'[j] = right[j]
  BY <1>1, <1>2, <1>3
<1>8. \A j \in Kinds \ {k} : Nodes(j)' = Nodes(j) /\ \E E : IsTree(root'[j], left'[j], right'[j], E)
  BY <1>7 DEF Nodes, TreeInv, Trees, TreeAt
<1>9. Nodes(k)' = Nodes(k) \cup {n} /\ \E E : IsTree(root'[k], left'[k], right'[k], E)
  <2>1. CASE n \in Nodes(k)
    <3>1. root' = root /\ left' = left /\ right' = right
      BY <2>1, <1>1, <1>2, <1>5
    <3> QED BY <3>1, <2>1, <1>4 DEF Nodes, TreeAt
  <2>2. CASE n \notin Nodes(k)
    <3> PICK l : l = AddedLeft(left[k], p, n)
      OBVIOUS
    <3> PICK s : s = AddedRight(right[k], p, n)
      OBVIOUS
    <3> PICK rt : rt = IF p = Nil THEN n ELSE root[k]
      OBVIOUS
    <3>1. \E E : IsTree(rt, l, s, E) /\ E[rt] = Nodes(k) \cup {n}
      BY <2>2, <1>1, <1>4, AddedTo
    <3>2. root'[k] = rt /\ left'[k] = l /\ right'[k] = s
      BY <1>1, <1>2, <1>3 DEF AddedLeft, AddedRight
    <3>3. Nodes(k)' = Subtrees(l, s)[rt]
      BY <3>2 DEF Nodes
    <3> QED BY <3>1, <3>2, <3>3, NodesOf
  <2> QED BY <2>1, <2>2
<1>10. Trees'
  BY <1>8, <1>9 DEF Trees, TreeAt
<1> QED BY <1>1, <1>2, <1>5, <1>6, <1>8, <1>9, <1>10

\* DeleteNode takes its name out of every tree.
LEMMA DeleteNodeRemoves ==
  ASSUME NodeTreeAssumption, TreeInv, NEW r \in Registrars, NEW n \in Names, DeleteNode(r, n)
  PROVE  /\ Trees'
         /\ root' \in [Kinds -> Node]
         /\ left' \in [Kinds -> [Names -> Node]] /\ right' \in [Kinds -> [Names -> Node]]
         /\ \A k \in Kinds : Nodes(k)' = Nodes(k) \ {n}
         /\ \E k \in Kinds : n \in Nodes(k)
         /\ fCount' = IF n \in Nodes("dir") THEN fCount - 1 ELSE fCount
<1> DEFINE in == {k \in Kinds : IsPresent(n, k)}
           new == [k \in in |-> Without(k, n)]
<1>1. /\ in # {}
      /\ root' = [k \in Kinds |-> IF k \in in THEN new[k].root ELSE root[k]]
      /\ left' = [k \in Kinds |-> IF k \in in THEN new[k].left ELSE left[k]]
      /\ right' = [k \in Kinds |-> IF k \in in THEN new[k].right ELSE right[k]]
      /\ fCount' = IF "dir" \in in THEN fCount - 1 ELSE fCount
  BY DEF DeleteNode
<1>2. \A k \in Kinds : k \in in <=> n \in Nodes(k)
  BY PresentIff DEF TreeInv, Trees
<1>3. \A k \in in : new[k] = Without(k, n)
  OBVIOUS
<1>9. in \subseteq Kinds
  OBVIOUS
<1> HIDE DEF in, new
<1>4. ASSUME NEW k \in Kinds
      PROVE  Nodes(k)' = Nodes(k) \ {n} /\ \E E : IsTree(root'[k], left'[k], right'[k], E)
  <2>1. PICK D : TreeAt(k, D)
    BY DEF TreeInv, Trees
  <2>2. CASE n \in Nodes(k)
    <3> PICK w : w = Without(k, n)
      OBVIOUS
    <3>1. root'[k] = w.root /\ left'[k] = w.left /\ right'[k] = w.right
      BY <2>2, <1>1, <1>2, <1>3
    <3>2. PICK E : IsTree(w.root, w.left, w.right, E) /\ E[w.root] = Nodes(k) \ {n}
      BY <2>1, <2>2, WithoutIsTree
    <3>3. Nodes(k)' = E[w.root]
      BY <3>1, <3>2, NodesOf DEF Nodes
    <3> QED BY <3>1, <3>2, <3>3
  <2>3. CASE n \notin Nodes(k)
    <3>1. root'[k] = root[k] /\ left'[k] = left[k] /\ right'[k] = right[k]
      BY <2>3, <1>1, <1>2
    <3>2. Nodes(k)' = Nodes(k)
      BY <3>1 DEF Nodes
    <3> QED BY <3>1, <3>2, <2>1, <2>3 DEF TreeAt
  <2> QED BY <2>2, <2>3
<1>5. Trees'
  BY <1>4 DEF Trees, TreeAt
<1>6. \A k \in Kinds : root'[k] \in Node /\ left'[k] \in [Names -> Node] /\ right'[k] \in [Names -> Node]
  BY <1>4 DEF IsTree
<1>7. /\ root' \in [Kinds -> Node]
      /\ left' \in [Kinds -> [Names -> Node]] /\ right' \in [Kinds -> [Names -> Node]]
  <2>1. /\ root' = [k \in Kinds |-> root'[k]]
        /\ left' = [k \in Kinds |-> left'[k]] /\ right' = [k \in Kinds |-> right'[k]]
    BY <1>1
  <2> QED BY <2>1, <1>6
<1>8. "dir" \in Kinds
  BY DEF Kinds
<1> QED BY <1>1, <1>2, <1>4, <1>5, <1>7, <1>8, <1>9

-----------------------------------------------------------------------------
LEMMA ListInitially ==
  ASSUME NodeTreeAssumption, NodesInit
  PROVE  ListInv /\ (\A k \in Kinds : Nodes(k) = {}) /\ fCount = 0
<1> DEFINE D == [x \in Node |-> IF x = Nil THEN {} ELSE {x}]
<1>1. \A k \in Kinds : root[k] = Nil /\ left[k] = [n \in Names |-> Nil] /\ right[k] = left[k]
  BY DEF NodesInit
<1>2. Nil \notin Names
  BY DEF NodeTreeAssumption
<1>3. D[Nil] = {} /\ D \in [Node -> SUBSET Names] /\ \A x \in Names : D[x] = {x}
  BY <1>2 DEF Node
<1> HIDE DEF D
<1>4. ASSUME NEW k \in Kinds PROVE TreeAt(k, D) /\ Nodes(k) = {}
  <2>1. left[k] \in [Names -> Node] /\ right[k] \in [Names -> Node] /\ root[k] \in Node
    BY <1>1 DEF Node
  <2>2. \A x \in Names : left[k][x] = Nil /\ right[k][x] = Nil
    BY <1>1
  <2>3. TreeAt(k, D)
    BY <1>1, <1>3, <2>1, <2>2 DEF TreeAt, IsTree
  <2> QED BY <1>1, <1>3, <2>3, NodesAre
<1>5. TreeShape
  <2>1. Idle \in Tasks /\ Nil \in Node
    BY DEF Idle, Tasks, Node
  <2> QED BY <2>1 DEF NodesInit, TreeShape, Steps
<1>6. Registering
  BY DEF NodesInit, Registering
<1>7. Advertised /\ fCount = 0
  BY DEF NodesInit, Advertised
<1> QED BY <1>4, <1>5, <1>6, <1>7 DEF ListInv, TreeInv, Trees

\* Every step keeps the trees and what the registrars have left.
LEMMA TreeStep ==
  ASSUME NodeTreeAssumption, TreeInv, [NodesNext]_nodeVars
  PROVE  TreeInv'
<1> USE DEF TreeInv
<1>1. ASSUME UNCHANGED <<root, left, right>>, fixed' \in [FixedKinds -> FixedNames \cup {Nil}],
             registrar' \in [Registrars -> Steps],
             todo' \in [Registrars -> Tasks], Registering'
      PROVE  TreeInv'
  BY <1>1, SameTrees DEF TreeShape
<1>2. ASSUME NEW r \in Registrars, LookUpNode(r) PROVE TreeInv'
  <2>1. UNCHANGED <<root, left, right, fixed>> /\ registrar[r] = "look_up"
    BY <1>2 DEF LookUpNode, tree
  <2>2. CASE KindDone(r)
    BY <2>1, <2>2, <1>1, DoneKeeps DEF TreeShape
  <2>3. CASE registrar' = [registrar EXCEPT ![r] = "add"] /\ UNCHANGED todo
    BY <2>1, <2>3, <1>1 DEF TreeShape, Registering, Steps
  <2> QED BY <1>2, <2>2, <2>3 DEF LookUpNode
<1>3. ASSUME NEW r \in Registrars, AddNode(r) PROVE TreeInv'
  <2>1. fixed' = fixed /\ registrar[r] = "add"
    BY <1>3 DEF AddNode
  <2>2. /\ Trees' /\ root' \in [Kinds -> Node]
        /\ left' \in [Kinds -> [Names -> Node]] /\ right' \in [Kinds -> [Names -> Node]]
    BY <1>3, AddNodeAdds
  <2>3. CASE KindDone(r)
    BY <2>1, <2>2, <2>3, DoneKeeps DEF TreeShape
  <2>4. CASE registrar' = [registrar EXCEPT ![r] = "advertise"] /\ UNCHANGED todo
    BY <2>1, <2>2, <2>4 DEF TreeShape, Registering, Steps
  <2> QED BY <1>3, <2>3, <2>4 DEF AddNode
<1>4. ASSUME NEW r \in Registrars, Advertise(r) PROVE TreeInv'
  BY <1>4, <1>1, DoneKeeps DEF Advertise, TreeShape, tree
<1>5. ASSUME NEW r \in Registrars, AdvertiseFixed(r) PROVE TreeInv'
  <2>1. UNCHANGED <<root, left, right, fixed>>
    BY <1>5 DEF AdvertiseFixed, tree
  <2>2. Idle \in Tasks
    BY DEF Idle, Tasks
  <2>3. registrar' = [registrar EXCEPT ![r] = "idle"] /\ todo' = [todo EXCEPT ![r] = Idle]
    BY <1>5 DEF AdvertiseFixed
  <2> QED BY <2>1, <2>2, <2>3, <1>1 DEF TreeShape, Registering, Steps
<1>6. ASSUME NEW r \in Registrars, NEW n \in load[r] \cap Names, Register(r, n) PROVE TreeInv'
  <2>1. UNCHANGED <<root, left, right, fixed>>
    BY <1>6 DEF Register, tree
  <2>2. Mask(n) \in SUBSET Kinds /\ Mask(n) # {}
    BY DEF NodeTreeAssumption
  <2>3. <<n, Mask(n)>> \in Tasks
    BY <2>2 DEF Tasks
  <2>4. registrar' = [registrar EXCEPT ![r] = "look_up"] /\ todo' = [todo EXCEPT ![r] = <<n, Mask(n)>>]
    BY <1>6 DEF Register
  <2> QED BY <2>1, <2>2, <2>3, <2>4, <1>1 DEF TreeShape, Registering, Steps
<1>7. ASSUME NEW r \in Registrars, NEW n \in load[r] \cap Names, DeleteNode(r, n) PROVE TreeInv'
  <2>1. UNCHANGED <<fixed, registrar, todo>>
    BY <1>7 DEF DeleteNode
  <2>2. /\ Trees' /\ root' \in [Kinds -> Node]
        /\ left' \in [Kinds -> [Names -> Node]] /\ right' \in [Kinds -> [Names -> Node]]
    BY <1>7, DeleteNodeRemoves
  <2> QED BY <2>1, <2>2 DEF TreeShape, Registering
<1>8. ASSUME NEW r \in Registrars, NEW f \in FixedKinds, NEW n \in load[r] \cap FixedNames,
             RegisterFixed(r, f, n)
      PROVE  TreeInv'
  <2>1. UNCHANGED <<root, left, right>>
    BY <1>8 DEF RegisterFixed, tree
  <2>2. <<n, {}>> \in Tasks
    BY DEF Tasks
  <2>3. /\ registrar' = [registrar EXCEPT ![r] = "advertise_fixed"] /\ todo' = [todo EXCEPT ![r] = <<n, {}>>]
        /\ fixed' = [fixed EXCEPT ![f] = n]
    BY <1>8 DEF RegisterFixed
  <2> QED BY <2>1, <2>2, <2>3, <1>1 DEF TreeShape, Registering, Steps
<1>9. CASE OddConnects \/ OddExits \/ RegisterAll \/ UNCHANGED nodeVars
  <2>1. UNCHANGED <<root, left, right, fixed, registrar, todo>>
    BY <1>9 DEF OddConnects, OddExits, RegisterAll, nodeVars, tree
  <2> QED BY <2>1, <1>1 DEF TreeShape, Registering
<1> QED BY <1>2, <1>3, <1>4, <1>5, <1>6, <1>7, <1>8, <1>9 DEF NodesNext

-----------------------------------------------------------------------------
(***************************************************************************)
(* The trees are the sets of NodeSet.                                      *)
(***************************************************************************)
LEMMA StepRefines ==
  ASSUME NodeTreeAssumption, TreeInv, [NodesNext]_nodeVars
  PROVE  [Set!Next]_(<<[k \in Kinds |-> Nodes(k)], fCount>>)
<1> DEFINE nodes == [k \in Kinds |-> Nodes(k)]
<1>1. ASSUME NEW r \in Registrars, AddNode(r)
      PROVE  Set!Next \/ UNCHANGED <<nodes, fCount>>
  <2> PICK n : n = todo[r][1]
    OBVIOUS
  <2> PICK k : k = Current(r)
    OBVIOUS
  <2>1. /\ n \in Names /\ k \in Kinds
        /\ Nodes(k)' = Nodes(k) \cup {n}
        /\ \A j \in Kinds \ {k} : Nodes(j)' = Nodes(j)
        /\ fCount' = IF k = "dir" /\ n \notin Nodes(k) THEN fCount + 1 ELSE fCount
    BY <1>1, AddNodeAdds
  <2>2. CASE n \in Nodes(k)
    <3>1. \A j \in Kinds : Nodes(j)' = Nodes(j)
      BY <2>1, <2>2
    <3> QED BY <3>1, <2>1, <2>2
  <2>3. CASE n \notin Nodes(k)
    <3>1. nodes' = [nodes EXCEPT ![k] = @ \cup {n}]
      BY <2>1
    <3>2. Set!Add(k, n)
      BY <3>1, <2>1, <2>3 DEF Set!Add
    <3> QED BY <3>2, <2>1 DEF Set!Next
  <2> QED BY <2>2, <2>3
<1>2. ASSUME NEW r \in Registrars, NEW n \in Names, DeleteNode(r, n)
      PROVE  Set!Next
  <2>1. /\ \A k \in Kinds : Nodes(k)' = Nodes(k) \ {n}
        /\ \E k \in Kinds : n \in Nodes(k)
        /\ fCount' = IF n \in Nodes("dir") THEN fCount - 1 ELSE fCount
    BY <1>2, DeleteNodeRemoves
  <2>2. "dir" \in Kinds
    BY DEF Kinds
  <2>3. Set!Remove(n)
    BY <2>1, <2>2 DEF Set!Remove
  <2> QED BY <2>3 DEF Set!Next
<1>3. ASSUME UNCHANGED tree PROVE UNCHANGED <<nodes, fCount>>
  BY <1>3, SameTrees DEF tree
<1>4. ASSUME NEW r \in Registrars,
             \/ LookUpNode(r) \/ Advertise(r) \/ AdvertiseFixed(r) \/ \E n \in Names : Register(r, n)
             \/ \E f \in FixedKinds, n \in FixedNames : RegisterFixed(r, f, n)
      PROVE  UNCHANGED tree
  BY <1>4 DEF LookUpNode, Advertise, AdvertiseFixed, Register, RegisterFixed
<1>5. CASE OddConnects \/ OddExits \/ RegisterAll \/ UNCHANGED nodeVars
  BY <1>5, <1>3 DEF OddConnects, OddExits, RegisterAll, nodeVars
<1> QED BY <1>1, <1>2, <1>3, <1>4, <1>5 DEF NodesNext

LEMMA InitRefines ==
  ASSUME NodeTreeAssumption, NodesInit
  PROVE  Set!Init
BY ListInitially DEF Set!Init

LEMMA SearchesFind == ASSUME NodeTreeAssumption, TreeInv PROVE SearchFindsAll
<1>1. ASSUME NEW k \in Kinds, NEW n \in Nodes(k) PROVE IsPresent(n, k)
  <2>1. PICK D : TreeAt(k, D)
    BY DEF TreeInv, Trees
  <2>2. Nodes(k) \subseteq Names
    BY <2>1, NodesAre, TreeFacts DEF TreeAt
  <2> QED BY <2>1, <2>2, PresentIff
<1> QED BY <1>1 DEF SearchFindsAll

\* CNodeList promises what NodeSet says, whatever plug-ins register and take
\* out at a time: AddNodeToTree and DeleteNodeFromTree add and remove one name
\* and lose no other, the count is right, and a search misses no node.
THEOREM Implements ==
  ASSUME NodeTreeAssumption
  PROVE  NodesSpec => IsNodeSet
<1>1. NodesInit => TreeInv /\ Set!Init
  BY ListInitially, InitRefines DEF ListInv
<1>2. TreeInv /\ [NodesNext]_nodeVars => TreeInv' /\ [Set!Next]_(<<[k \in Kinds |-> Nodes(k)], fCount>>)
  BY TreeStep, StepRefines
<1>3. TreeInv => SearchFindsAll
  BY SearchesFind
<1> QED BY <1>1, <1>2, <1>3, PTL DEF NodesSpec, IsNodeSet, Set!Spec

-----------------------------------------------------------------------------
(***************************************************************************)
(* What opendirectoryd is told.                                            *)
(***************************************************************************)
Advertising == {"advertise", "advertise_fixed"}
Told(n) == n \in odd \/ \E r \in Registrars : registrar[r] \in Advertising /\ todo[r][1] = n
All == (Nodes("dir") \cup FixedNodes) \cap Watched

\* A step keeps opendirectoryd's set complete when a node it adds is about to
\* be told, it takes out only nodes that go, and a registrar that is about to
\* tell still is or has told.
LEMMA ToldStill ==
  ASSUME Advertised, oddUp' => oddUp, announce => announce',
         \A x \in All' : (x \in All /\ (x \in odd => x \in odd')) \/ Told(x)',
         \A r \in Registrars : registrar[r] \in Advertising =>
           (registrar'[r] = registrar[r] /\ todo'[r] = todo[r]) \/ (oddUp /\ todo[r][1] \in Watched => todo[r][1] \in odd')
  PROVE  Advertised'
<1>1. SUFFICES ASSUME oddUp', ~ announce', NEW x \in All' PROVE Told(x)'
  BY DEF Advertised, All, Told, Advertising
<1>2. CASE x \in All /\ (x \in odd => x \in odd')
  <2>1. Told(x) /\ oddUp /\ x \in Watched
    BY <1>1, <1>2 DEF Advertised, All, Told, Advertising
  <2>2. CASE x \in odd
    BY <1>2, <2>2 DEF Told
  <2>3. CASE \E r \in Registrars : registrar[r] \in Advertising /\ todo[r][1] = x
    BY <2>1, <2>3 DEF Told
  <2> QED BY <2>1, <2>2, <2>3 DEF Told
<1> QED BY <1>1, <1>2

LEMMA AdvertisedStep ==
  ASSUME NodeTreeAssumption, TreeInv, Advertised, [NodesNext]_nodeVars
  PROVE  Advertised'
<1>1. /\ registrar \in [Registrars -> Steps] /\ todo \in [Registrars -> Tasks]
      /\ fixed \in [FixedKinds -> FixedNames \cup {Nil}] /\ "dir" \in Kinds
  BY DEF TreeInv, TreeShape, Kinds
<1>2. ASSUME UNCHANGED <<tree, fixed>> PROVE All' = All
  BY <1>2, SameTrees DEF tree, Kinds, FixedNodes, All
<1>3. ASSUME NEW r \in Registrars, LookUpNode(r) PROVE Advertised'
  <2>1. UNCHANGED <<tree, fixed, odd, oddUp, announce>> /\ registrar[r] = "look_up"
    BY <1>3 DEF LookUpNode, oddv
  <2>2. \A o \in Registrars \ {r} : registrar'[o] = registrar[o] /\ todo'[o] = todo[o]
    <3>1. CASE KindDone(r)
      BY <3>1, <2>1, DoneKeeps
    <3>2. CASE registrar' = [registrar EXCEPT ![r] = "add"] /\ UNCHANGED todo
      BY <3>2, <1>1
    <3> QED BY <1>3, <3>1, <3>2 DEF LookUpNode
  <2>3. \A o \in Registrars : registrar[o] \in Advertising => registrar'[o] = registrar[o] /\ todo'[o] = todo[o]
    BY <2>1, <2>2 DEF Advertising
  <2> QED BY <2>1, <2>3, <1>2, ToldStill
<1>4. ASSUME NEW r \in Registrars, AddNode(r) PROVE Advertised'
  <2> PICK n : n = todo[r][1]
    OBVIOUS
  <2> PICK k : k = Current(r)
    OBVIOUS
  <2>1. UNCHANGED <<fixed, odd, oddUp, announce>> /\ registrar[r] = "add"
    BY <1>4 DEF AddNode, oddv
  <2>2. /\ k \in Kinds /\ Nodes(k)' = Nodes(k) \cup {n}
        /\ \A j \in Kinds \ {k} : Nodes(j)' = Nodes(j)
    BY <1>4, AddNodeAdds
  <2>3. /\ \A o \in Registrars \ {r} : registrar'[o] = registrar[o] /\ todo'[o] = todo[o]
        /\ k # "network" => registrar'[r] = "advertise" /\ todo'[r][1] = n
    <3>1. CASE k = "network" /\ KindDone(r)
      BY <3>1, <2>1, DoneKeeps
    <3>2. CASE registrar' = [registrar EXCEPT ![r] = "advertise"] /\ UNCHANGED todo
      BY <3>2, <1>1
    <3> QED BY <1>4, <3>1, <3>2 DEF AddNode
  <2>4. \A o \in Registrars : registrar[o] \in Advertising => registrar'[o] = registrar[o] /\ todo'[o] = todo[o]
    BY <2>1, <2>3 DEF Advertising
  <2>5. \A x \in All' : x \in All \/ Told(x)'
    <3>1. FixedNodes' = FixedNodes
      BY <2>1 DEF FixedNodes
    <3>2. CASE k = "dir"
      <4>1. \A x \in All' : x \in All \/ x = n
        BY <2>2, <3>1, <3>2 DEF All
      <4>2. Told(n)'
        BY <2>3, <3>2 DEF Told, Advertising
      <4> QED BY <4>1, <4>2
    <3>3. CASE k # "dir"
      BY <2>2, <3>1, <3>3, <1>1 DEF All
    <3> QED BY <3>2, <3>3
  <2> QED BY <2>1, <2>4, <2>5, ToldStill
<1>5. ASSUME NEW r \in Registrars, Advertise(r) \/ AdvertiseFixed(r) PROVE Advertised'
  <2>1. UNCHANGED <<tree, fixed, oddUp, announce>> /\ odd' = IF oddUp THEN odd \cup ({todo[r][1]} \cap Watched) ELSE odd
    BY <1>5 DEF Advertise, AdvertiseFixed, Tell
  <2>2. \A o \in Registrars \ {r} : registrar'[o] = registrar[o] /\ todo'[o] = todo[o]
    <3>1. CASE Advertise(r)
      BY <3>1, DoneKeeps DEF Advertise
    <3>2. CASE AdvertiseFixed(r)
      BY <3>2, <1>1 DEF AdvertiseFixed
    <3> QED BY <1>5, <3>1, <3>2
  <2>3. odd \subseteq odd' /\ (oddUp /\ todo[r][1] \in Watched => todo[r][1] \in odd')
    BY <2>1
  <2>4. \A o \in Registrars : registrar[o] \in Advertising =>
          (registrar'[o] = registrar[o] /\ todo'[o] = todo[o]) \/ (oddUp /\ todo[o][1] \in Watched => todo[o][1] \in odd')
    BY <2>2, <2>3
  <2>5. All' = All
    BY <2>1, <1>2
  <2> QED BY <2>1, <2>3, <2>4, <2>5, ToldStill
<1>6. ASSUME NEW r \in Registrars, NEW n \in Names, Register(r, n) PROVE Advertised'
  <2>1. UNCHANGED <<tree, fixed, odd, oddUp, announce>> /\ registrar[r] = "idle"
    BY <1>6 DEF Register, oddv
  <2>2. \A o \in Registrars : registrar[o] \in Advertising => registrar'[o] = registrar[o] /\ todo'[o] = todo[o]
    BY <2>1, <1>1, <1>6 DEF Register, Advertising
  <2> QED BY <2>1, <2>2, <1>2, ToldStill
<1>7. ASSUME NEW r \in Registrars, NEW n \in Names, DeleteNode(r, n) PROVE Advertised'
  <2>1. UNCHANGED <<fixed, registrar, todo, oddUp, announce>> /\ odd' = odd \ {n}
    BY <1>7 DEF DeleteNode
  <2>2. Nodes("dir")' = Nodes("dir") \ {n}
    BY <1>1, <1>7, DeleteNodeRemoves
  <2>3. FixedNodes' = FixedNodes /\ n \notin FixedNodes
    BY <2>1, <1>1 DEF FixedNodes, NodeTreeAssumption
  <2>4. \A x \in All' : x \in All /\ (x \in odd => x \in odd')
    BY <2>1, <2>2, <2>3 DEF All
  <2> QED BY <2>1, <2>4, ToldStill
<1>8. ASSUME NEW r \in Registrars, NEW f \in FixedKinds, NEW n \in FixedNames, RegisterFixed(r, f, n)
      PROVE  Advertised'
  <2>1. UNCHANGED <<tree, odd, oddUp, announce>> /\ registrar[r] = "idle"
    BY <1>8 DEF RegisterFixed, oddv
  <2>2. /\ registrar'[r] = "advertise_fixed" /\ todo'[r][1] = n
        /\ \A o \in Registrars \ {r} : registrar'[o] = registrar[o] /\ todo'[o] = todo[o]
    BY <1>1, <1>8 DEF RegisterFixed
  <2>3. \A o \in Registrars : registrar[o] \in Advertising => registrar'[o] = registrar[o] /\ todo'[o] = todo[o]
    BY <2>1, <2>2 DEF Advertising
  <2>4. FixedNodes' \subseteq FixedNodes \cup {n}
    BY <1>1, <1>8 DEF RegisterFixed, FixedNodes
  <2>5. Nodes("dir")' = Nodes("dir")
    BY <2>1, <1>1, SameTrees DEF tree
  <2>6. Told(n)'
    BY <2>2 DEF Told, Advertising
  <2>7. \A x \in All' : x \in All \/ Told(x)'
    BY <2>4, <2>5, <2>6 DEF All
  <2> QED BY <2>1, <2>3, <2>7, ToldStill
<1>9. CASE OddConnects \/ OddExits
  BY <1>9 DEF OddConnects, OddExits, Advertised
<1>10. CASE RegisterAll
  <2>1. UNCHANGED <<tree, fixed, registrar, todo, oddUp>> /\ odd' = IF oddUp THEN odd \cup (All \cap Watched) ELSE odd
    BY <1>10 DEF RegisterAll, Tell, All
  <2>2. All' = All /\ All \subseteq Watched
    BY <2>1, <1>2 DEF All
  <2>3. oddUp' => \A x \in All' : x \in odd'
    BY <2>1, <2>2
  <2> QED BY <2>3 DEF Advertised, All
<1>11. CASE UNCHANGED nodeVars
  <2>1. UNCHANGED <<tree, fixed, registrar, todo, odd, oddUp, announce>>
    BY <1>11 DEF nodeVars, oddv
  <2> QED BY <2>1, <1>2, ToldStill
<1> QED BY <1>3, <1>4, <1>5, <1>6, <1>7, <1>8, <1>9, <1>10, <1>11 DEF NodesNext

\* opendirectoryd knows, or is about to be told of, every node there is
\* (od_passthru_register_node and RegisterAll, after the lock of the list was
\* given up), as long as no plug-in registers the name of a predefined node.
THEOREM AdvertisedCorrect ==
  ASSUME NodeTreeAssumption
  PROVE  NodesSpec => []Advertised
<1>1. NodesInit => ListInv
  BY ListInitially
<1>2. ListInv /\ [NodesNext]_nodeVars => ListInv'
  BY TreeStep, AdvertisedStep DEF ListInv
<1>3. ListInv => Advertised
  BY DEF ListInv
<1> QED BY <1>1, <1>2, <1>3, PTL DEF NodesSpec

-----------------------------------------------------------------------------
(***************************************************************************)
(* The table of plug-ins.                                                  *)
(***************************************************************************)
USE PluginAssumption DEF table, told, conf, Goto, Done

-----------------------------------------------------------------------------
\* The state is well formed.

Thread == Callers \cup {Admin}
Where == {"idle", "look_up", "lock", "load", "initialize", "merge", "tell_plugin", "tell_daemon"}
Condition == States \cup {"uninitialized", "failed"}
Call == [plugin : Plugins \cup {NULL}, via : Vias \cup {NULL}, ptr : {NULL, "instance"},
         state : Condition \cup {NULL}, tries : Int, new : States \cup {"unknown", NULL}]

TableOK ==
  /\ fPluginPtr \in [Plugins -> {NULL, "instance"}]
  /\ fState \in [Plugins -> Condition]
  /\ attempted \subseteq Plugins
  /\ instances \in [Plugins -> Int]
  /\ config \in [Plugins -> States]

\* A request that has its copy of the entry, and has not merged it.
Copied(t) == pc[t] \in {"lock", "load", "initialize", "merge"}

ThreadsOK ==
  /\ pc \in [Thread -> Where]
  /\ call \in [Thread -> Call]
  /\ \A t \in Callers : pc[t] # "idle" => call[t].plugin \in Plugins
  /\ \A t \in Callers : Copied(t) => call[t].state \in Condition
  /\ pc[Admin] # "idle" => call[Admin].plugin \in Plugins /\ call[Admin].new \in States

Shape == TableOK /\ ThreadsOK /\ nodeLock \in Callers \cup {NULL}

LEMMA NoCallType == NoCall \in Call
  BY DEF NoCall, Call

LEMMA BegunCall ==
  ASSUME NEW c \in Call, NEW p \in Plugins, NEW via \in Vias
  PROVE  [c EXCEPT !.plugin = p, !.via = via] \in Call
         /\ [c EXCEPT !.plugin = p, !.via = via].plugin = p
  BY DEF Call

LEMMA InitShape == Init => Shape
  <1> SUFFICES ASSUME Init PROVE Shape
    OBVIOUS
  <1>1. TableOK
    BY DEF Init, TableOK, Condition
  <1>2. ThreadsOK
    BY NoCallType DEF Init, ThreadsOK, Thread, Where, Copied
  <1>3. QED
    BY <1>1, <1>2 DEF Init, Shape

LEMMA NextTable == Shape /\ [Next]_vars => TableOK'
  <1> SUFFICES ASSUME Shape, [Next]_vars PROVE TableOK'
    OBVIOUS
  <1> USE DEF Shape, TableOK
  <1>1. ASSUME NEW t \in Callers, LookUp(t) PROVE TableOK'
    BY <1>1 DEF LookUp
  <1>2. ASSUME NEW t \in Callers, LockNodeList(t) PROVE TableOK'
    BY <1>2 DEF LockNodeList
  <1>3. ASSUME NEW t \in Callers, Load(t) PROVE TableOK'
    <2>1. call[t].plugin \in Plugins
      BY <1>3 DEF Load, ThreadsOK
    <2>2. attempted' \subseteq Plugins
      BY <1>3, <2>1 DEF Load
    <2>3. instances' \in [Plugins -> Int]
      BY <1>3, <2>1 DEF Load
    <2>4. UNCHANGED <<fPluginPtr, fState, config>>
      BY <1>3 DEF Load
    <2>5. QED
      BY <2>2, <2>3, <2>4
  <1>4. ASSUME NEW t \in Callers, Merge(t) PROVE TableOK'
    <2>1. call[t].plugin \in Plugins /\ call[t] \in Call /\ call[t].state \in Condition
      BY <1>4 DEF Merge, ThreadsOK, Thread, Copied
    <2>2. call[t].ptr \in {NULL, "instance"}
      BY <2>1 DEF Call
    <2>3. fPluginPtr' \in [Plugins -> {NULL, "instance"}]
      BY <1>4, <2>1, <2>2 DEF Merge
    <2>4. fState' \in [Plugins -> Condition]
      BY <1>4, <2>1 DEF Merge, Condition
    <2>5. UNCHANGED <<attempted, instances, config>>
      BY <1>4 DEF Merge
    <2>6. QED
      BY <2>3, <2>4, <2>5
  <1>5. ASSUME NEW t \in Callers, TellPlugin(t) \/ TellDaemon(t) PROVE TableOK'
    BY <1>5 DEF TellPlugin, TellDaemon
  <1>6. ASSUME NEW t \in Callers, NEW ok \in BOOLEAN, Initialize(t, ok) PROVE TableOK'
    BY <1>6 DEF Initialize
  <1>7. ASSUME NEW t \in Callers, NEW p \in Plugins, NEW via \in Vias, Begin(t, p, via)
        PROVE  TableOK'
    BY <1>7 DEF Begin
  <1>8. ASSUME NEW p \in Plugins, NEW s \in States, Configure(p, s) PROVE TableOK'
    BY <1>8 DEF Configure
  <1>9. CASE ConfigureTells
    BY <1>9 DEF ConfigureTells
  <1>10. CASE ConfigureSets
    <2>1. call[Admin].plugin \in Plugins /\ call[Admin].new \in States
      BY <1>10 DEF ConfigureSets, ThreadsOK
    <2>2. QED
      BY <1>10, <2>1 DEF ConfigureSets
  <1>11. CASE UNCHANGED vars
    BY <1>11 DEF vars
  <1>12. QED
    BY <1>1, <1>2, <1>3, <1>4, <1>5, <1>6, <1>7, <1>8, <1>9, <1>10, <1>11 DEF Next, Request

\* What one thread's step does to the threads: it moves, its call is one of its
\* kind, the others stay.
LEMMA OneThread ==
  ASSUME ThreadsOK, NEW t \in Callers, NEW w \in Where, NEW c \in Call,
         pc' = [pc EXCEPT ![t] = w], call' = [call EXCEPT ![t] = c],
         w # "idle" => c.plugin \in Plugins,
         w \in {"lock", "load", "initialize", "merge"} => c.state \in Condition
  PROVE  ThreadsOK'
  BY DEF ThreadsOK, Thread, Copied

LEMMA SameCall ==
  ASSUME ThreadsOK, NEW t \in Thread, UNCHANGED call
  PROVE  call' = [call EXCEPT ![t] = call[t]]
  BY DEF ThreadsOK

LEMMA AnswerThreads ==
  ASSUME ThreadsOK, NEW t \in Callers, NEW ptr, Answer(t, ptr)
  PROVE  ThreadsOK'
  BY NoCallType, OneThread DEF Answer, Where

LEMMA RequestThreads ==
  ASSUME Shape, NEW t \in Callers, Request(t)
  PROVE  ThreadsOK'
  <1> USE DEF Shape
  <1>0. t \in Thread /\ call[t] \in Call
    BY DEF ThreadsOK, Thread
  <1>1. CASE LookUp(t)
    <2>1. CASE Answer(t, fPluginPtr[call[t].plugin])
      BY <2>1, AnswerThreads
    <2>2. CASE /\ call' = [call EXCEPT ![t].state = fState[call[t].plugin]]
               /\ Goto(t, "lock")
      <3> DEFINE c == [call[t] EXCEPT !.state = fState[call[t].plugin]]
      <3>1. call[t].plugin \in Plugins
        BY <1>1 DEF LookUp, ThreadsOK
      <3>2. c \in Call /\ c.plugin \in Plugins /\ c.state \in Condition
        BY <1>0, <3>1 DEF Call, TableOK
      <3>3. call' = [call EXCEPT ![t] = c]
        BY <2>2
      <3> HIDE DEF c
      <3>4. QED
        BY <2>2, <3>2, <3>3, OneThread DEF Where
    <2>3. QED
      BY <1>1, <2>1, <2>2 DEF LookUp
  <1>2. CASE LockNodeList(t)
    <2>1. call[t].plugin \in Plugins /\ call[t].state \in Condition
      BY <1>2 DEF LockNodeList, ThreadsOK, Copied
    <2>2. QED
      BY <1>0, <1>2, <2>1, SameCall, OneThread DEF LockNodeList, Where
  <1>3. CASE Load(t)
    <2>1. call[t].plugin \in Plugins /\ call[t].state \in Condition
      BY <1>3 DEF Load, ThreadsOK, Copied
    <2>2. CASE Goto(t, "merge") /\ UNCHANGED call
      BY <1>0, <2>1, <2>2, SameCall, OneThread DEF Where
    <2>3. CASE Goto(t, "initialize") /\ call' = [call EXCEPT ![t].ptr = "instance"]
      <3> DEFINE c == [call[t] EXCEPT !.ptr = "instance"]
      <3>1. c \in Call /\ c.plugin \in Plugins /\ c.state \in Condition
        BY <1>0, <2>1 DEF Call
      <3>2. call' = [call EXCEPT ![t] = c]
        BY <2>3
      <3> HIDE DEF c
      <3>3. QED
        BY <2>3, <3>1, <3>2, OneThread DEF Where
    <2>4. QED
      BY <1>3, <2>2, <2>3 DEF Load
  <1>4. CASE Merge(t)
    <2>1. CASE Answer(t, NULL)
      BY <2>1, AnswerThreads
    <2>2. CASE call' = [call EXCEPT ![t].new = NewState(t)] /\ Goto(t, "tell_plugin")
      <3> DEFINE c == [call[t] EXCEPT !.new = NewState(t)]
      <3>1. call[t].plugin \in Plugins
        BY <1>4 DEF Merge, ThreadsOK
      <3>2. NewState(t) \in States \cup {"unknown"}
        BY <3>1 DEF NewState, TableOK
      <3>3. c \in Call /\ c.plugin \in Plugins
        BY <1>0, <3>1, <3>2 DEF Call
      <3>4. call' = [call EXCEPT ![t] = c]
        BY <2>2
      <3> HIDE DEF c
      <3>5. QED
        BY <2>2, <3>3, <3>4, OneThread DEF Where
    <2>3. QED
      BY <1>4, <2>1, <2>2 DEF Merge
  <1>5. CASE TellPlugin(t)
    <2>1. call[t].plugin \in Plugins
      BY <1>5 DEF TellPlugin, ThreadsOK
    <2>2. QED
      BY <1>0, <1>5, <2>1, SameCall, OneThread DEF TellPlugin, Where
  <1>6. CASE TellDaemon(t)
    BY <1>6, AnswerThreads DEF TellDaemon
  <1>7. ASSUME NEW ok \in BOOLEAN, Initialize(t, ok) PROVE ThreadsOK'
    <2>1. call[t].plugin \in Plugins /\ call[t].state \in Condition
      BY <1>7 DEF Initialize, ThreadsOK, Copied
    <2>2. CASE pc' = pc /\ call' = [call EXCEPT ![t].tries = @ + 1]
      BY <1>0, <2>1, <2>2 DEF ThreadsOK, Call, Copied
    <2>3. CASE /\ \E s \in {"inactive", "failed"} : call' = [call EXCEPT ![t].state = s]
               /\ Goto(t, "merge")
      <3>1. PICK s \in {"inactive", "failed"} : call' = [call EXCEPT ![t].state = s]
        BY <2>3
      <3> DEFINE c == [call[t] EXCEPT !.state = s]
      <3>2. c \in Call /\ c.plugin \in Plugins /\ c.state \in Condition
        BY <1>0, <2>1 DEF Call, Condition, States
      <3>3. call' = [call EXCEPT ![t] = c]
        BY <3>1
      <3> HIDE DEF c
      <3>4. QED
        BY <2>3, <3>2, <3>3, OneThread DEF Where
    <2>4. QED
      BY <1>7, <2>2, <2>3 DEF Initialize
  <1>8. QED
    BY <1>1, <1>2, <1>3, <1>4, <1>5, <1>6, <1>7 DEF Request

LEMMA NextThreads == Shape /\ [Next]_vars => ThreadsOK'
  <1> SUFFICES ASSUME Shape, [Next]_vars PROVE ThreadsOK'
    OBVIOUS
  <1> USE DEF Shape
  <1>1. ASSUME NEW t \in Callers, Request(t) PROVE ThreadsOK'
    BY <1>1, RequestThreads
  <1>2. ASSUME NEW t \in Callers, NEW p \in Plugins, NEW via \in Vias, Begin(t, p, via)
        PROVE  ThreadsOK'
    <2> DEFINE c == [NoCall EXCEPT !.plugin = p, !.via = via]
    <2>1. c \in Call /\ c.plugin \in Plugins
      BY NoCallType, BegunCall
    <2>2. call' = [call EXCEPT ![t] = c] /\ pc' = [pc EXCEPT ![t] = "look_up"]
      BY <1>2 DEF Begin
    <2> HIDE DEF c
    <2>3. QED
      BY <2>1, <2>2, OneThread DEF Where
  <1>3. ASSUME NEW p \in Plugins, NEW s \in States, Configure(p, s) PROVE ThreadsOK'
    <2> DEFINE c == [NoCall EXCEPT !.plugin = p, !.ptr = fPluginPtr[p], !.new = s]
    <2>1. fPluginPtr[p] \in {NULL, "instance"}
      BY DEF TableOK
    <2>2. c \in Call /\ c.plugin \in Plugins /\ c.new \in States
      BY <2>1, NoCallType DEF Call
    <2>3. call' = [call EXCEPT ![Admin] = c] /\ pc' = [pc EXCEPT ![Admin] = "tell_plugin"]
      BY <1>3 DEF Configure
    <2> HIDE DEF c
    <2>4. QED
      BY <2>2, <2>3 DEF ThreadsOK, Thread, Where, Copied
  <1>4. CASE ConfigureTells
    BY <1>4 DEF ConfigureTells, ThreadsOK, Thread, Where, Copied
  <1>5. CASE ConfigureSets
    BY <1>5, NoCallType DEF ConfigureSets, ThreadsOK, Thread, Where, Copied
  <1>6. CASE UNCHANGED vars
    BY <1>6 DEF vars, ThreadsOK, Copied
  <1>7. QED
    BY <1>1, <1>2, <1>3, <1>4, <1>5, <1>6 DEF Next

LEMMA NextNodeLock == Shape /\ [Next]_vars => nodeLock' \in Callers \cup {NULL}
  BY DEF Shape, Next, Request, LookUp, LockNodeList, Load, Initialize, Merge, TellPlugin,
         TellDaemon, Begin, Configure, ConfigureTells, ConfigureSets, Answer, Unlocked, vars

LEMMA NextShape == Shape /\ [Next]_vars => Shape'
  BY NextTable, NextThreads, NextNodeLock DEF Shape

\* The table of plug-ins is well formed.
THEOREM TypeCorrect == Spec => []TypeOK
  <1>1. Shape => TypeOK
    BY DEF Shape, TableOK, TypeOK, Condition
  <1>2. QED
    BY <1>1, InitShape, NextShape, PTL DEF Spec

-----------------------------------------------------------------------------
\* Each plug-in is created once.  The list of attempts tells, as long as it
\* has room for every plug-in.

Once == \A p \in Plugins : instances[p] \in 0..1 /\ (instances[p] > 0 => p \in attempted)

LEMMA RoomForAll ==
  ASSUME TableOK, IsFiniteSet(Plugins), Cardinality(Plugins) <= MaxLazy,
         NEW p \in Plugins \ attempted
  PROVE  Cardinality(attempted) < MaxLazy
  <1>1. attempted \in SUBSET Plugins /\ attempted # Plugins
    BY DEF TableOK
  <1>2. /\ IsFiniteSet(attempted)
        /\ Cardinality(attempted) <= Cardinality(Plugins)
        /\ Cardinality(attempted) # Cardinality(Plugins)
    BY <1>1, FS_Subset
  <1>3. Cardinality(attempted) \in Nat /\ Cardinality(Plugins) \in Nat
    BY <1>2, FS_CardinalityType
  <1>4. QED
    BY <1>2, <1>3

LEMMA InitOnce == Init => Once
  BY DEF Init, Once

LEMMA NextOnce ==
  ASSUME IsFiniteSet(Plugins), Cardinality(Plugins) <= MaxLazy
  PROVE  Shape /\ Once /\ [Next]_vars => Once'
  <1> SUFFICES ASSUME Shape, Once, [Next]_vars PROVE Once'
    OBVIOUS
  <1>1. ASSUME NEW t \in Callers, Load(t) PROVE Once'
    <2>1. call[t].plugin \in Plugins
      BY <1>1 DEF Load, Shape, ThreadsOK
    <2>2. CASE Attempted(call[t].plugin)
      BY <1>1, <2>2 DEF Load, Once
    <2>3. CASE ~Attempted(call[t].plugin)
      <3>1. instances[call[t].plugin] = 0
        BY <2>1, <2>3 DEF Once, Attempted
      <3>2. attempted' = attempted \cup {call[t].plugin}
        BY <1>1, <2>1, <2>3, RoomForAll DEF Load, Attempted, Shape
      <3>3. \/ instances' = [instances EXCEPT ![call[t].plugin] = @ + 1]
            \/ instances' = instances
        BY <1>1, <2>3 DEF Load
      <3>4. QED
        BY <2>1, <3>1, <3>2, <3>3 DEF Once, Shape, TableOK
    <2>4. QED
      BY <2>2, <2>3
  <1>2. ASSUME UNCHANGED <<instances, attempted>> PROVE Once'
    BY <1>2 DEF Once
  <1>3. QED
    BY <1>1, <1>2 DEF Next, Request, LookUp, LockNodeList, Initialize, Merge, TellPlugin,
                      TellDaemon, Begin, Configure, ConfigureTells, ConfigureSets, vars

-----------------------------------------------------------------------------
\* A created plug-in is not lost.

\* A request under way and a change of the configuration for one plug-in have
\* crossed.
Crossings ==
  \A t \in Callers :
    pc[t] # "idle" /\ pc[Admin] # "idle" /\ call[t].plugin = call[Admin].plugin
      => call[t].plugin \in crossed

\* A request that has a copy still wants the plug-in, or has been crossed.
StillWanted == \A t \in Callers : Copied(t) => Wanted(t) \/ call[t].plugin \in crossed

\* A request that has not loaded has no instance, one that has merged has found
\* one in the table.
Progress ==
  \A t \in Callers :
    /\ pc[t] \in {"idle", "look_up", "lock", "load"} => call[t].ptr = NULL
    /\ pc[t] \in {"tell_plugin", "tell_daemon"} => fPluginPtr[call[t].plugin] # NULL

Bringing(t, p) == call[t].plugin = p /\ call[t].ptr # NULL

NotLost ==
  \A p \in Plugins :
    instances[p] > 0 => \/ fPluginPtr[p] # NULL
                        \/ p \in crossed
                        \/ \E t \in Callers : Bringing(t, p)

\* What a step of a request leaves alone.
LEMMA Alone ==
  ASSUME ThreadsOK, NEW t \in Callers, Request(t)
  PROVE  /\ \A u \in Thread \ {t} : pc'[u] = pc[u] /\ call'[u] = call[u]
         /\ pc[t] # "idle" /\ UNCHANGED conf
         /\ \/ pc'[t] = "idle"
            \/ call'[t].plugin = call[t].plugin /\ call'[t].via = call[t].via
  <1>0. /\ pc = [u \in Thread |-> pc[u]] /\ call = [u \in Thread |-> call[u]]
        /\ t \in Thread /\ call[t] \in Call
    BY DEF ThreadsOK, Thread
  <1> USE DEF Call
  <1>1. CASE LookUp(t)
    BY <1>0, <1>1 DEF LookUp, Answer
  <1>2. CASE LockNodeList(t) \/ TellPlugin(t)
    BY <1>0, <1>2 DEF LockNodeList, TellPlugin
  <1>3. CASE Load(t)
    BY <1>0, <1>3 DEF Load
  <1>4. CASE Merge(t)
    BY <1>0, <1>4 DEF Merge, Answer
  <1>5. CASE TellDaemon(t)
    BY <1>0, <1>5 DEF TellDaemon, Answer
  <1>6. ASSUME NEW ok \in BOOLEAN, Initialize(t, ok)
        PROVE  /\ \A u \in Thread \ {t} : pc'[u] = pc[u] /\ call'[u] = call[u]
               /\ pc[t] # "idle" /\ UNCHANGED conf
               /\ \/ pc'[t] = "idle"
                  \/ call'[t].plugin = call[t].plugin /\ call'[t].via = call[t].via
    BY <1>0, <1>6 DEF Initialize
  <1>7. QED
    BY <1>1, <1>2, <1>3, <1>4, <1>5, <1>6 DEF Request

LEMMA InitNotLost == Init => Crossings /\ StillWanted /\ Progress /\ NotLost
  BY DEF Init, Crossings, StillWanted, Copied, Progress, NotLost, NoCall

LEMMA NextCrossings == Shape /\ Crossings /\ [Next]_vars => Crossings'
  <1> SUFFICES ASSUME Shape, Crossings, [Next]_vars PROVE Crossings'
    OBVIOUS
  <1>0. /\ pc = [u \in Thread |-> pc[u]] /\ call = [u \in Thread |-> call[u]]
        /\ Admin \in Thread /\ Callers \subseteq Thread
    BY DEF Shape, ThreadsOK, Thread
  <1>1. ASSUME NEW t \in Callers, Request(t) PROVE Crossings'
    BY <1>0, <1>1, Alone DEF Crossings, Shape
  <1>2. ASSUME NEW t \in Callers, NEW p \in Plugins, NEW via \in Vias, Begin(t, p, via)
        PROVE  Crossings'
    <2>1. call'[t].plugin = p
      BY <1>0, <1>2, NoCallType, BegunCall DEF Begin
    <2>2. /\ \A u \in Thread \ {t} : pc'[u] = pc[u] /\ call'[u] = call[u]
          /\ crossed \subseteq crossed'
          /\ pc[Admin] # "idle" /\ call[Admin].plugin = p => p \in crossed'
      BY <1>0, <1>2 DEF Begin
    <2>3. QED
      BY <1>0, <2>1, <2>2 DEF Crossings
  <1>3. ASSUME NEW p \in Plugins, NEW s \in States, Configure(p, s) PROVE Crossings'
    <2>1. call'[Admin].plugin = p
      BY <1>0, <1>3, NoCallType DEF Configure, Call
    <2>2. /\ \A u \in Callers : pc'[u] = pc[u] /\ call'[u] = call[u]
          /\ Loading(p) => p \in crossed'
      BY <1>0, <1>3 DEF Configure
    <2>3. QED
      BY <2>1, <2>2 DEF Crossings, Loading
  <1>4. CASE ConfigureTells
    BY <1>0, <1>4 DEF ConfigureTells, Crossings
  <1>5. CASE ConfigureSets
    BY <1>0, <1>5 DEF ConfigureSets, Crossings
  <1>6. CASE UNCHANGED vars
    BY <1>6 DEF vars, Crossings
  <1>7. QED
    BY <1>1, <1>2, <1>3, <1>4, <1>5, <1>6 DEF Next

\* Only the look-up makes a copy, and only of a plug-in that is wanted.
LEMMA NewCopy ==
  ASSUME ThreadsOK, NEW t \in Callers, Request(t), Copied(t)'
  PROVE  Copied(t) \/ Wanted(t)
  <1>0. pc = [u \in Thread |-> pc[u]] /\ t \in Thread
    BY DEF ThreadsOK, Thread
  <1>1. CASE LookUp(t)
    BY <1>0, <1>1 DEF LookUp, Answer, Copied
  <1>2. CASE LockNodeList(t) \/ Load(t) \/ Merge(t)
    BY <1>2 DEF LockNodeList, Load, Merge, Copied
  <1>3. CASE TellPlugin(t) \/ TellDaemon(t)
    BY <1>0, <1>3 DEF TellPlugin, TellDaemon, Answer, Copied
  <1>4. ASSUME NEW ok \in BOOLEAN, Initialize(t, ok) PROVE Copied(t)
    BY <1>4 DEF Initialize, Copied
  <1>5. QED
    BY <1>1, <1>2, <1>3, <1>4 DEF Request

LEMMA NextStillWanted == Shape /\ Crossings /\ StillWanted /\ [Next]_vars => StillWanted'
  <1> SUFFICES ASSUME Shape, Crossings, StillWanted, [Next]_vars,
                      NEW t \in Callers, Copied(t)'
               PROVE  Wanted(t)' \/ call'[t].plugin \in crossed'
    BY DEF StillWanted
  <1>0. /\ pc = [u \in Thread |-> pc[u]] /\ call = [u \in Thread |-> call[u]]
        /\ Admin \in Thread /\ Callers \subseteq Thread /\ t # Admin /\ t \in Thread
    BY DEF Shape, ThreadsOK, Thread
  <1>1. ASSUME NEW u \in Callers, Request(u)
        PROVE  Wanted(t)' \/ call'[t].plugin \in crossed'
    <2>1. UNCHANGED <<config, crossed>>
      BY <1>1, Alone DEF Shape
    <2>2. Copied(t) \/ Wanted(t)
      <3>1. CASE u = t
        BY <1>1, <3>1, NewCopy DEF Shape
      <3>2. CASE u # t
        BY <1>0, <1>1, <3>2, Alone DEF Shape, Copied
      <3>3. QED
        BY <3>1, <3>2
    <2>3. pc'[t] # "idle"
      BY DEF Copied
    <2>4. call'[t].plugin = call[t].plugin /\ call'[t].via = call[t].via
      BY <1>0, <1>1, <2>3, Alone DEF Shape
    <2>5. QED
      BY <2>1, <2>2, <2>4 DEF StillWanted, Wanted
  <1>2. ASSUME NEW u \in Callers, NEW p \in Plugins, NEW via \in Vias, Begin(u, p, via)
        PROVE  Wanted(t)' \/ call'[t].plugin \in crossed'
    <2>1. u # t
      BY <1>0, <1>2 DEF Begin, Copied
    <2>2. /\ pc'[t] = pc[t] /\ call'[t] = call[t]
          /\ crossed \subseteq crossed' /\ config' = config
      BY <1>0, <1>2, <2>1 DEF Begin
    <2>3. QED
      BY <2>2 DEF StillWanted, Wanted, Copied
  <1>3. ASSUME NEW p \in Plugins, NEW s \in States, Configure(p, s)
        PROVE  Wanted(t)' \/ call'[t].plugin \in crossed'
    <2>1. /\ pc'[t] = pc[t] /\ call'[t] = call[t]
          /\ crossed \subseteq crossed' /\ config' = config
      BY <1>0, <1>3 DEF Configure
    <2>2. QED
      BY <2>1 DEF StillWanted, Wanted, Copied
  <1>4. CASE ConfigureTells
    <2>1. pc'[t] = pc[t] /\ call' = call /\ crossed' = crossed /\ config' = config
      BY <1>0, <1>4 DEF ConfigureTells
    <2>2. QED
      BY <2>1 DEF StillWanted, Wanted, Copied
  <1>5. CASE ConfigureSets
    <2>1. pc'[t] = pc[t] /\ call'[t] = call[t] /\ crossed' = crossed
      BY <1>0, <1>5 DEF ConfigureSets
    <2>2. Copied(t) /\ pc[t] # "idle" /\ pc[Admin] # "idle"
      BY <1>5, <2>1 DEF Copied, ConfigureSets
    <2>3. CASE call[t].plugin = call[Admin].plugin
      BY <2>1, <2>2, <2>3 DEF Crossings
    <2>4. CASE call[t].plugin # call[Admin].plugin
      <3>1. call[t].plugin \in Plugins
        BY <2>2 DEF Shape, ThreadsOK
      <3>2. config'[call[t].plugin] = config[call[t].plugin]
        BY <1>5, <2>4, <3>1 DEF ConfigureSets, Shape, TableOK
      <3>3. QED
        BY <2>1, <2>2, <3>2 DEF StillWanted, Wanted
    <2>5. QED
      BY <2>3, <2>4
  <1>6. CASE UNCHANGED vars
    BY <1>6 DEF vars, StillWanted, Wanted, Copied
  <1>7. QED
    BY <1>1, <1>2, <1>3, <1>4, <1>5, <1>6 DEF Next

\* An instance stays in the table.
LEMMA InTable ==
  ASSUME Shape, [Next]_vars, NEW p \in Plugins, fPluginPtr[p] # NULL
  PROVE  fPluginPtr'[p] # NULL
  <1>1. ASSUME NEW t \in Callers, Merge(t) PROVE fPluginPtr'[p] # NULL
    <2>1. call[t].plugin \in Plugins
      BY <1>1 DEF Merge, Shape, ThreadsOK
    <2>2. QED
      BY <1>1, <2>1 DEF Merge, Merges, Shape, TableOK
  <1>2. ASSUME UNCHANGED fPluginPtr PROVE fPluginPtr'[p] # NULL
    BY <1>2
  <1>3. QED
    BY <1>1, <1>2 DEF Next, Request, LookUp, LockNodeList, Load, Initialize, TellPlugin,
                      TellDaemon, Begin, Configure, ConfigureTells, ConfigureSets, vars

LEMMA RequestProgress ==
  ASSUME Shape, Progress, NEW t \in Callers, Request(t), [Next]_vars
  PROVE  /\ pc'[t] \in {"idle", "look_up", "lock", "load"} => call'[t].ptr = NULL
         /\ pc'[t] \in {"tell_plugin", "tell_daemon"} => fPluginPtr'[call'[t].plugin] # NULL
  <1> DEFINE Goal ==
        /\ pc'[t] \in {"idle", "look_up", "lock", "load"} => call'[t].ptr = NULL
        /\ pc'[t] \in {"tell_plugin", "tell_daemon"} => fPluginPtr'[call'[t].plugin] # NULL
  <1>0. /\ pc = [u \in Thread |-> pc[u]] /\ call = [u \in Thread |-> call[u]]
        /\ t \in Thread /\ call[t] \in Call
    BY DEF Shape, ThreadsOK, Thread
  <1>01. /\ pc[t] \in {"look_up", "lock", "load"} => call[t].ptr = NULL
         /\ pc[t] \in {"tell_plugin", "tell_daemon"} => fPluginPtr[call[t].plugin] # NULL
         /\ pc[t] # "idle" => call[t].plugin \in Plugins
    BY DEF Progress, Shape, ThreadsOK
  <1>02. NoCall.ptr = NULL
    BY DEF NoCall
  <1>03. ASSUME NEW ptr, Answer(t, ptr) PROVE Goal
    BY <1>0, <1>02, <1>03 DEF Answer
  <1>1. CASE LookUp(t)
    <2>1. CASE Answer(t, fPluginPtr[call[t].plugin])
      BY <1>03, <2>1
    <2>2. CASE /\ call' = [call EXCEPT ![t].state = fState[call[t].plugin]]
               /\ Goto(t, "lock")
      <3>1. pc'[t] = "lock" /\ call'[t].ptr = call[t].ptr
        BY <1>0, <2>2 DEF Call
      <3>2. QED
        BY <1>01, <1>1, <3>1 DEF LookUp
    <2>3. QED
      BY <1>1, <2>1, <2>2 DEF LookUp
  <1>2. CASE LockNodeList(t)
    BY <1>0, <1>01, <1>2 DEF LockNodeList
  <1>3. CASE Load(t)
    BY <1>0, <1>3 DEF Load
  <1>4. CASE Merge(t)
    <2>1. CASE Answer(t, NULL)
      BY <1>03, <2>1
    <2>2. CASE ~Answer(t, NULL)
      <3>1. /\ call' = [call EXCEPT ![t].new = NewState(t)] /\ Goto(t, "tell_plugin")
            /\ (IF Merges(t) THEN call[t].ptr ELSE fPluginPtr[call[t].plugin]) # NULL
            /\ fPluginPtr' = IF Merges(t) THEN [fPluginPtr EXCEPT ![call[t].plugin] = call[t].ptr]
                                          ELSE fPluginPtr
        BY <1>4, <2>2 DEF Merge
      <3>2. pc'[t] = "tell_plugin" /\ call'[t].plugin = call[t].plugin
        BY <1>0, <3>1 DEF Call
      <3>3. call[t].plugin \in Plugins
        BY <1>01, <1>4 DEF Merge
      <3>4. fPluginPtr'[call[t].plugin] # NULL
        BY <3>1, <3>3 DEF Shape, TableOK
      <3>5. QED
        BY <3>2, <3>4
    <2>3. QED
      BY <2>1, <2>2
  <1>5. CASE TellPlugin(t)
    BY <1>0, <1>01, <1>5 DEF TellPlugin
  <1>6. CASE TellDaemon(t)
    BY <1>03, <1>6 DEF TellDaemon
  <1>7. ASSUME NEW ok \in BOOLEAN, Initialize(t, ok) PROVE Goal
    BY <1>0, <1>7 DEF Initialize
  <1>8. QED
    BY <1>1, <1>2, <1>3, <1>4, <1>5, <1>6, <1>7 DEF Request

LEMMA NextProgress == Shape /\ Progress /\ [Next]_vars => Progress'
  <1> SUFFICES ASSUME Shape, Progress, [Next]_vars PROVE Progress'
    OBVIOUS
  <1>0. /\ pc = [u \in Thread |-> pc[u]] /\ call = [u \in Thread |-> call[u]]
        /\ Admin \in Thread /\ Callers \subseteq Thread /\ Admin \notin Callers
    BY DEF Shape, ThreadsOK, Thread
  \* A thread that does not move keeps what Progress says of it.
  <1>1. ASSUME NEW t \in Callers, pc'[t] = pc[t], call'[t] = call[t]
        PROVE  /\ pc'[t] \in {"idle", "look_up", "lock", "load"} => call'[t].ptr = NULL
               /\ pc'[t] \in {"tell_plugin", "tell_daemon"} => fPluginPtr'[call'[t].plugin] # NULL
    <2>1. pc[t] # "idle" => call[t].plugin \in Plugins
      BY DEF Shape, ThreadsOK
    <2>2. QED
      BY <1>1, <2>1, InTable DEF Progress
  <1>2. ASSUME NEW t \in Callers, Request(t) PROVE Progress'
    <2>1. \A u \in Callers \ {t} : pc'[u] = pc[u] /\ call'[u] = call[u]
      BY <1>0, <1>2, Alone DEF Shape
    <2>2. QED
      BY <1>1, <1>2, <2>1, RequestProgress DEF Progress
  <1>3. ASSUME NEW t \in Callers, NEW p \in Plugins, NEW via \in Vias, Begin(t, p, via)
        PROVE  Progress'
    <2>1. \A u \in Callers \ {t} : pc'[u] = pc[u] /\ call'[u] = call[u]
      BY <1>0, <1>3 DEF Begin
    <2>2. pc'[t] = "look_up" /\ call'[t] = [NoCall EXCEPT !.plugin = p, !.via = via]
      BY <1>0, <1>3 DEF Begin
    <2>3. [NoCall EXCEPT !.plugin = p, !.via = via].ptr = NULL
      BY DEF NoCall
    <2>4. QED
      BY <1>1, <2>1, <2>2, <2>3 DEF Progress
  <1>4. ASSUME \A u \in Callers : pc'[u] = pc[u] /\ call'[u] = call[u] PROVE Progress'
    BY <1>1, <1>4 DEF Progress
  <1>5. ASSUME NEW p \in Plugins, NEW s \in States, Configure(p, s) PROVE Progress'
    BY <1>0, <1>4, <1>5 DEF Configure
  <1>6. CASE ConfigureTells \/ ConfigureSets
    BY <1>0, <1>4, <1>6 DEF ConfigureTells, ConfigureSets
  <1>7. CASE UNCHANGED vars
    BY <1>4, <1>7 DEF vars
  <1>8. QED
    BY <1>2, <1>3, <1>5, <1>6, <1>7 DEF Next

\* A thread that brings a plug-in keeps bringing it, or has put it into the
\* table, or found that it was configured inactive meanwhile.
LEMMA Brought ==
  ASSUME Shape, StillWanted, Progress, [Next]_vars,
         NEW t \in Callers, NEW p \in Plugins, Bringing(t, p), fPluginPtr[p] = NULL
  PROVE  fPluginPtr'[p] # NULL \/ p \in crossed' \/ Bringing(t, p)'
  <1>0. /\ pc = [u \in Thread |-> pc[u]] /\ call = [u \in Thread |-> call[u]]
        /\ Admin \in Thread /\ Callers \subseteq Thread /\ t # Admin /\ t \in Thread
        /\ call[t] \in Call
    BY DEF Shape, ThreadsOK, Thread
  <1>1. pc[t] \in {"initialize", "merge"} /\ call[t].plugin = p /\ call[t].ptr # NULL
    BY <1>0 DEF Bringing, Progress, Shape, ThreadsOK, Where
  <1>2. ASSUME call'[t] = call[t] PROVE Bringing(t, p)'
    BY <1>2 DEF Bringing
  <1>3. ASSUME NEW u \in Callers, Request(u)
        PROVE  fPluginPtr'[p] # NULL \/ p \in crossed' \/ Bringing(t, p)'
    <2>1. CASE u # t
      BY <1>0, <1>2, <1>3, <2>1, Alone DEF Shape
    <2>2. CASE Merge(t)
      <3>1. CASE Merges(t)
        BY <1>1, <2>2, <3>1 DEF Merge, Shape, TableOK
      <3>2. CASE ~Merges(t)
        <4>1. ~Wanted(t)
          BY <1>1, <3>2 DEF Merges
        <4>2. p \in crossed
          BY <1>1, <2>2, <4>1 DEF StillWanted, Copied, Merge
        <4>3. QED
          BY <2>2, <4>2 DEF Merge
      <3>3. QED
        BY <3>1, <3>2
    <2>3. ASSUME NEW ok \in BOOLEAN, Initialize(t, ok) PROVE Bringing(t, p)'
      BY <1>0, <1>1, <2>3 DEF Initialize, Bringing, Call
    <2>4. QED
      BY <1>1, <1>3, <2>1, <2>2, <2>3 DEF Request, LookUp, LockNodeList, Load, TellPlugin,
                                          TellDaemon
  <1>4. ASSUME NEW u \in Callers, NEW q \in Plugins, NEW via \in Vias, Begin(u, q, via)
        PROVE  Bringing(t, p)'
    BY <1>0, <1>1, <1>2, <1>4 DEF Begin
  <1>5. ASSUME NEW q \in Plugins, NEW s \in States, Configure(q, s) PROVE Bringing(t, p)'
    BY <1>0, <1>2, <1>5 DEF Configure
  <1>6. CASE ConfigureTells \/ ConfigureSets \/ UNCHANGED vars
    BY <1>0, <1>2, <1>6 DEF ConfigureTells, ConfigureSets, vars
  <1>7. QED
    BY <1>3, <1>4, <1>5, <1>6 DEF Next

\* A plug-in that is created is brought by the request that created it.
LEMMA Created ==
  ASSUME Shape, [Next]_vars, NEW p \in Plugins, instances'[p] # instances[p]
  PROVE  \E t \in Callers : Bringing(t, p)'
  <1>1. ASSUME NEW t \in Callers, Load(t) PROVE Bringing(t, p)'
    <2>1. /\ call = [u \in Thread |-> call[u]] /\ t \in Thread /\ call[t] \in Call
          /\ call[t].plugin \in Plugins
      BY <1>1 DEF Load, Shape, ThreadsOK, Thread
    <2>2. /\ instances' = [instances EXCEPT ![call[t].plugin] = @ + 1]
          /\ call' = [call EXCEPT ![t].ptr = "instance"]
      BY <1>1 DEF Load
    <2>3. call[t].plugin = p
      BY <2>1, <2>2 DEF Shape, TableOK
    <2>4. QED
      BY <2>1, <2>2, <2>3 DEF Bringing, Call, NULL
  <1>2. ASSUME UNCHANGED instances PROVE FALSE
    BY <1>2
  <1>3. QED
    BY <1>1, <1>2 DEF Next, Request, LookUp, LockNodeList, Initialize, Merge, TellPlugin,
                      TellDaemon, Begin, Configure, ConfigureTells, ConfigureSets, vars

LEMMA NextNotLost ==
  Shape /\ StillWanted /\ Progress /\ NotLost /\ [Next]_vars => NotLost'
  <1> SUFFICES ASSUME Shape, StillWanted, Progress, NotLost, [Next]_vars,
                      NEW p \in Plugins, instances'[p] > 0
               PROVE  \/ fPluginPtr'[p] # NULL
                      \/ p \in crossed'
                      \/ \E t \in Callers : Bringing(t, p)'
    BY DEF NotLost
  <1>1. CASE instances'[p] # instances[p]
    BY <1>1, Created
  <1>2. CASE instances'[p] = instances[p]
    <2>1. CASE fPluginPtr[p] # NULL
      BY <2>1, InTable
    <2>2. CASE p \in crossed
      <3>1. ASSUME NEW t \in Callers, Request(t) PROVE crossed' = crossed
        BY <3>1, Alone DEF Shape
      <3>2. crossed \subseteq crossed'
        BY <3>1 DEF Next, Begin, Configure, ConfigureTells, ConfigureSets, vars
      <3>3. QED
        BY <2>2, <3>2
    <2>3. CASE fPluginPtr[p] = NULL /\ p \notin crossed
      <3>1. PICK t \in Callers : Bringing(t, p)
        BY <1>2, <2>3 DEF NotLost
      <3>2. QED
        BY <2>3, <3>1, Brought
    <2>4. QED
      BY <2>1, <2>2, <2>3
  <1>3. QED
    BY <1>1, <1>2

\* However many requests, threads and plug-ins there are, a plug-in is created
\* once and is not lost (Server/CPlugInList.cpp, LoadPlugin and the merge of
\* GetPlugInPtr), as long as the list of attempts has room for every plug-in.
THEOREM OneInstanceCorrect ==
  ASSUME IsFiniteSet(Plugins), Cardinality(Plugins) <= MaxLazy
  PROVE  Spec => []OneInstanceEach
  <1> DEFINE Inv == Shape /\ Once /\ Crossings /\ StillWanted /\ Progress /\ NotLost
  <1>1. Init => Inv
    BY InitShape, InitOnce, InitNotLost
  <1>2. Inv /\ [Next]_vars => Inv'
    BY NextShape, NextOnce, NextCrossings, NextStillWanted, NextProgress, NextNotLost
  <1>3. Inv => OneInstanceEach
    BY DEF Once, NotLost, Bringing, OneInstanceEach
  <1> HIDE DEF Inv
  <1>4. QED
    BY <1>1, <1>2, <1>3, PTL DEF Spec

-----------------------------------------------------------------------------
\* The plug-in, opendirectoryd and the configuration agree on the state.

\* One request at most brings a plug-in, and until it merges the table has none.
Sole ==
  \A p \in Plugins :
    /\ fPluginPtr[p] # NULL => instances[p] > 0
    /\ \A t \in Callers : Bringing(t, p) => instances[p] > 0
    /\ \A t \in Callers : Bringing(t, p) /\ Copied(t) => fPluginPtr[p] = NULL
    /\ \A t, u \in Callers : Bringing(t, p) /\ Bringing(u, p) => t = u

Tells(t) == pc[t] \in {"tell_plugin", "tell_daemon"}
Straight(p) == p \notin overtaken \cup crossed

\* Only the request that brought it tells a plug-in its state, the configured
\* one; a change of the configuration found what the table still has.
Telling ==
  \A p \in Plugins : Straight(p) =>
    /\ \A t \in Callers : Tells(t) /\ call[t].plugin = p =>
         /\ Bringing(t, p)
         /\ call[t].new = config[p]
         /\ pc[t] = "tell_daemon" => running[p] = config[p]
    /\ pc[Admin] # "idle" /\ call[Admin].plugin = p => call[Admin].ptr = fPluginPtr[p]
    /\ pc[Admin] = "tell_daemon" /\ call[Admin].plugin = p /\ fPluginPtr[p] # NULL
         => running[p] = call[Admin].new

Agreed(p) == running[p] = config[p] /\ enabled[p] = config[p]
HalfConfigured(p) ==
  /\ pc[Admin] = "tell_daemon" /\ call[Admin].plugin = p
  /\ running[p] = call[Admin].new
Settled ==
  \A p \in Plugins : Straight(p) /\ fPluginPtr[p] # NULL =>
    \/ \E t \in Callers : Tells(t) /\ call[t].plugin = p
    \/ HalfConfigured(p)
    \/ Agreed(p)

LEMMA InitSettled == Init => Sole /\ Telling /\ Settled
  BY DEF Init, Sole, Telling, Settled, Tells, Bringing, NoCall

\* A request comes to bring a plug-in by creating it.
LEMMA BringsBecause ==
  ASSUME Shape, Progress, NEW t \in Callers, Request(t), NEW p, Bringing(t, p)'
  PROVE  \/ Bringing(t, p) /\ (Copied(t)' => Copied(t))
         \/ /\ Load(t) /\ ~Attempted(call[t].plugin) /\ call[t].plugin = p
            /\ instances' = [instances EXCEPT ![p] = @ + 1]
  <1> DEFINE Goal ==
        \/ Bringing(t, p) /\ (Copied(t)' => Copied(t))
        \/ /\ Load(t) /\ ~Attempted(call[t].plugin) /\ call[t].plugin = p
           /\ instances' = [instances EXCEPT ![p] = @ + 1]
  <1>0. /\ pc = [u \in Thread |-> pc[u]] /\ call = [u \in Thread |-> call[u]]
        /\ t \in Thread /\ call[t] \in Call
    BY DEF Shape, ThreadsOK, Thread
  <1>01. pc[t] \in {"idle", "look_up", "lock", "load"} => call[t].ptr = NULL
    BY DEF Progress
  <1>02. NoCall.ptr = NULL
    BY DEF NoCall
  <1>03. ASSUME NEW ptr, Answer(t, ptr) PROVE FALSE
    BY <1>0, <1>02, <1>03 DEF Answer, Bringing
  <1>1. CASE LookUp(t)
    <2>1. pc[t] = "look_up"
          /\ call' = [call EXCEPT ![t].state = fState[call[t].plugin]]
      BY <1>03, <1>1 DEF LookUp
    <2>2. QED
      BY <1>0, <1>01, <2>1 DEF Bringing, Call
  <1>2. CASE LockNodeList(t)
    BY <1>0, <1>01, <1>2 DEF LockNodeList, Bringing
  <1>3. CASE Load(t)
    <2>1. pc[t] = "load" /\ call[t].ptr = NULL
      BY <1>01, <1>3 DEF Load
    <2>2. ~Attempted(call[t].plugin)
          /\ instances' = [instances EXCEPT ![call[t].plugin] = @ + 1]
          /\ call' = [call EXCEPT ![t].ptr = "instance"]
      BY <1>0, <1>3, <2>1 DEF Load, Bringing
    <2>3. call[t].plugin = p
      BY <1>0, <2>2 DEF Bringing, Call
    <2>4. QED
      BY <1>3, <2>2, <2>3
  <1>4. CASE Merge(t)
    <2>1. call' = [call EXCEPT ![t].new = NewState(t)] /\ pc[t] = "merge"
      BY <1>03, <1>4 DEF Merge
    <2>2. QED
      BY <1>0, <2>1 DEF Bringing, Copied, Call
  <1>5. CASE TellPlugin(t)
    BY <1>0, <1>5 DEF TellPlugin, Bringing, Copied
  <1>6. CASE TellDaemon(t)
    BY <1>03, <1>6 DEF TellDaemon
  <1>7. ASSUME NEW ok \in BOOLEAN, Initialize(t, ok) PROVE Goal
    <2>1. pc[t] = "initialize"
      BY <1>7 DEF Initialize
    <2>2. call'[t].plugin = call[t].plugin /\ call'[t].ptr = call[t].ptr
      BY <1>0, <1>7 DEF Initialize, Call
    <2>3. QED
      BY <2>1, <2>2 DEF Bringing, Copied
  <1>8. QED
    BY <1>1, <1>2, <1>3, <1>4, <1>5, <1>6, <1>7 DEF Request

LEMMA NextSole ==
  Shape /\ Once /\ Progress /\ Sole /\ [Next]_vars => Sole'
  <1> SUFFICES ASSUME Shape, Once, Progress, Sole, [Next]_vars PROVE Sole'
    OBVIOUS
  <1>0. /\ pc = [u \in Thread |-> pc[u]] /\ call = [u \in Thread |-> call[u]]
        /\ Admin \in Thread /\ Callers \subseteq Thread /\ Admin \notin Callers
        /\ instances \in [Plugins -> Int] /\ fPluginPtr \in [Plugins -> {NULL, "instance"}]
    BY DEF Shape, TableOK, ThreadsOK, Thread
  \* Steps that bring nothing.
  <1>1. ASSUME UNCHANGED <<fPluginPtr, instances>>,
               \A t \in Callers, p \in Plugins :
                 Bringing(t, p)' => Bringing(t, p) /\ (Copied(t)' => Copied(t))
        PROVE  Sole'
    BY <1>1 DEF Sole
  <1>2. ASSUME \A t \in Callers : pc'[t] = pc[t] /\ call'[t] = call[t]
        PROVE  \A t \in Callers, p \in Plugins :
                 Bringing(t, p)' => Bringing(t, p) /\ (Copied(t)' => Copied(t))
    BY <1>2 DEF Bringing, Copied
  <1>3. ASSUME NEW t \in Callers, Request(t)
        PROVE  Sole'
    <2>1. \A u \in Callers \ {t} :
            /\ \A p : Bringing(u, p)' <=> Bringing(u, p)
            /\ Copied(u)' <=> Copied(u)
      BY <1>0, <1>3, Alone DEF Shape, Bringing, Copied
    <2>2. CASE Merge(t)
      <3> DEFINE q == call[t].plugin
      <3>1. /\ q \in Plugins /\ Copied(t) /\ UNCHANGED instances
            /\ \/ UNCHANGED fPluginPtr
               \/ fPluginPtr' = [fPluginPtr EXCEPT ![q] = call[t].ptr]
            /\ pc'[t] \in {"idle", "tell_plugin"}
        BY <1>0, <2>2 DEF Merge, Shape, ThreadsOK, Copied, Answer
      <3>2. ~Copied(t)'
        BY <3>1 DEF Copied
      <3>3. \A p \in Plugins : Bringing(t, p)' => Bringing(t, p)
        BY <1>3, <2>2, BringsBecause DEF Merge, Load
      <3>4. ASSUME NEW p \in Plugins, fPluginPtr'[p] # NULL
            PROVE  fPluginPtr[p] # NULL \/ (p = q /\ Bringing(t, q))
        BY <1>0, <3>1, <3>4 DEF Bringing
      <3> HIDE DEF q
      <3>5. ASSUME NEW p \in Plugins
            PROVE  fPluginPtr'[p] # NULL => instances'[p] > 0
        BY <3>1, <3>4 DEF Sole
      <3>6. ASSUME NEW p \in Plugins, NEW u \in Callers, Bringing(u, p)', Copied(u)'
            PROVE  fPluginPtr'[p] = NULL
        BY <2>1, <3>2, <3>4, <3>6 DEF Sole
      <3>7. ASSUME NEW p \in Plugins, NEW u \in Callers, Bringing(u, p)'
            PROVE  Bringing(u, p)
        BY <2>1, <3>3, <3>7
      <3>8. QED
        BY <3>1, <3>5, <3>6, <3>7 DEF Sole
    <2>3. CASE Load(t)
      <3>1. UNCHANGED fPluginPtr
        BY <2>3 DEF Load
      <3>2. CASE UNCHANGED instances
        <4>1. \A p \in Plugins : Bringing(t, p)' => Bringing(t, p) /\ (Copied(t)' => Copied(t))
          BY <1>0, <1>3, <3>2, BringsBecause
        <4>2. QED
          BY <1>1, <2>1, <3>1, <3>2, <4>1
      <3>3. CASE ~UNCHANGED instances
        <4> DEFINE q == call[t].plugin
        <4>1. /\ q \in Plugins /\ q \notin attempted
              /\ instances' = [instances EXCEPT ![q] = @ + 1]
          BY <2>3, <3>3 DEF Load, Attempted, Shape, ThreadsOK
        <4>2. instances[q] = 0 /\ instances'[q] = 1
          BY <1>0, <4>1 DEF Once
        <4>3. fPluginPtr[q] = NULL /\ \A u \in Callers : ~Bringing(u, q)
          BY <4>1, <4>2 DEF Sole
        <4>4. \A p \in Plugins : Bringing(t, p)' =>
                p = q \/ (Bringing(t, p) /\ (Copied(t)' => Copied(t)))
          BY <1>3, BringsBecause
        <4> HIDE DEF q
        <4>5. \A p \in Plugins : p # q => instances'[p] = instances[p]
          BY <1>0, <4>1
        <4>6. QED
          BY <2>1, <3>1, <4>1, <4>2, <4>3, <4>4, <4>5 DEF Sole
      <3>4. QED
        BY <3>2, <3>3
    <2>4. CASE ~Merge(t) /\ ~Load(t)
      <3>1. UNCHANGED <<fPluginPtr, instances>>
        BY <1>3, <2>4 DEF Request, LookUp, LockNodeList, Initialize, TellPlugin, TellDaemon
      <3>2. QED
        BY <1>1, <1>3, <2>1, <2>4, <3>1, BringsBecause
    <2>5. QED
      BY <2>2, <2>3, <2>4
  <1>4. ASSUME NEW t \in Callers, NEW q \in Plugins, NEW via \in Vias, Begin(t, q, via)
        PROVE  Sole'
    <2>1. UNCHANGED <<fPluginPtr, instances>>
      BY <1>4 DEF Begin
    <2>2. \A u \in Callers \ {t} : pc'[u] = pc[u] /\ call'[u] = call[u]
      BY <1>0, <1>4 DEF Begin
    <2>3. call'[t] = [NoCall EXCEPT !.plugin = q, !.via = via]
      BY <1>0, <1>4 DEF Begin
    <2>4. call'[t].ptr = NULL
      BY <2>3 DEF NoCall
    <2>5. \A u \in Callers, p \in Plugins :
            Bringing(u, p)' => Bringing(u, p) /\ (Copied(u)' => Copied(u))
      BY <2>2, <2>4 DEF Bringing, Copied
    <2>6. QED
      BY <1>1, <2>1, <2>5
  <1>5. ASSUME NEW p \in Plugins, NEW s \in States, Configure(p, s) PROVE Sole'
    BY <1>0, <1>1, <1>2, <1>5 DEF Configure
  <1>6. CASE ConfigureTells \/ ConfigureSets \/ UNCHANGED vars
    BY <1>0, <1>1, <1>2, <1>6 DEF ConfigureTells, ConfigureSets, vars
  <1>7. QED
    BY <1>3, <1>4, <1>5, <1>6 DEF Next

ToldOK == running \in [Plugins -> States \cup {NULL}] /\ enabled \in [Plugins -> States]

LEMMA NextTold == Shape /\ ToldOK /\ [Next]_vars => ToldOK'
  <1> SUFFICES ASSUME Shape, ToldOK, [Next]_vars PROVE ToldOK'
    OBVIOUS
  <1>1. ASSUME NEW t \in Callers, TellPlugin(t) \/ TellDaemon(t) PROVE ToldOK'
    BY <1>1 DEF TellPlugin, TellDaemon, ToldOK, States
  <1>2. CASE ConfigureTells \/ ConfigureSets
    <2>1. call[Admin].new \in States
      BY <1>2 DEF ConfigureTells, ConfigureSets, Shape, ThreadsOK
    <2>2. QED
      BY <1>2, <2>1 DEF ConfigureTells, ConfigureSets, ToldOK
  <1>3. ASSUME UNCHANGED <<running, enabled>> PROVE ToldOK'
    BY <1>3 DEF ToldOK
  <1>4. QED
    BY <1>1, <1>2, <1>3 DEF Next, Request, LookUp, LockNodeList, Load, Initialize, Merge,
       Begin, Configure, vars

\* What a request leaves of the states of the plug-ins.
LEMMA Restates ==
  ASSUME Shape, ToldOK, NEW t \in Callers, Request(t)
  PROVE  /\ UNCHANGED <<config, crossed>>
         /\ overtaken \subseteq overtaken'
         /\ \A p \in Plugins : p # call[t].plugin \/ ~Merge(t) =>
              fPluginPtr'[p] = fPluginPtr[p]
         /\ \A p \in Plugins : p # call[t].plugin \/ ~TellPlugin(t) => running'[p] = running[p]
         /\ \A p \in Plugins : p # call[t].plugin \/ ~TellDaemon(t) => enabled'[p] = enabled[p]
  <1> USE DEF Shape, TableOK, ToldOK
  <1>1. UNCHANGED <<config, crossed>> /\ overtaken \subseteq overtaken'
    BY DEF Request, LookUp, LockNodeList, Load, Initialize, Merge, TellPlugin, TellDaemon
  <1>2. CASE Merge(t)
    BY <1>1, <1>2 DEF Merge
  <1>3. CASE TellPlugin(t)
    BY <1>1, <1>3 DEF TellPlugin
  <1>4. CASE TellDaemon(t)
    BY <1>1, <1>4 DEF TellDaemon
  <1>5. CASE ~Merge(t) /\ ~TellPlugin(t) /\ ~TellDaemon(t)
    <2>1. UNCHANGED <<fPluginPtr, running, enabled>>
      BY <1>5 DEF Request, LookUp, LockNodeList, Load, Initialize
    <2>2. QED
      BY <1>1, <2>1
  <1>6. QED
    BY <1>2, <1>3, <1>4, <1>5

\* Which step of its own brings a request to tell the plug-in's state.
LEMMA TellsBecause ==
  ASSUME Shape, NEW t \in Callers, Request(t), Tells(t)'
  PROVE  \/ /\ Merge(t)
            /\ pc'[t] = "tell_plugin"
            /\ call'[t] = [call[t] EXCEPT !.new = NewState(t)]
            /\ (IF Merges(t) THEN call[t].ptr ELSE fPluginPtr[call[t].plugin]) # NULL
         \/ TellPlugin(t) /\ call'[t] = call[t]
  <1>0. /\ pc = [u \in Thread |-> pc[u]] /\ call = [u \in Thread |-> call[u]]
        /\ t \in Thread /\ call[t] \in Call
    BY DEF Shape, ThreadsOK, Thread
  <1>1. ASSUME NEW ptr, Answer(t, ptr) PROVE FALSE
    BY <1>0, <1>1 DEF Answer, Tells
  <1>2. CASE Merge(t)
    BY <1>0, <1>1, <1>2 DEF Merge
  <1>3. CASE TellPlugin(t)
    BY <1>3 DEF TellPlugin
  <1>4. CASE LookUp(t) \/ TellDaemon(t)
    BY <1>0, <1>1, <1>4 DEF LookUp, TellDaemon, Tells
  <1>5. CASE LockNodeList(t) \/ Load(t) \/ \E ok \in BOOLEAN : Initialize(t, ok)
    BY <1>0, <1>5 DEF LockNodeList, Load, Initialize, Tells
  <1>6. QED
    BY <1>2, <1>3, <1>4, <1>5 DEF Request

\* The request that merges what it brings learns the configured state.
LEMMA MergesOwn ==
  ASSUME Shape, StillWanted, Sole, NEW t \in Callers, Merge(t), NEW p \in Plugins,
         call[t].plugin = p, Straight(p)',
         (IF Merges(t) THEN call[t].ptr ELSE fPluginPtr[p]) # NULL
  PROVE  Bringing(t, p) /\ Merges(t) /\ NewState(t) = config[p]
  <1>1. pc[t] = "merge" /\ UNCHANGED <<instances, crossed>>
        /\ (call[t].ptr = NULL /\ instances[p] > 0 => p \in overtaken')
    BY DEF Merge
  <1>2. p \notin crossed /\ p \notin overtaken'
    BY <1>1 DEF Straight
  <1>3. call[t].ptr # NULL
    <2>1. SUFFICES ASSUME call[t].ptr = NULL PROVE FALSE
      OBVIOUS
    <2>2. fPluginPtr[p] # NULL
      BY <2>1 DEF Merges
    <2>3. QED
      BY <1>1, <1>2, <2>1, <2>2 DEF Sole
  <1>4. Bringing(t, p) /\ Copied(t)
    BY <1>1, <1>3 DEF Bringing, Copied
  <1>5. fPluginPtr[p] = NULL
    BY <1>4 DEF Sole
  <1>6. Wanted(t)
    BY <1>2, <1>4 DEF StillWanted
  <1>7. QED
    BY <1>4, <1>5, <1>6 DEF Merges, NewState

LEMMA NextTelling ==
  Shape /\ ToldOK /\ Crossings /\ StillWanted /\ Sole /\ Telling /\ [Next]_vars => Telling'
  <1> SUFFICES ASSUME Shape, ToldOK, Crossings, StillWanted, Sole, Telling, [Next]_vars,
                      NEW p \in Plugins, Straight(p)'
               PROVE  /\ \A t \in Callers : (Tells(t) /\ call[t].plugin = p)' =>
                           /\ Bringing(t, p)'
                           /\ call'[t].new = config'[p]
                           /\ pc'[t] = "tell_daemon" => running'[p] = config'[p]
                      /\ pc'[Admin] # "idle" /\ call'[Admin].plugin = p
                           => call'[Admin].ptr = fPluginPtr'[p]
                      /\ (/\ pc'[Admin] = "tell_daemon" /\ call'[Admin].plugin = p
                          /\ fPluginPtr'[p] # NULL)
                           => running'[p] = call'[Admin].new
    BY DEF Telling
  <1> DEFINE Goal ==
        /\ \A t \in Callers : (Tells(t) /\ call[t].plugin = p)' =>
             /\ Bringing(t, p)'
             /\ call'[t].new = config'[p]
             /\ pc'[t] = "tell_daemon" => running'[p] = config'[p]
        /\ pc'[Admin] # "idle" /\ call'[Admin].plugin = p
             => call'[Admin].ptr = fPluginPtr'[p]
        /\ (/\ pc'[Admin] = "tell_daemon" /\ call'[Admin].plugin = p
            /\ fPluginPtr'[p] # NULL)
             => running'[p] = call'[Admin].new
  <1>0. /\ pc = [u \in Thread |-> pc[u]] /\ call = [u \in Thread |-> call[u]]
        /\ Admin \in Thread /\ Callers \subseteq Thread /\ Admin \notin Callers
        /\ config \in [Plugins -> States] /\ running \in [Plugins -> States \cup {NULL}]
        /\ \A u \in Thread : call[u] \in Call
    BY DEF Shape, TableOK, ToldOK, ThreadsOK, Thread
  <1>1. ASSUME NEW t \in Callers, Request(t)
        PROVE  Goal
    <2>1. /\ UNCHANGED <<config, crossed>> /\ overtaken \subseteq overtaken'
          /\ p # call[t].plugin \/ ~Merge(t) => fPluginPtr'[p] = fPluginPtr[p]
          /\ p # call[t].plugin \/ ~TellPlugin(t) => running'[p] = running[p]
      BY <1>1, Restates
    <2>2. Straight(p)
      BY <2>1 DEF Straight
    <2>3. \A u \in Thread \ {t} : pc'[u] = pc[u] /\ call'[u] = call[u]
      BY <1>1, Alone DEF Shape
    <2>4. ASSUME NEW u \in Callers, u # t, (Tells(u) /\ call[u].plugin = p)'
          PROVE  /\ Bringing(u, p)'
                 /\ call'[u].new = config'[p]
                 /\ pc'[u] = "tell_daemon" => running'[p] = config'[p]
      <3>1. /\ pc'[u] = pc[u] /\ call'[u] = call[u]
        BY <1>0, <2>3, <2>4
      <3>2. /\ Tells(u) /\ call[u].plugin = p /\ Bringing(u, p) /\ call[u].new = config[p]
            /\ pc[u] = "tell_daemon" => running[p] = config[p]
        BY <2>2, <2>4, <3>1 DEF Tells, Telling
      <3>3. p # call[t].plugin \/ ~TellPlugin(t)
        <4>1. SUFFICES ASSUME p = call[t].plugin, TellPlugin(t) PROVE FALSE
          OBVIOUS
        <4>2. Bringing(t, p)
          BY <2>2, <4>1 DEF TellPlugin, Telling, Tells
        <4>3. QED
          BY <2>4, <3>2, <4>2 DEF Sole
      <3>4. QED
        BY <2>1, <3>1, <3>2, <3>3 DEF Bringing
    <2>5. ASSUME (Tells(t) /\ call[t].plugin = p)'
          PROVE  /\ Bringing(t, p)'
                 /\ call'[t].new = config'[p]
                 /\ pc'[t] = "tell_daemon" => running'[p] = config'[p]
      <3>1. CASE /\ Merge(t)
                 /\ pc'[t] = "tell_plugin"
                 /\ call'[t] = [call[t] EXCEPT !.new = NewState(t)]
                 /\ (IF Merges(t) THEN call[t].ptr ELSE fPluginPtr[call[t].plugin]) # NULL
        <4>1. call[t] \in Call
          BY <1>0
        <4>2. call'[t].plugin = call[t].plugin /\ call'[t].ptr = call[t].ptr
              /\ call'[t].new = NewState(t)
          BY <3>1, <4>1 DEF Call
        <4>3. call[t].plugin = p
          BY <2>5, <4>2
        <4>4. Bringing(t, p) /\ NewState(t) = config[p]
          BY <3>1, <4>3, MergesOwn
        <4>5. QED
          BY <2>1, <3>1, <4>2, <4>4 DEF Bringing
      <3>2. CASE TellPlugin(t) /\ call'[t] = call[t]
        <4>1. Tells(t) /\ call[t].plugin = p /\ pc[t] = "tell_plugin"
          BY <2>5, <3>2 DEF TellPlugin, Tells
        <4>2. Bringing(t, p) /\ call[t].new = config[p] /\ config[p] \in States
          BY <1>0, <2>2, <4>1 DEF Telling
        <4>3. running' = [running EXCEPT ![p] = config[p]]
          BY <3>2, <4>1, <4>2 DEF TellPlugin
        <4>4. running'[p] = config[p]
          BY <1>0, <4>3
        <4>5. QED
          BY <2>1, <3>2, <4>2, <4>4 DEF Bringing
      <3>3. Tells(t)'
        BY <2>5
      <3>4. QED
        BY <1>1, <3>1, <3>2, <3>3, TellsBecause
    <2>6. ASSUME pc'[Admin] # "idle", call'[Admin].plugin = p
          PROVE  /\ call'[Admin].ptr = fPluginPtr'[p]
                 /\ pc'[Admin] = "tell_daemon" /\ fPluginPtr'[p] # NULL
                      => running'[p] = call'[Admin].new
      <3>1. pc'[Admin] = pc[Admin] /\ call'[Admin] = call[Admin]
        BY <1>0, <2>3
      <3>2. /\ call[Admin].ptr = fPluginPtr[p]
            /\ pc[Admin] = "tell_daemon" /\ fPluginPtr[p] # NULL
                 => running[p] = call[Admin].new
        BY <2>2, <2>6, <3>1 DEF Telling
      <3>3. p # call[t].plugin \/ (~Merge(t) /\ ~TellPlugin(t))
        BY <2>2, <2>6, <3>1 DEF Merge, TellPlugin, Crossings, Straight
      <3>4. fPluginPtr'[p] = fPluginPtr[p] /\ running'[p] = running[p]
        BY <2>1, <3>3
      <3>5. QED
        BY <3>1, <3>2, <3>4
    <2>7. QED
      BY <2>4, <2>5, <2>6
  \* Nothing happens to p.
  <1>2. ASSUME UNCHANGED <<fPluginPtr, overtaken>>, crossed \subseteq crossed',
               running'[p] = running[p], config'[p] = config[p],
               \A u \in Callers : \/ pc'[u] = "look_up"
                                  \/ pc'[u] = pc[u] /\ call'[u] = call[u],
               \/ pc'[Admin] = "idle"
               \/ call'[Admin] = call[Admin] /\ pc'[Admin] = pc[Admin]
               \/ /\ pc'[Admin] # "tell_daemon"
                  /\ call'[Admin].plugin = p => call'[Admin].ptr = fPluginPtr[p]
        PROVE  Goal
    <2>1. Straight(p)
      BY <1>2 DEF Straight
    <2>2. ASSUME NEW u \in Callers, (Tells(u) /\ call[u].plugin = p)'
          PROVE  /\ Bringing(u, p)'
                 /\ call'[u].new = config'[p]
                 /\ pc'[u] = "tell_daemon" => running'[p] = config'[p]
      <3>1. pc'[u] = pc[u] /\ call'[u] = call[u]
        BY <1>2, <2>2 DEF Tells
      <3>2. Tells(u) /\ call[u].plugin = p
        BY <2>2, <3>1 DEF Tells
      <3>3. /\ Bringing(u, p) /\ call[u].new = config[p]
            /\ pc[u] = "tell_daemon" => running[p] = config[p]
        BY <2>1, <3>2 DEF Telling
      <3>4. QED
        BY <1>2, <3>1, <3>3 DEF Bringing
    <2>3. CASE pc'[Admin] = "idle"
      BY <2>2, <2>3
    <2>4. CASE call'[Admin] = call[Admin] /\ pc'[Admin] = pc[Admin]
      <3>1. /\ pc[Admin] # "idle" /\ call[Admin].plugin = p => call[Admin].ptr = fPluginPtr[p]
            /\ pc[Admin] = "tell_daemon" /\ call[Admin].plugin = p /\ fPluginPtr[p] # NULL
                 => running[p] = call[Admin].new
        BY <2>1 DEF Telling
      <3>2. QED
        BY <1>2, <2>2, <2>4, <3>1
    <2>5. CASE /\ pc'[Admin] # "tell_daemon"
               /\ call'[Admin].plugin = p => call'[Admin].ptr = fPluginPtr[p]
      BY <1>2, <2>2, <2>5
    <2>6. QED
      BY <1>2, <2>3, <2>4, <2>5
  <1>3. ASSUME NEW t \in Callers, NEW q \in Plugins, NEW via \in Vias, Begin(t, q, via)
        PROVE  Goal
    <2>1. /\ UNCHANGED <<fPluginPtr, overtaken, running, config>> /\ crossed \subseteq crossed'
          /\ \A u \in Thread \ {t} : pc'[u] = pc[u] /\ call'[u] = call[u]
          /\ pc'[t] = "look_up"
      BY <1>0, <1>3 DEF Begin
    <2>2. pc'[Admin] = pc[Admin] /\ call'[Admin] = call[Admin]
      BY <1>0, <2>1
    <2>3. ASSUME NEW u \in Callers
          PROVE  pc'[u] = "look_up" \/ (pc'[u] = pc[u] /\ call'[u] = call[u])
      <3>1. CASE u = t
        <4>1. pc'[t] = "look_up"
          BY <2>1
        <4>2. QED
          BY <3>1, <4>1
      <3>2. CASE u # t
        <4>1. u \in Thread \ {t}
          BY <1>0, <3>2
        <4>2. QED
          BY <2>1, <4>1
      <3>3. QED
        BY <3>1, <3>2
    <2>4. running'[p] = running[p] /\ config'[p] = config[p]
      BY <2>1
    <2>5. QED
      BY <1>2, <2>1, <2>2, <2>3, <2>4
  <1>4. ASSUME NEW q \in Plugins, NEW s \in States, Configure(q, s)
        PROVE  Goal
    <2>1. /\ UNCHANGED <<fPluginPtr, overtaken, running, config>> /\ crossed \subseteq crossed'
          /\ \A u \in Callers : pc'[u] = pc[u] /\ call'[u] = call[u]
          /\ call'[Admin] = [NoCall EXCEPT !.plugin = q, !.ptr = fPluginPtr[q], !.new = s]
          /\ pc'[Admin] = "tell_plugin"
      BY <1>0, <1>4 DEF Configure
    <2>2. call'[Admin].plugin = q /\ call'[Admin].ptr = fPluginPtr[q]
      BY <2>1 DEF NoCall
    <2>3. QED
      BY <1>2, <2>1, <2>2
  <1>5. CASE ConfigureTells \/ ConfigureSets
    <2>1. pc[Admin] # "idle" /\ call[Admin].plugin \in Plugins
      BY <1>5 DEF ConfigureTells, ConfigureSets, Shape, ThreadsOK
    <2>2. /\ UNCHANGED <<fPluginPtr, overtaken, crossed>>
          /\ \A u \in Callers : pc'[u] = pc[u] /\ call'[u] = call[u]
          /\ pc'[Admin] = "idle" \/ (call'[Admin] = call[Admin] /\ ConfigureTells)
          /\ p # call[Admin].plugin => running'[p] = running[p] /\ config'[p] = config[p]
      BY <1>0, <1>5, <2>1 DEF ConfigureTells, ConfigureSets
    <2>3. Straight(p)
      BY <2>2 DEF Straight
    <2>4. p = call[Admin].plugin =>
            /\ \A u \in Callers : ~(Tells(u) /\ call[u].plugin = p)
            /\ call[Admin].ptr = fPluginPtr[p]
      BY <2>1, <2>3 DEF Tells, Crossings, Straight, Telling
    <2>5. ASSUME NEW u \in Callers, (Tells(u) /\ call[u].plugin = p)'
          PROVE  /\ Bringing(u, p)'
                 /\ call'[u].new = config'[p]
                 /\ pc'[u] = "tell_daemon" => running'[p] = config'[p]
      <3>1. pc'[u] = pc[u] /\ call'[u] = call[u] /\ Tells(u) /\ call[u].plugin = p
        BY <2>2, <2>5 DEF Tells
      <3>2. p # call[Admin].plugin
        BY <2>4, <3>1
      <3>3. /\ Bringing(u, p) /\ call[u].new = config[p]
            /\ pc[u] = "tell_daemon" => running[p] = config[p]
        BY <2>3, <3>1 DEF Telling
      <3>4. QED
        BY <2>2, <3>1, <3>2, <3>3 DEF Bringing
    <2>6. ASSUME pc'[Admin] # "idle", call'[Admin].plugin = p
          PROVE  /\ call'[Admin].ptr = fPluginPtr'[p]
                 /\ fPluginPtr'[p] # NULL => running'[p] = call'[Admin].new
      <3>1. call'[Admin] = call[Admin] /\ ConfigureTells /\ p = call[Admin].plugin
        BY <2>2, <2>6
      <3>2. fPluginPtr[p] # NULL => running' = [running EXCEPT ![p] = call[Admin].new]
        BY <2>4, <3>1 DEF ConfigureTells
      <3>3. QED
        BY <1>0, <2>2, <2>4, <3>1, <3>2
    <2>7. QED
      BY <2>5, <2>6
  <1>6. CASE UNCHANGED vars
    <2>1. /\ UNCHANGED <<fPluginPtr, overtaken, crossed, running, config, pc, call>>
      BY <1>6 DEF vars
    <2>2. Straight(p)
      BY <2>1 DEF Straight
    <2>3. QED
      BY <2>1, <2>2 DEF Tells, Bringing, Telling
  <1>7. QED
    BY <1>1, <1>3, <1>4, <1>5, <1>6 DEF Next

LEMMA NextSettled ==
  /\ Shape /\ ToldOK /\ Crossings /\ StillWanted /\ Sole /\ Telling /\ Settled /\ [Next]_vars
  => Settled'
  <1> SUFFICES ASSUME Shape, ToldOK, Crossings, StillWanted, Sole, Telling, Settled,
                      [Next]_vars, NEW p \in Plugins, Straight(p)', fPluginPtr'[p] # NULL
               PROVE  \/ \E t \in Callers : (Tells(t) /\ call[t].plugin = p)'
                      \/ HalfConfigured(p)'
                      \/ Agreed(p)'
    BY DEF Settled
  <1> DEFINE Goal == \/ \E t \in Callers : (Tells(t) /\ call[t].plugin = p)'
                     \/ HalfConfigured(p)'
                     \/ Agreed(p)'
  <1>0. /\ pc = [u \in Thread |-> pc[u]] /\ call = [u \in Thread |-> call[u]]
        /\ Admin \in Thread /\ Callers \subseteq Thread /\ Admin \notin Callers
        /\ config \in [Plugins -> States] /\ running \in [Plugins -> States \cup {NULL}]
        /\ enabled \in [Plugins -> States]
        /\ \A u \in Thread : call[u] \in Call
    BY DEF Shape, TableOK, ToldOK, ThreadsOK, Thread
  <1>1. ASSUME NEW t \in Callers, Request(t)
        PROVE  Goal
    <2>1. /\ UNCHANGED <<config, crossed>> /\ overtaken \subseteq overtaken'
          /\ p # call[t].plugin \/ ~Merge(t) => fPluginPtr'[p] = fPluginPtr[p]
          /\ p # call[t].plugin \/ ~TellPlugin(t) => running'[p] = running[p]
          /\ p # call[t].plugin \/ ~TellDaemon(t) => enabled'[p] = enabled[p]
      BY <1>1, Restates
    <2>2. Straight(p)
      BY <2>1 DEF Straight
    <2>3. \A u \in Thread \ {t} : pc'[u] = pc[u] /\ call'[u] = call[u]
      BY <1>1, Alone DEF Shape
    <2>4. pc'[Admin] = pc[Admin] /\ call'[Admin] = call[Admin]
      BY <1>0, <2>3
    <2>5. CASE call[t].plugin # p
      <3>1. \/ \E u \in Callers : Tells(u) /\ call[u].plugin = p
            \/ HalfConfigured(p)
            \/ Agreed(p)
        BY <2>1, <2>2, <2>5 DEF Settled
      <3>2. CASE \E u \in Callers : Tells(u) /\ call[u].plugin = p
        <4>1. PICK u \in Callers : Tells(u) /\ call[u].plugin = p
          BY <3>2
        <4>2. u # t /\ u \in Thread
          BY <1>0, <2>5, <4>1
        <4>3. QED
          BY <2>3, <4>1, <4>2 DEF Tells
      <3>3. CASE HalfConfigured(p)
        BY <2>1, <2>4, <2>5, <3>3 DEF HalfConfigured
      <3>4. CASE Agreed(p)
        BY <2>1, <2>5, <3>4 DEF Agreed
      <3>5. QED
        BY <3>1, <3>2, <3>3, <3>4
    <2>6. CASE call[t].plugin = p /\ Merge(t)
      <3>1. CASE Answer(t, NULL) /\ (IF Merges(t) THEN call[t].ptr ELSE fPluginPtr[p]) = NULL
        <4>1. fPluginPtr'[p] = NULL
          BY <1>0, <2>6, <3>1 DEF Merge, Shape, TableOK
        <4>2. QED
          BY <4>1
      <3>2. CASE call' = [call EXCEPT ![t].new = NewState(t)] /\ Goto(t, "tell_plugin")
        <4>1. pc'[t] = "tell_plugin" /\ call'[t].plugin = p
          BY <1>0, <2>6, <3>2 DEF Call
        <4>2. QED
          BY <4>1 DEF Tells
      <3>3. QED
        BY <2>6, <3>1, <3>2 DEF Merge
    <2>7. CASE call[t].plugin = p /\ TellPlugin(t)
      <3>1. pc'[t] = "tell_daemon" /\ call'[t].plugin = p
        BY <1>0, <2>7 DEF TellPlugin
      <3>2. QED
        BY <3>1 DEF Tells
    <2>8. CASE call[t].plugin = p /\ TellDaemon(t)
      <3>1. call[t].new = config[p] /\ running[p] = config[p]
        BY <2>2, <2>8 DEF Telling, Tells, TellDaemon
      <3>2. running' = running /\ enabled'[p] = config[p]
        <4>1. config[p] \in States
          BY <1>0
        <4>2. enabled' = [enabled EXCEPT ![p] = IF config[p] = "active" THEN "active" ELSE "inactive"]
              /\ UNCHANGED running
          BY <2>8, <3>1 DEF TellDaemon
        <4>3. QED
          BY <1>0, <4>1, <4>2 DEF States
      <3>3. QED
        BY <2>1, <3>1, <3>2 DEF Agreed
    <2>9. CASE call[t].plugin = p /\ ~Merge(t) /\ ~TellPlugin(t) /\ ~TellDaemon(t)
      <3>1. /\ fPluginPtr'[p] = fPluginPtr[p] /\ running'[p] = running[p]
            /\ enabled'[p] = enabled[p] /\ config'[p] = config[p]
        BY <2>1, <2>9
      <3>2. \/ \E u \in Callers : Tells(u) /\ call[u].plugin = p
            \/ HalfConfigured(p)
            \/ Agreed(p)
        BY <2>2, <3>1 DEF Settled
      <3>3. CASE \E u \in Callers : Tells(u) /\ call[u].plugin = p
        <4>1. PICK u \in Callers : Tells(u) /\ call[u].plugin = p
          BY <3>3
        <4>2. ~Tells(t)
          BY <1>1, <2>9 DEF Request, LookUp, LockNodeList, Load, Initialize, Tells
        <4>3. u # t /\ u \in Thread
          BY <1>0, <4>1, <4>2
        <4>4. QED
          BY <2>3, <4>1, <4>3 DEF Tells
      <3>4. CASE HalfConfigured(p)
        BY <2>4, <3>1, <3>4 DEF HalfConfigured
      <3>5. CASE Agreed(p)
        BY <3>1, <3>5 DEF Agreed
      <3>6. QED
        BY <3>2, <3>3, <3>4, <3>5
    <2>10. QED
      BY <2>5, <2>6, <2>7, <2>8, <2>9
  \* Nothing happens to p.
  <1>2. ASSUME UNCHANGED <<fPluginPtr, overtaken>>, crossed \subseteq crossed',
               running'[p] = running[p], config'[p] = config[p], enabled'[p] = enabled[p],
               \A u \in Callers : Tells(u) => pc'[u] = pc[u] /\ call'[u] = call[u],
               HalfConfigured(p) => HalfConfigured(p)'
        PROVE  Goal
    <2>1. Straight(p)
      BY <1>2 DEF Straight
    <2>2. \/ \E u \in Callers : Tells(u) /\ call[u].plugin = p
          \/ HalfConfigured(p)
          \/ Agreed(p)
      BY <1>2, <2>1 DEF Settled
    <2>3. QED
      BY <1>2, <2>2 DEF Tells, Agreed
  <1>3. ASSUME NEW t \in Callers, NEW q \in Plugins, NEW via \in Vias, Begin(t, q, via)
        PROVE  Goal
    <2>1. /\ UNCHANGED <<fPluginPtr, overtaken, running, enabled, config>>
          /\ crossed \subseteq crossed' /\ pc[t] = "idle"
          /\ \A u \in Thread \ {t} : pc'[u] = pc[u] /\ call'[u] = call[u]
      BY <1>0, <1>3 DEF Begin
    <2>2. pc'[Admin] = pc[Admin] /\ call'[Admin] = call[Admin]
      BY <1>0, <2>1
    <2>3. ASSUME NEW u \in Callers, Tells(u)
          PROVE  pc'[u] = pc[u] /\ call'[u] = call[u]
      <3>1. u # t
        BY <2>1, <2>3 DEF Tells
      <3>2. QED
        BY <1>0, <2>1, <3>1
    <2>4. HalfConfigured(p) => HalfConfigured(p)'
      BY <2>1, <2>2 DEF HalfConfigured
    <2>5. QED
      BY <1>2, <2>1, <2>3, <2>4
  <1>4. ASSUME NEW q \in Plugins, NEW s \in States, Configure(q, s)
        PROVE  Goal
    <2>1. /\ UNCHANGED <<fPluginPtr, overtaken, running, enabled, config>>
          /\ crossed \subseteq crossed' /\ pc[Admin] = "idle"
          /\ \A u \in Callers : pc'[u] = pc[u] /\ call'[u] = call[u]
      BY <1>0, <1>4 DEF Configure
    <2>2. ~HalfConfigured(p)
      BY <2>1 DEF HalfConfigured
    <2>3. QED
      BY <1>2, <2>1, <2>2
  <1>5. CASE ConfigureTells \/ ConfigureSets
    <2> DEFINE q == call[Admin].plugin
    <2>1. /\ pc[Admin] # "idle" /\ q \in Plugins /\ call[Admin].new \in States
          /\ UNCHANGED <<fPluginPtr, overtaken, crossed>>
          /\ \A u \in Callers : pc'[u] = pc[u] /\ call'[u] = call[u]
      BY <1>0, <1>5 DEF ConfigureTells, ConfigureSets, Shape, ThreadsOK
    <2>2. CASE q # p
      <3>1. running'[p] = running[p] /\ config'[p] = config[p] /\ enabled'[p] = enabled[p]
        BY <1>0, <1>5, <2>1, <2>2 DEF ConfigureTells, ConfigureSets
      <3>2. ~HalfConfigured(p)
        BY <2>2 DEF HalfConfigured
      <3>3. QED
        BY <1>2, <2>1, <3>1, <3>2
    <2>3. CASE q = p /\ ConfigureTells
      <3>1. call[Admin].ptr = fPluginPtr[p]
        BY <2>1, <2>3 DEF Telling, Straight
      <3>2. call[Admin].ptr # NULL
        BY <2>1, <3>1
      <3>3. pc'[Admin] = "tell_daemon" /\ call'[Admin] = call[Admin]
            /\ running'[p] = call[Admin].new
        BY <1>0, <2>1, <2>3, <3>2 DEF ConfigureTells
      <3>4. QED
        BY <2>3, <3>3 DEF HalfConfigured
    <2>4. CASE q = p /\ ConfigureSets
      <3>1. Straight(p) /\ fPluginPtr[p] # NULL
        BY <2>1 DEF Straight
      <3>2. call[Admin].plugin = p
        BY <2>4
      <3>3. running[p] = call[Admin].new
        BY <2>4, <3>1, <3>2 DEF Telling, ConfigureSets
      <3>4. enabled'[p] = call[Admin].new /\ config'[p] = call[Admin].new
            /\ running' = running
        BY <1>0, <2>1, <2>4 DEF ConfigureSets
      <3>5. QED
        BY <3>3, <3>4 DEF Agreed
    <2>5. QED
      BY <1>5, <2>2, <2>3, <2>4
  <1>6. CASE UNCHANGED vars
    <2>1. UNCHANGED <<fPluginPtr, overtaken, crossed, running, enabled, config, pc, call>>
      BY <1>6 DEF vars
    <2>2. QED
      BY <1>2, <2>1 DEF HalfConfigured
  <1>7. QED
    BY <1>1, <1>3, <1>4, <1>5, <1>6 DEF Next

\* However requests, loads and changes of the configuration interleave, a
\* plug-in that nobody is busy with has been told the configured state, and so
\* has opendirectoryd (SetPluginState after the merge of GetPlugInPtr, and
\* CPluginConfig::SetPluginState), unless a request was overtaken by the one
\* that loaded the plug-in or met a change of its configuration.
THEOREM StateAgreedCorrect ==
  ASSUME IsFiniteSet(Plugins), Cardinality(Plugins) <= MaxLazy
  PROVE  Spec => []StateAgreed
  <1> DEFINE Inv == /\ Shape /\ ToldOK /\ Once /\ Crossings /\ StillWanted /\ Progress
                    /\ Sole /\ Telling /\ Settled
  <1>1. Init => Inv
    BY InitShape, InitOnce, InitNotLost, InitSettled DEF Init, ToldOK
  <1>2. Inv /\ [Next]_vars => Inv'
    BY NextShape, NextTold, NextOnce, NextCrossings, NextStillWanted, NextProgress,
       NextSole, NextTelling, NextSettled
  <1>3. Inv => StateAgreed
    BY DEF Settled, Straight, HalfConfigured, Agreed, StateAgreed
  <1> HIDE DEF Inv
  <1>4. QED
    BY <1>1, <1>2, <1>3, PTL DEF Spec
=============================================================================
