-------------------------- MODULE Connections_proofs --------------------------
(* Proofs about the connections of the client library, for any number of     *)
(* threads and connections and any shape of the map: a reference of a sound   *)
(* connection stands for what it was opened as, and nothing is held in vain.  *)
EXTENDS Connections, WellFoundedInduction, TLAPS

-----------------------------------------------------------------------------
(***************************************************************************)
(* Numbers.                                                                *)
(***************************************************************************)
Below == {p \in Nat \X Nat : p[1] < p[2]}
LEMMA BelowIsWellFounded == IsWellFoundedOn(Below, Nat)
  BY NatLessThanWellFounded DEF OpToRel, Below

\* A set of numbers has a smallest one: what induction is done with here.
LEMMA Smallest ==
  ASSUME NEW S, S \subseteq Nat, S # {}
  PROVE  \E x \in S : \A y \in S : x <= y
<1>1. \E x \in S : \A y \in S : ~ (<<y, x>> \in Below)
  BY BelowIsWellFounded, WFMin, Zenon
<1>2. PICK x \in S : \A y \in S : ~ (<<y, x>> \in Below)
  BY <1>1
<1>3. ASSUME NEW y \in S PROVE x <= y
  <2>1. <<y, x>> \notin Below
    BY <1>2
  <2>2. x \in Nat /\ y \in Nat
    OBVIOUS
  <2>3. y < x => <<y, x>> \in Below
    BY <2>2 DEF Below
  <2> QED BY <2>1, <2>2, <2>3
<1> QED BY <1>3

-----------------------------------------------------------------------------
(***************************************************************************)
(* The invariant.                                                          *)
(***************************************************************************)
Types == {"dir", "node", "record", "list", "value"}

\* In the map a reference is below one that can be opened below.
Placed(m, r) ==
  /\ r # <<>> /\ m[r].index \in Ends /\ m[r].type \in Types
  /\ IF m[r].type = "dir" THEN m[r].parent = <<>>
     ELSE LET above == m[r].parent
          IN /\ above \in DOMAIN m /\ m[r].type \in Opens[m[above].type]
             /\ m[above].index = m[r].index
IsTree(m) == \A r \in DOMAIN m : Placed(m, r)

\* A call has the reference it found, and knows what is above it.
Uses(c) == c.at \in {"located", "lost"}
CallIn(m, c) ==
  /\ c.at \in {"idle", "opening", "located", "counting", "lost"}
  /\ c.at \in {"opening", "counting"} => c.index \in Ends
  /\ c.at = "lost" => c.index \in Remote
  /\ Uses(c) => /\ c.ref \in DOMAIN m
                /\ m[c.ref].type = c.type /\ m[c.ref].index = c.index
                /\ c.op \in Opens[c.type] \cup {"close"}
                /\ Line(m, c.ref) \cap DOMAIN m \subseteq c.line
\* No call closes what another uses.
ApartIn(m, c, d) == Uses(c) /\ Uses(d) /\ c.op = "close" => c.ref \notin Line(m, d.ref)
CallsOK == /\ \A t \in Threads : CallIn(fwMap, calling[t])
           /\ \A t, u \in Threads : t # u => ApartIn(fwMap, calling[t], calling[u])

Shape ==
  /\ gMessageTable \in [Ends -> BOOLEAN] /\ gDSConnections \in [Ends -> Nat]
  /\ issued \in [Ends -> Nat]
  /\ far = [i \in Ends |-> far[i]] /\ answers = [i \in Ends |-> answers[i]]
  /\ calling = [t \in Threads |-> calling[t]]
  /\ broken \subseteq Ends /\ spoilt \subseteq Ends /\ leaked \subseteq Ends
  /\ \A i \in Ends : DOMAIN far[i] \subseteq 1..issued[i]

\* What a connection is open for, besides the references that are mapped.
Holds(t, i) == calling[t].index = i /\ calling[t].at \in {"opening", "counting"}
Lost(t, i) == calling[t].index = i /\ calling[t].at = "lost"
Known(r, i) == r \in DOMAIN fwMap /\ fwMap[r].index = i

\* A connection that was not closed with references mapped.
EndOK(i) ==
  i \notin spoilt =>
    /\ \A r : Known(r, i) => gMessageTable[i]
    /\ i \in broken \/ answers[i] # <<>> => \E t \in Threads : Lost(t, i)
    /\ \A t \in Threads : Holds(t, i) => gMessageTable[i]
    /\ i \in Remote =>
         /\ \A t, u \in Threads : Holds(t, i) /\ Holds(u, i) => t = u
         /\ \A t \in Threads : \A r : ~(Holds(t, i) /\ Known(r, i))
         /\ \A r, q : /\ Known(r, i) /\ fwMap[r].type = "dir"
                      /\ Known(q, i) /\ fwMap[q].type = "dir"
                      => r = q
         /\ i \notin leaked =>
              gDSConnections[i] = IF gMessageTable[i] THEN 1 % kWord ELSE 0

\* The references of a sound one.
RefsOK(i) ==
  /\ \A r : Known(r, i) =>
       LET n == fwMap[r].remote
       IN /\ n \in 1..issued[i]
          /\ n \in DOMAIN far[i] => far[i][n] = Seen(r)
          /\ n \in DOMAIN far[i] \/ fwMap[r].type = "value"
  /\ \A r, q : Known(r, i) /\ Known(q, i) /\ fwMap[r].remote = fwMap[q].remote => r = q
HeldOK(i) ==
  i \notin leaked =>
    /\ \A n \in DOMAIN far[i] :
         far[i][n].type = "value" \/ \E r : Known(r, i) /\ fwMap[r].remote = n
    /\ i \in Remote /\ gMessageTable[i] =>
         (\E r : Known(r, i)) \/ \E t \in Threads : Holds(t, i)
TheEnd(i) == EndOK(i) /\ (Sound(i) => RefsOK(i) /\ HeldOK(i))

IInv ==
  /\ Shape /\ IsTree(fwMap) /\ CallsOK
  /\ \A i \in Ends : TheEnd(i)
  /\ crashed = 0 \/ crashed \in spoilt

-----------------------------------------------------------------------------
(***************************************************************************)
(* Lines and trees.                                                        *)
(***************************************************************************)
LEMMA OpensMeans ==
  ASSUME NEW a \in Types, NEW b \in Opens[a]
  PROVE  /\ b \in Types
         /\ \/ b = "node" /\ a = "dir"
            \/ b \in {"record", "list"} /\ a = "node"
            \/ b = "value" /\ a = "list"
<1>1. /\ Opens["dir"] = {"node"} /\ Opens["node"] = {"record", "list"}
      /\ Opens["list"] = {"value"} /\ Opens["record"] = {} /\ Opens["value"] = {}
  BY DEF Opens
<1> QED BY <1>1 DEF Types

Above1(m, r) == IF r \in DOMAIN m THEN {m[r].parent} ELSE {}
Above2(m, r) == UNION {Above1(m, x) : x \in Above1(m, r)}
Above3(m, r) == UNION {Above1(m, x) : x \in Above2(m, r)}

LEMMA LineIs ==
  ASSUME NEW m, NEW r, NEW x
  PROVE  x \in Line(m, r) <=>
           x = r \/ x \in Above1(m, r) \/ x \in Above2(m, r) \/ x \in Above3(m, r)
<1> DEFINE up(S) == S \cup {m[y].parent : y \in S \cap DOMAIN m}
<1>1. ASSUME NEW S, NEW z
      PROVE  z \in up(S) <=> z \in S \/ \E y \in S : z \in Above1(m, y)
  BY DEF Above1
<1>2. Line(m, r) = up(up(up({r})))
  BY DEF Line
<1>3. ASSUME NEW z PROVE z \in Above2(m, r) <=> \E y \in Above1(m, r) : z \in Above1(m, y)
  BY DEF Above2
<1>4. ASSUME NEW z PROVE z \in Above3(m, r) <=> \E y \in Above2(m, r) : z \in Above1(m, y)
  BY DEF Above3
<1> HIDE DEF up
<1>5. ASSUME NEW z PROVE z \in up({r}) <=> z = r \/ z \in Above1(m, r)
  BY <1>1
<1>6. ASSUME NEW z
      PROVE  z \in up(up({r})) <=> z = r \/ z \in Above1(m, r) \/ z \in Above2(m, r)
  BY <1>1, <1>3, <1>5
<1>7. x \in up(up(up({r}))) <=>
        x = r \/ x \in Above1(m, r) \/ x \in Above2(m, r) \/ x \in Above3(m, r)
  BY <1>1, <1>3, <1>4, <1>6
<1> QED BY <1>2, <1>7

LEMMA LineHasSelf == ASSUME NEW m, NEW r PROVE r \in Line(m, r)
BY LineIs

\* A set that has r and what is above what it has, has the line of r.
LEMMA LineWithin ==
  ASSUME NEW m, NEW r, NEW S, r \in S,
         \A x \in S : x \in DOMAIN m => m[x].parent \in S
  PROVE  Line(m, r) \subseteq S
<1>1. \A x \in S : Above1(m, x) \subseteq S
  BY DEF Above1
<1>2. Above1(m, r) \subseteq S
  BY <1>1
<1>3. Above2(m, r) \subseteq S
  BY <1>1, <1>2 DEF Above2
<1>4. Above3(m, r) \subseteq S
  BY <1>1, <1>3 DEF Above3
<1> QED BY <1>2, <1>3, <1>4, LineIs

LEMMA TreeMeans ==
  ASSUME NEW m, IsTree(m), NEW r \in DOMAIN m
  PROVE  /\ r # <<>> /\ m[r].index \in Ends /\ m[r].type \in Types
         /\ m[r].type = "dir" => m[r].parent = <<>>
         /\ m[r].type # "dir" =>
              /\ m[r].parent \in DOMAIN m /\ m[m[r].parent].index = m[r].index
              /\ m[r].type \in Opens[m[m[r].parent].type]
              /\ \/ m[r].type = "node" /\ m[m[r].parent].type = "dir"
                 \/ m[r].type \in {"record", "list"} /\ m[m[r].parent].type = "node"
                 \/ m[r].type = "value" /\ m[m[r].parent].type = "list"
         /\ <<>> \notin DOMAIN m
<1>1. Placed(m, r) /\ (m[r].parent \in DOMAIN m => Placed(m, m[r].parent))
  BY DEF IsTree
<1>2. <<>> \notin DOMAIN m
  BY DEF IsTree, Placed
<1>3. CASE m[r].type # "dir"
  <2>1. /\ m[r].parent \in DOMAIN m /\ m[m[r].parent].type \in Types
        /\ m[r].type \in Opens[m[m[r].parent].type]
    BY <1>1, <1>3 DEF Placed
  <2> QED BY <1>1, <1>2, <1>3, <2>1, OpensMeans DEF Placed
<1>4. CASE m[r].type = "dir"
  BY <1>1, <1>2, <1>4 DEF Placed
<1> QED BY <1>3, <1>4

\* From a reference to its directory there are at most three steps.
LEMMA LineGoesUp ==
  ASSUME NEW m, IsTree(m), NEW r \in DOMAIN m,
         NEW x \in DOMAIN m, x \in Line(m, r), m[x].type # "dir"
  PROVE  m[x].parent \in Line(m, r)
<1> DEFINE p == m[r].parent
           q == m[p].parent
           s == m[q].parent
<1>1. x = r \/ x \in Above1(m, r) \/ x \in Above2(m, r) \/ x \in Above3(m, r)
  BY LineIs
<1>2. p \in Above1(m, r)
  BY DEF Above1
<1>3. p \in DOMAIN m => q \in Above2(m, r)
  BY <1>2 DEF Above1, Above2
<1>4. p \in DOMAIN m /\ q \in DOMAIN m => s \in Above3(m, r)
  BY <1>3 DEF Above1, Above3
<1>5. CASE x = r
  BY <1>2, <1>5, LineIs
<1>6. CASE x \in Above1(m, r)
  <2>1. x = p
    BY <1>6 DEF Above1
  <2> QED BY <1>3, <2>1, LineIs
<1>7. CASE x \in Above2(m, r)
  <2>1. p \in DOMAIN m /\ x = q
    <3>1. PICK y \in Above1(m, r) : x \in Above1(m, y)
      BY <1>7 DEF Above2
    <3>2. y = p
      BY <3>1 DEF Above1
    <3> QED BY <3>1, <3>2 DEF Above1
  <2> QED BY <1>4, <2>1, LineIs
<1>8. CASE x \in Above3(m, r)
  <2>1. p \in DOMAIN m /\ q \in DOMAIN m /\ x = s
    <3>1. PICK z \in Above2(m, r) : x \in Above1(m, z)
      BY <1>8 DEF Above3
    <3>2. PICK y \in Above1(m, r) : z \in Above1(m, y)
      BY <3>1 DEF Above2
    <3>3. y = p
      BY <3>2 DEF Above1
    <3>4. p \in DOMAIN m /\ z = q
      BY <3>2, <3>3 DEF Above1
    <3> QED BY <3>1, <3>4 DEF Above1
  <2>2. m[r].type # "dir" /\ m[p].type # "dir" /\ m[q].type # "dir"
    <3>1. m[r].type # "dir"
      BY <2>1, TreeMeans
    <3>2. m[p].type # "dir"
      BY <2>1, TreeMeans
    <3> QED BY <2>1, <3>1, <3>2, TreeMeans
  <2>3. m[r].type = "value" /\ m[p].type = "list" /\ m[q].type = "node"
    <3>1. /\ \/ m[r].type = "node" /\ m[p].type = "dir"
             \/ m[r].type \in {"record", "list"} /\ m[p].type = "node"
             \/ m[r].type = "value" /\ m[p].type = "list"
      BY <2>1, <2>2, TreeMeans
    <3>2. /\ \/ m[p].type = "node" /\ m[q].type = "dir"
             \/ m[p].type \in {"record", "list"} /\ m[q].type = "node"
             \/ m[p].type = "value" /\ m[q].type = "list"
      BY <2>1, <2>2, TreeMeans
    <3> QED BY <2>2, <3>1, <3>2
  <2>4. m[s].type = "dir"
    BY <2>1, <2>3, TreeMeans
  <2> QED BY <2>1, <2>4
<1> QED BY <1>1, <1>5, <1>6, <1>7, <1>8

\* A line stays with one connection, and ends with a directory reference.
LEMMA LineIsOfOne ==
  ASSUME NEW m, IsTree(m), NEW r \in DOMAIN m
  PROVE  /\ Line(m, r) \subseteq {x \in DOMAIN m : m[x].index = m[r].index} \cup {<<>>}
         /\ \E d \in Line(m, r) \cap DOMAIN m : m[d].type = "dir" /\ m[d].index = m[r].index
<1> DEFINE S == {x \in DOMAIN m : m[x].index = m[r].index} \cup {<<>>}
<1>1. ASSUME NEW x \in S, x \in DOMAIN m PROVE m[x].parent \in S
  BY <1>1, TreeMeans
<1>2. r \in S
  OBVIOUS
<1> HIDE DEF S
<1>3. Line(m, r) \subseteq S
  BY <1>1, <1>2, LineWithin
<1>4. ASSUME \A d \in Line(m, r) \cap DOMAIN m : m[d].type # "dir"
      PROVE  FALSE
  <2> DEFINE p == m[r].parent
             q == m[p].parent
             s == m[q].parent
  <2>1. r \in Line(m, r) /\ m[r].type # "dir"
    BY <1>4, LineHasSelf
  <2>2. p \in Line(m, r) /\ p \in DOMAIN m /\ m[p].type # "dir"
    BY <1>4, <2>1, LineGoesUp, TreeMeans
  <2>3. q \in Line(m, r) /\ q \in DOMAIN m /\ m[q].type # "dir"
    BY <1>4, <2>2, LineGoesUp, TreeMeans
  <2>4. s \in Line(m, r) /\ s \in DOMAIN m /\ m[s].type # "dir"
    BY <1>4, <2>3, LineGoesUp, TreeMeans
  <2>5. \/ m[r].type = "node" /\ m[p].type = "dir"
        \/ m[r].type \in {"record", "list"} /\ m[p].type = "node"
        \/ m[r].type = "value" /\ m[p].type = "list"
    BY <2>1, TreeMeans
  <2>6. \/ m[p].type = "node" /\ m[q].type = "dir"
        \/ m[p].type \in {"record", "list"} /\ m[q].type = "node"
        \/ m[p].type = "value" /\ m[q].type = "list"
    BY <2>2, TreeMeans
  <2>7. \/ m[q].type = "node" /\ m[s].type = "dir"
        \/ m[q].type \in {"record", "list"} /\ m[s].type = "node"
        \/ m[q].type = "value" /\ m[s].type = "list"
    BY <2>3, TreeMeans
  <2> QED BY <2>1, <2>2, <2>3, <2>4, <2>5, <2>6, <2>7
<1>5. PICK d \in Line(m, r) \cap DOMAIN m : m[d].type = "dir"
  BY <1>4
<1>6. d # <<>>
  BY <1>5, TreeMeans
<1> QED BY <1>3, <1>5, <1>6 DEF S

-----------------------------------------------------------------------------
(***************************************************************************)
(* How the map changes.                                                    *)
(***************************************************************************)
Added(m, n, r, e) ==
  /\ r # <<>> /\ r \notin DOMAIN m /\ DOMAIN n = DOMAIN m \cup {r}
  /\ n[r] = e /\ \A x \in DOMAIN m : n[x] = m[x]
Removed(m, n, r) ==
  /\ DOMAIN n = {y \in DOMAIN m : r \notin Line(m, y)}
  /\ \A x \in DOMAIN n : n[x] = m[x]

\* What is in both is the same, in a line that has nothing new.
Keeps(m, n) ==
  \A x \in DOMAIN m \cap DOMAIN n :
    n[x] = m[x] /\ Line(n, x) \cap DOMAIN n \subseteq Line(m, x) \cap DOMAIN m

Fits(m, e) ==
  /\ e.index \in Ends /\ e.type \in Types
  /\ IF e.type = "dir" THEN e.parent = <<>>
     ELSE /\ e.parent \in DOMAIN m /\ e.type \in Opens[m[e.parent].type]
          /\ m[e.parent].index = e.index

LEMMA KeepsSelf == ASSUME NEW m PROVE Keeps(m, m)
BY DEF Keeps

LEMMA AddedKeeps ==
  ASSUME NEW m, NEW n, NEW r, NEW e, IsTree(m), Added(m, n, r, e), Fits(m, e)
  PROVE  IsTree(n) /\ Keeps(m, n)
<1>1. ASSUME NEW x \in DOMAIN m
      PROVE  Line(n, x) \cap DOMAIN n \subseteq Line(m, x) \cap DOMAIN m
  <2> DEFINE S == (Line(m, x) \cap DOMAIN m) \cup {<<>>}
  <2>0. <<>> \notin DOMAIN n
    BY TreeMeans DEF Added
  <2>1. ASSUME NEW y \in S, y \in DOMAIN n PROVE n[y].parent \in S
    <3>1. y \in DOMAIN m /\ y \in Line(m, x) /\ n[y] = m[y]
      BY <2>0, <2>1 DEF Added
    <3>2. m[y].type = "dir" => m[y].parent = <<>>
      BY <3>1, TreeMeans
    <3>3. m[y].type # "dir" => m[y].parent \in DOMAIN m
      BY <3>1, TreeMeans
    <3>4. m[y].type # "dir" => m[y].parent \in Line(m, x)
      BY <3>1, LineGoesUp
    <3> QED BY <3>1, <3>2, <3>3, <3>4
  <2>2. x \in S
    BY LineHasSelf
  <2>3. Line(n, x) \subseteq S
    <3> HIDE DEF S
    <3> QED BY <2>1, <2>2, LineWithin
  <2> QED BY <2>0, <2>3
<1>2. Keeps(m, n)
  BY <1>1 DEF Keeps, Added
<1>3. ASSUME NEW x \in DOMAIN m PROVE Placed(n, x)
  <2>1. n[x] = m[x] /\ Placed(m, x)
    BY DEF Added, IsTree
  <2>2. m[x].type # "dir" => m[x].parent \in DOMAIN n /\ n[m[x].parent] = m[m[x].parent]
    BY <2>1 DEF Placed, Added
  <2> QED BY <2>1, <2>2 DEF Placed
<1>4. Placed(n, r)
  BY DEF Placed, Fits, Added
<1>5. IsTree(n)
  BY <1>3, <1>4 DEF IsTree, Added
<1> QED BY <1>2, <1>5

LEMMA RemovedKeeps ==
  ASSUME NEW m, NEW n, NEW r \in DOMAIN m, IsTree(m), Removed(m, n, r)
  PROVE  /\ IsTree(n) /\ Keeps(m, n) /\ DOMAIN n \subseteq DOMAIN m
         /\ \A x \in DOMAIN m : x \notin DOMAIN n => m[x].index = m[r].index
<1>1. DOMAIN n \subseteq DOMAIN m /\ \A x \in DOMAIN n : n[x] = m[x]
  BY DEF Removed
<1>2. ASSUME NEW x \in DOMAIN n
      PROVE  Line(n, x) \cap DOMAIN n \subseteq Line(m, x) \cap DOMAIN m
  <2> DEFINE S == Line(m, x) \cup {<<>>}
  <2>1. ASSUME NEW y \in S, y \in DOMAIN n PROVE n[y].parent \in S
    <3>1. y \in DOMAIN m /\ n[y] = m[y]
      BY <1>1, <2>1
    <3>2. y \in Line(m, x)
      BY <3>1, TreeMeans
    <3>3. m[y].type = "dir" => m[y].parent = <<>>
      BY <3>1, TreeMeans
    <3>4. m[y].type # "dir" => m[y].parent \in Line(m, x)
      BY <1>1, <3>1, <3>2, LineGoesUp
    <3> QED BY <3>1, <3>3, <3>4
  <2>2. x \in S
    BY LineHasSelf
  <2>3. Line(n, x) \subseteq S
    <3> HIDE DEF S
    <3> QED BY <2>1, <2>2, LineWithin
  <2>4. <<>> \notin DOMAIN m
    BY TreeMeans
  <2> QED BY <1>1, <2>3, <2>4
<1>3. Keeps(m, n)
  BY <1>1, <1>2 DEF Keeps
<1>4. ASSUME NEW x \in DOMAIN n, m[x].type # "dir" PROVE m[x].parent \in DOMAIN n
  <2>1. x \in DOMAIN m /\ r \notin Line(m, x)
    BY DEF Removed
  <2> DEFINE p == m[x].parent
             S == Line(m, x) \cup {<<>>}
  <2>2. p \in DOMAIN m
    BY <1>4, <2>1, TreeMeans
  <2>3. p \in S
    BY <1>4, <2>1, LineGoesUp, LineHasSelf
  <2>4. ASSUME NEW y \in S, y \in DOMAIN m PROVE m[y].parent \in S
    <3>1. y \in Line(m, x)
      BY <2>4, TreeMeans
    <3>2. m[y].type = "dir" => m[y].parent = <<>>
      BY <2>4, TreeMeans
    <3>3. m[y].type # "dir" => m[y].parent \in Line(m, x)
      BY <2>1, <2>4, <3>1, LineGoesUp
    <3> QED BY <3>2, <3>3
  <2>5. Line(m, p) \subseteq S
    <3> HIDE DEF S
    <3> QED BY <2>3, <2>4, LineWithin
  <2>6. r # <<>>
    BY TreeMeans
  <2> QED BY <2>1, <2>2, <2>5, <2>6 DEF Removed
<1>5. ASSUME NEW x \in DOMAIN n PROVE Placed(n, x)
  <2>1. n[x] = m[x] /\ Placed(m, x)
    BY <1>1 DEF IsTree
  <2>2. m[x].type # "dir" => m[x].parent \in DOMAIN n /\ n[m[x].parent] = m[m[x].parent]
    BY <1>1, <1>4
  <2> QED BY <2>1, <2>2 DEF Placed
<1>6. ASSUME NEW x \in DOMAIN m, x \notin DOMAIN n PROVE m[x].index = m[r].index
  <2>1. r \in Line(m, x)
    BY <1>6 DEF Removed
  <2>2. r \in {y \in DOMAIN m : m[y].index = m[x].index} \cup {<<>>}
    BY <2>1, LineIsOfOne
  <2>3. r # <<>>
    BY TreeMeans
  <2> QED BY <2>2, <2>3
<1> QED BY <1>1, <1>3, <1>5, <1>6 DEF IsTree

LEMMA CutRemoves ==
  ASSUME NEW m, NEW r
  PROVE  Removed(m, Cut(m, r), r)
BY DEF Cut, Removed

\* A new reference has a number that is not in the map, unless the map is full.
LEMMA NewRef ==
  ASSUME NEW e, GetNewRef(e), IsTree(fwMap)
  PROVE  \/ fwMap' = fwMap /\ leaked' = leaked \cup {e.index}
         \/ leaked' = leaked /\ \E r : Added(fwMap, fwMap', r, e)
<1> DEFINE fits == {n \in Tables : ~Full(n) /\ Empty(n) # {}}
           in == CHOOSE n \in fits \cup {kMaxFWTables + 1} : \A o \in fits : n <= o
           k == CHOOSE j \in Empty(in) : \A o \in Empty(in) : j <= o
           slot(x) == <<x[1], x[2] % kMaxFWTableItems>>
           ref == <<in, Numbers(place[in])[k]>>
           others == {x \in DOMAIN fwMap : slot(x) # slot(ref)}
<1>1. CASE fits = {}
  BY <1>1 DEF GetNewRef
<1>2. CASE fits # {}
  <2>1. /\ fwMap' = With([x \in others |-> fwMap[x]], ref, e)
        /\ leaked' = leaked
    BY <1>2 DEF GetNewRef
  <2>2. in \in fits
    <3>1. \E n \in fits : \A o \in fits : n <= o
      <4>1. fits \subseteq Nat /\ fits # {}
        BY <1>2 DEF Tables
      <4> HIDE DEF fits
      <4> QED BY <4>1, Smallest
    <3>2. \A n \in fits : n <= kMaxFWTables /\ n \in Nat
      BY ConnectionsAssumption DEF Tables
    <3>3. PICK n \in fits : \A o \in fits : n <= o
      BY <3>1
    <3>4. in \in fits \cup {kMaxFWTables + 1} /\ \A o \in fits : in <= o
      <4> HIDE DEF fits
      <4> QED BY <3>3
    <3>5. kMaxFWTables \in Nat
      BY ConnectionsAssumption
    <3> HIDE DEF fits, in
    <3> QED BY <3>2, <3>3, <3>4, <3>5
  <2>3. k \in Empty(in)
    <3>1. Empty(in) # {} /\ Empty(in) \subseteq Nat
      <4>1. Empty(in) # {}
        BY <2>2
      <4> HIDE DEF in
      <4> QED BY <4>1 DEF Empty
    <3>2. \E j \in Empty(in) : \A o \in Empty(in) : j <= o
      <4> HIDE DEF in
      <4> QED BY <3>1, Smallest
    <3> HIDE DEF in
    <3> QED BY <3>2
  <2>4. Numbers(place[in])[k] % kMaxFWTableItems \notin Taken(in)
    <3> HIDE DEF in, k
    <3> QED BY <2>3 DEF Empty
  <2> HIDE DEF in, k
  <2>5. ASSUME NEW x \in DOMAIN fwMap PROVE slot(x) # slot(ref)
    <3>1. ref[1] = in /\ ref[2] = Numbers(place[in])[k]
      OBVIOUS
    <3>2. ASSUME slot(x) = slot(ref) PROVE FALSE
      <4>1. x[1] = in /\ x[2] % kMaxFWTableItems = ref[2] % kMaxFWTableItems
        BY <3>1, <3>2
      <4>2. x[2] % kMaxFWTableItems \in Taken(in)
        BY <4>1 DEF Taken
      <4> QED BY <2>4, <3>1, <4>1, <4>2
    <3> QED BY <3>2
  <2>6. ref \notin DOMAIN fwMap
    BY <2>5
  <2>7. others = DOMAIN fwMap
    BY <2>5
  <2>8. ref # <<>>
    OBVIOUS
  <2> DEFINE m == [x \in others |-> fwMap[x]]
  <2>9. DOMAIN m = DOMAIN fwMap /\ \A x \in DOMAIN fwMap : m[x] = fwMap[x]
    BY <2>7
  <2>10. fwMap' = With(m, ref, e)
    BY <2>1
  <2> HIDE DEF ref, m, others
  <2>11. DOMAIN fwMap' = DOMAIN m \cup {ref} /\ fwMap'[ref] = e
         /\ \A x \in DOMAIN m : x # ref => fwMap'[x] = m[x]
    BY <2>10 DEF With
  <2>12. Added(fwMap, fwMap', ref, e)
    BY <2>6, <2>8, <2>9, <2>11 DEF Added
  <2> QED BY <2>1, <2>12
<1> QED BY <1>1, <1>2

-----------------------------------------------------------------------------
(***************************************************************************)
(* What a step of one call leaves alone.                                   *)
(***************************************************************************)

\* A call that has a connection changes nothing of the others.
Touches(t, i) ==
  /\ \A j \in Ends : j # i =>
       /\ gMessageTable'[j] = gMessageTable[j] /\ gDSConnections'[j] = gDSConnections[j]
       /\ far'[j] = far[j] /\ issued'[j] = issued[j] /\ answers'[j] = answers[j]
       /\ (j \in broken' <=> j \in broken) /\ (j \in spoilt' <=> j \in spoilt)
       /\ (j \in leaked' <=> j \in leaked)
  /\ \A u \in Threads : u # t => calling'[u] = calling[u]
  /\ calling[t].at # "idle" => calling[t].index = i
  /\ calling'[t].at # "idle" => calling'[t].index = i
  /\ Keeps(fwMap, fwMap')
  /\ \A r \in DOMAIN fwMap : r \notin DOMAIN fwMap' => fwMap[r].index = i
  /\ \A r \in DOMAIN fwMap' : r \notin DOMAIN fwMap => fwMap'[r].index = i

LEMMA SameSeen ==
  ASSUME NEW r, r \in DOMAIN fwMap, r \in DOMAIN fwMap', IsTree(fwMap), IsTree(fwMap'),
         Keeps(fwMap, fwMap')
  PROVE  Seen(r)' = Seen(r)
<1> DEFINE p == fwMap[r].parent
           q == fwMap[p].parent
<1>1. fwMap'[r] = fwMap[r]
  BY DEF Keeps
<1>2. CASE fwMap[r].type = "dir"
  BY <1>1, <1>2 DEF Seen
<1>3. CASE fwMap[r].type # "dir"
  <2>1. p \in DOMAIN fwMap /\ p \in DOMAIN fwMap'
    BY <1>1, <1>3, TreeMeans
  <2>2. fwMap'[p] = fwMap[p]
    BY <2>1 DEF Keeps
  <2>3. CASE fwMap[r].type # "value"
    BY <1>1, <1>3, <2>2, <2>3 DEF Seen
  <2>4. CASE fwMap[r].type = "value"
    <3>1. fwMap[p].type = "list"
      BY <1>3, <2>4, TreeMeans
    <3>2. q \in DOMAIN fwMap /\ q \in DOMAIN fwMap'
      BY <2>1, <2>2, <3>1, TreeMeans
    <3>3. fwMap'[q] = fwMap[q]
      BY <3>2 DEF Keeps
    <3> QED BY <1>1, <1>3, <2>2, <2>4, <3>3 DEF Seen
  <2> QED BY <2>3, <2>4
<1> QED BY <1>2, <1>3

LEMMA Untouched ==
  ASSUME IsTree(fwMap), IsTree(fwMap'), NEW t \in Threads, NEW i, Touches(t, i),
         NEW j \in Ends, j # i, TheEnd(j)
  PROVE  TheEnd(j)'
<1>1. ASSUME NEW r PROVE /\ Known(r, j)' <=> Known(r, j)
                         /\ Known(r, j) => fwMap'[r] = fwMap[r] /\ Seen(r)' = Seen(r)
  <2>1. Known(r, j) => r \in DOMAIN fwMap'
    BY DEF Known, Touches
  <2>2. Known(r, j)' => r \in DOMAIN fwMap
    BY DEF Known, Touches
  <2>3. r \in DOMAIN fwMap /\ r \in DOMAIN fwMap' =>
          fwMap'[r] = fwMap[r] /\ Seen(r)' = Seen(r)
    <3>1. Keeps(fwMap, fwMap')
      BY DEF Touches
    <3>2. r \in DOMAIN fwMap /\ r \in DOMAIN fwMap' => fwMap'[r] = fwMap[r]
      BY <3>1 DEF Keeps
    <3> QED BY <3>1, <3>2, SameSeen
  <2>4. Known(r, j)' <=> r \in DOMAIN fwMap' /\ fwMap'[r].index = j
    BY DEF Known
  <2>5. Known(r, j) <=> r \in DOMAIN fwMap /\ fwMap[r].index = j
    BY DEF Known
  <2> QED BY <2>1, <2>2, <2>3, <2>4, <2>5
<1>2. ASSUME NEW u \in Threads
      PROVE  (Holds(u, j)' <=> Holds(u, j)) /\ (Lost(u, j)' <=> Lost(u, j))
  <2>1. CASE u = t
    BY <2>1 DEF Holds, Lost, Touches
  <2>2. CASE u # t
    BY <2>2 DEF Holds, Lost, Touches
  <2> QED BY <2>1, <2>2
<1>3. Sound(j)' <=> Sound(j)
  <2>1. Sound(j) <=> j \notin spoilt /\ \A u \in Threads : ~Lost(u, j)
    BY DEF Sound, Lost
  <2>2. Sound(j)' <=> j \notin spoilt' /\ \A u \in Threads : ~Lost(u, j)'
    BY DEF Sound, Lost
  <2>3. j \in spoilt' <=> j \in spoilt
    BY DEF Touches
  <2> QED BY <1>2, <2>1, <2>2, <2>3
<1>4. /\ gMessageTable'[j] = gMessageTable[j] /\ gDSConnections'[j] = gDSConnections[j]
      /\ far'[j] = far[j] /\ issued'[j] = issued[j] /\ answers'[j] = answers[j]
      /\ (j \in broken' <=> j \in broken) /\ (j \in spoilt' <=> j \in spoilt)
      /\ (j \in leaked' <=> j \in leaked)
  BY DEF Touches
<1>5. EndOK(j)'
  <2>1. EndOK(j)
    BY DEF TheEnd
  <2>2. \A r : /\ Known(r, j)' <=> Known(r, j)
               /\ Known(r, j) => fwMap'[r] = fwMap[r]
    BY <1>1
  <2>3. j \notin leaked =>
          (gDSConnections[j] = (IF gMessageTable[j] THEN 1 % kWord ELSE 0) <=>
           gDSConnections'[j] = IF gMessageTable'[j] THEN 1 % kWord ELSE 0)
    BY <1>4
  <2>4. ASSUME j \notin spoilt', j \in Remote
        PROVE  /\ \A u, v \in Threads : Holds(u, j)' /\ Holds(v, j)' => u = v
               /\ \A u \in Threads : \A r : ~(Holds(u, j)' /\ Known(r, j)')
               /\ \A r, q : /\ Known(r, j)' /\ fwMap'[r].type = "dir"
                            /\ Known(q, j)' /\ fwMap'[q].type = "dir"
                            => r = q
               /\ j \notin leaked' =>
                    gDSConnections'[j] = IF gMessageTable'[j] THEN 1 % kWord ELSE 0
    <3>1. j \notin spoilt
      BY <1>4, <2>4
    <3>2. \A u, v \in Threads : Holds(u, j)' /\ Holds(v, j)' => u = v
      BY <1>2, <2>1, <2>4, <3>1, Zenon DEF EndOK
    <3>3. \A u \in Threads : \A r : ~(Holds(u, j)' /\ Known(r, j)')
      BY <1>2, <2>1, <2>2, <2>4, <3>1, Zenon DEF EndOK
    <3>4. ASSUME NEW r, NEW q, Known(r, j)', fwMap'[r].type = "dir",
                 Known(q, j)', fwMap'[q].type = "dir"
          PROVE  r = q
      <4>1. Known(r, j) /\ fwMap[r].type = "dir" /\ Known(q, j) /\ fwMap[q].type = "dir"
        BY <2>2, <3>4
      <4> QED BY <2>1, <2>4, <3>1, <4>1 DEF EndOK
    <3>5. j \notin leaked =>
            gDSConnections[j] = IF gMessageTable[j] THEN 1 % kWord ELSE 0
      BY <2>1, <2>4, <3>1 DEF EndOK
    <3> QED BY <1>4, <2>3, <3>2, <3>3, <3>4, <3>5
  <2>5. j \notin spoilt' =>
          /\ \A r : Known(r, j)' => gMessageTable'[j]
          /\ j \in broken' \/ answers'[j] # <<>> => \E u \in Threads : Lost(u, j)'
          /\ \A u \in Threads : Holds(u, j)' => gMessageTable'[j]
    <3>1. ASSUME j \notin spoilt' PROVE \A r : Known(r, j)' => gMessageTable'[j]
      BY <1>4, <2>1, <2>2, <3>1, Zenon DEF EndOK
    <3>2. ASSUME j \notin spoilt', j \in broken' \/ answers'[j] # <<>>
          PROVE  \E u \in Threads : Lost(u, j)'
      <4>1. j \in broken \/ answers[j] # <<>>
        BY <1>4, <3>2
      <4>2. PICK u \in Threads : Lost(u, j)
        BY <1>4, <2>1, <3>2, <4>1 DEF EndOK
      <4> QED BY <1>2, <4>2
    <3>3. ASSUME j \notin spoilt' PROVE \A u \in Threads : Holds(u, j)' => gMessageTable'[j]
      BY <1>2, <1>4, <2>1, <3>3, Zenon DEF EndOK
    <3> QED BY <3>1, <3>2, <3>3
  <2> QED BY <2>4, <2>5 DEF EndOK
<1>6. ASSUME RefsOK(j) PROVE RefsOK(j)'
  <2>1. ASSUME NEW r, Known(r, j)'
        PROVE  /\ fwMap'[r].remote \in 1..issued'[j]
               /\ fwMap'[r].remote \in DOMAIN far'[j] => far'[j][fwMap'[r].remote] = Seen(r)'
               /\ fwMap'[r].remote \in DOMAIN far'[j] \/ fwMap'[r].type = "value"
    <3>1. Known(r, j) /\ fwMap'[r] = fwMap[r] /\ Seen(r)' = Seen(r)
      BY <1>1, <2>1
    <3> QED BY <1>4, <1>6, <3>1 DEF RefsOK
  <2>2. ASSUME NEW r, NEW q, Known(r, j)', Known(q, j)', fwMap'[r].remote = fwMap'[q].remote
        PROVE  r = q
    <3>1. Known(r, j) /\ fwMap'[r] = fwMap[r] /\ Known(q, j) /\ fwMap'[q] = fwMap[q]
      BY <1>1, <2>2
    <3> QED BY <1>6, <2>2, <3>1 DEF RefsOK
  <2> QED BY <2>1, <2>2 DEF RefsOK
<1>7. HeldOK(j) => HeldOK(j)'
  BY <1>1, <1>2, <1>4, Zenon DEF HeldOK
<1> QED BY <1>3, <1>5, <1>6, <1>7 DEF TheEnd

\* A call that is not stepping keeps what it has, if that stays mapped.
LEMMA CallKept ==
  ASSUME NEW m, NEW n, Keeps(m, n), NEW c, CallIn(m, c), Uses(c) => c.ref \in DOMAIN n
  PROVE  CallIn(n, c)
<1>1. CASE Uses(c)
  <2>1. c.ref \in DOMAIN m /\ c.ref \in DOMAIN n
    BY <1>1 DEF CallIn
  <2>2. n[c.ref] = m[c.ref]
        /\ Line(n, c.ref) \cap DOMAIN n \subseteq Line(m, c.ref) \cap DOMAIN m
    BY <2>1 DEF Keeps
  <2> QED BY <1>1, <2>1, <2>2 DEF CallIn
<1>2. CASE ~Uses(c)
  BY <1>2 DEF CallIn
<1> QED BY <1>1, <1>2

LEMMA ApartKept ==
  ASSUME NEW m, NEW n, Keeps(m, n), NEW c, NEW d, CallIn(m, c), CallIn(m, d),
         Uses(c) => c.ref \in DOMAIN n, Uses(d) => d.ref \in DOMAIN n,
         ApartIn(m, c, d)
  PROVE  ApartIn(n, c, d)
<1> SUFFICES ASSUME Uses(c), Uses(d), c.op = "close" PROVE c.ref \notin Line(n, d.ref)
  BY DEF ApartIn
<1>1. c.ref \notin Line(m, d.ref)
  BY DEF ApartIn
<1>2. d.ref \in DOMAIN m /\ d.ref \in DOMAIN n
  BY DEF CallIn
<1> QED BY <1>1, <1>2 DEF Keeps

\* The stepping call is done with its reference, or keeps it in an unchanged map.
LEMMA CallsAfter ==
  ASSUME CallsOK, NEW t \in Threads, Keeps(fwMap, fwMap'),
         \A u \in Threads : u # t =>
           /\ calling'[u] = calling[u]
           /\ Uses(calling[u]) => calling[u].ref \in DOMAIN fwMap',
         CallIn(fwMap', calling'[t]),
         Uses(calling'[t]) => /\ fwMap' = fwMap /\ Uses(calling[t])
                              /\ calling'[t].ref = calling[t].ref
                              /\ calling'[t].op = calling[t].op
  PROVE  CallsOK'
<1>1. ASSUME NEW u \in Threads PROVE CallIn(fwMap', calling'[u])
  <2>1. CASE u = t
    BY <2>1
  <2>2. CASE u # t
    <3>1. CallIn(fwMap, calling[u])
      BY DEF CallsOK
    <3>2. CallIn(fwMap', calling[u])
      BY <2>2, <3>1, CallKept
    <3> QED BY <2>2, <3>2
  <2> QED BY <2>1, <2>2
<1>2. ASSUME NEW u \in Threads, NEW v \in Threads, u # v
      PROVE  ApartIn(fwMap', calling'[u], calling'[v])
  <2>0. /\ ApartIn(fwMap, calling[u], calling[v])
        /\ CallIn(fwMap, calling[u]) /\ CallIn(fwMap, calling[v])
    BY <1>2 DEF CallsOK
  <2>1. CASE u # t /\ v # t
    <3>1. ApartIn(fwMap', calling[u], calling[v])
      BY <2>0, <2>1, ApartKept
    <3> QED BY <2>1, <3>1
  <2>2. CASE (u = t \/ v = t) /\ ~Uses(calling'[t])
    BY <2>2 DEF ApartIn
  <2>3. CASE u = t /\ Uses(calling'[t])
    <3>1. v # t
      BY <1>2, <2>3
    <3> QED BY <2>0, <2>3, <3>1 DEF ApartIn
  <2>4. CASE v = t /\ Uses(calling'[t])
    <3>1. u # t
      BY <1>2, <2>4
    <3> QED BY <2>0, <2>4, <3>1 DEF ApartIn
  <2> QED BY <2>1, <2>2, <2>3, <2>4
<1>3. CallsOK' <=> /\ \A u \in Threads : CallIn(fwMap', calling'[u])
                   /\ \A u, v \in Threads : u # v => ApartIn(fwMap', calling'[u], calling'[v])
  BY DEF CallsOK, CallIn, ApartIn, Uses
<1> QED BY <1>1, <1>2, <1>3

-----------------------------------------------------------------------------
(***************************************************************************)
(* What the other end does.                                                *)
(***************************************************************************)
LEMMA ServeIs ==
  ASSUME NEW i, NEW op, NEW type, NEW n
  PROVE  /\ n \notin DOMAIN far[i] =>
              Serve(i, op, type, n) = [far |-> far[i], answer |-> Refused]
         /\ n \in DOMAIN far[i] /\ op = "close" /\ far[i][n].type = type =>
              Serve(i, op, type, n) = [far |-> Cut(far[i], n), answer |-> Reply("closed", n)]
         /\ n \in DOMAIN far[i] /\ op = "close" /\ far[i][n].type # type =>
              Serve(i, op, type, n) = [far |-> far[i], answer |-> Refused]
         /\ n \in DOMAIN far[i] /\ op # "close" =>
              Serve(i, op, type, n) =
                IF op \in Opens[far[i][n].type]
                  THEN [far |-> With(far[i], issued[i] + 1,
                                     [type |-> op, parent |-> Above(i, n, op)]),
                        answer |-> Reply(op, issued[i] + 1)]
                  ELSE [far |-> far[i], answer |-> Refused]
<1>1. CASE n \notin DOMAIN far[i]
  BY <1>1 DEF Serve
<1>2. CASE n \in DOMAIN far[i] /\ op = "close"
  BY <1>2 DEF Serve
<1>3. CASE n \in DOMAIN far[i] /\ op # "close"
  BY <1>3 DEF Serve
<1> QED BY <1>1, <1>2, <1>3

\* It makes at most one reference, with the next number.
LEMMA ServeMakesOne ==
  ASSUME NEW i, NEW op, NEW type, NEW n
  PROVE  DOMAIN Serve(i, op, type, n).far \subseteq DOMAIN far[i] \cup {issued[i] + 1}
<1>1. DOMAIN Cut(far[i], n) \subseteq DOMAIN far[i]
  BY DEF Cut
<1>2. \A e : DOMAIN With(far[i], issued[i] + 1, e) = DOMAIN far[i] \cup {issued[i] + 1}
  BY DEF With
<1>3. CASE n \notin DOMAIN far[i]
  <2>1. Serve(i, op, type, n) = [far |-> far[i], answer |-> Refused]
    BY <1>3, ServeIs
  <2> QED BY <2>1
<1>4. CASE n \in DOMAIN far[i] /\ op = "close"
  <2>1. \/ Serve(i, op, type, n) = [far |-> Cut(far[i], n), answer |-> Reply("closed", n)]
        \/ Serve(i, op, type, n) = [far |-> far[i], answer |-> Refused]
    BY <1>4, ServeIs
  <2> QED BY <1>1, <2>1
<1>5. CASE n \in DOMAIN far[i] /\ op # "close"
  <2> DEFINE e == [type |-> op, parent |-> Above(i, n, op)]
             f == With(far[i], issued[i] + 1, e)
  <2>1. \/ Serve(i, op, type, n) = [far |-> f, answer |-> Reply(op, issued[i] + 1)]
        \/ Serve(i, op, type, n) = [far |-> far[i], answer |-> Refused]
    BY <1>5, ServeIs
  <2>2. DOMAIN f \subseteq DOMAIN far[i] \cup {issued[i] + 1}
    BY <1>2
  <2> HIDE DEF f
  <2> QED BY <2>1, <2>2
<1> QED BY <1>3, <1>4, <1>5

LEMMA SentShape ==
  ASSUME Shape, NEW i \in Ends, NEW f,
         DOMAIN f \subseteq DOMAIN far[i] \cup {issued[i] + 1},
         far' = [far EXCEPT ![i] = f],
         issued' = [issued EXCEPT ![i] = IF DOMAIN f \subseteq DOMAIN far[i] THEN @ ELSE @ + 1]
  PROVE  /\ far'[i] = f
         /\ issued'[i] = IF DOMAIN f \subseteq DOMAIN far[i] THEN issued[i] ELSE issued[i] + 1
         /\ issued' \in [Ends -> Nat] /\ far' = [j \in Ends |-> far'[j]]
         /\ \A j \in Ends : DOMAIN far'[j] \subseteq 1..issued'[j]
         /\ \A j \in Ends : j # i => far'[j] = far[j] /\ issued'[j] = issued[j]
<1>1. DOMAIN far = Ends /\ issued \in [Ends -> Nat]
      /\ \A j \in Ends : DOMAIN far[j] \subseteq 1..issued[j]
  BY DEF Shape
<1>2. far'[i] = f /\ \A j \in Ends : j # i => far'[j] = far[j] /\ issued'[j] = issued[j]
  BY <1>1
<1>3. issued'[i] = IF DOMAIN f \subseteq DOMAIN far[i] THEN issued[i] ELSE issued[i] + 1
  BY <1>1
<1>4. issued' \in [Ends -> Nat]
  <2>1. issued[i] \in Nat /\ issued[i] + 1 \in Nat
    BY <1>1
  <2>2. (IF DOMAIN f \subseteq DOMAIN far[i] THEN issued[i] ELSE issued[i] + 1) \in Nat
    BY <2>1
  <2> QED BY <1>1, <2>2
<1>5. far' = [j \in Ends |-> far'[j]]
  BY <1>1
<1>6. DOMAIN far'[i] \subseteq 1..issued'[i]
  <2>1. issued[i] \in Nat /\ DOMAIN far[i] \subseteq 1..issued[i]
    BY <1>1
  <2>2. CASE DOMAIN f \subseteq DOMAIN far[i]
    BY <1>2, <1>3, <2>1, <2>2
  <2>3. CASE ~(DOMAIN f \subseteq DOMAIN far[i])
    <3>1. issued'[i] = issued[i] + 1 /\ far'[i] = f
      BY <1>2, <1>3, <2>3
    <3> QED BY <2>1, <3>1
  <2> QED BY <2>2, <2>3
<1> QED BY <1>1, <1>2, <1>3, <1>4, <1>5, <1>6

\* The request of a located call is about the reference it found.
LEMMA AskedIs ==
  ASSUME IInv, NEW t \in Threads, Uses(calling[t])
  PROVE  LET c == calling[t]
         IN  /\ c.ref \in DOMAIN fwMap /\ fwMap[c.ref].type = c.type
             /\ fwMap[c.ref].index = c.index /\ c.index \in Ends /\ Known(c.ref, c.index)
             /\ c.op \in Opens[c.type] \cup {"close"} /\ c.type \in Types
             /\ Asked(t) = Serve(c.index, c.op, c.type, fwMap[c.ref].remote)
<1> DEFINE c == calling[t]
<1>1. /\ c.ref \in DOMAIN fwMap /\ fwMap[c.ref].type = c.type
      /\ fwMap[c.ref].index = c.index /\ c.op \in Opens[c.type] \cup {"close"}
  BY DEF IInv, CallsOK, CallIn
<1>2. c.index \in Ends /\ c.type \in Types
  BY <1>1, TreeMeans DEF IInv
<1> QED BY <1>1, <1>2 DEF Asked, GetRefNum, VerifyReference, Known

\* With nothing unread, the answer read is that of the request.
LEMMA ReadInTime ==
  ASSUME NEW i \in Ends, NEW a, answers[i] = <<>>
  PROVE  /\ Head(Append(answers[i], a)) = a /\ Tail(Append(answers[i], a)) = <<>>
OBVIOUS

-----------------------------------------------------------------------------
(***************************************************************************)
(* Sound connections.                                                      *)
(***************************************************************************)
LEMMA SoundMeans ==
  ASSUME NEW i
  PROVE  Sound(i) <=> i \notin spoilt /\ \A t \in Threads : ~Lost(t, i)
BY DEF Sound, Lost

LEMMA SoundIsQuiet ==
  ASSUME IInv, NEW i \in Ends, Sound(i)
  PROVE  /\ i \notin spoilt /\ i \notin broken /\ answers[i] = <<>>
         /\ EndOK(i) /\ RefsOK(i) /\ HeldOK(i)
BY SoundMeans DEF IInv, TheEnd, EndOK

LEMMA OpeningIsSound ==
  ASSUME IInv, NEW i \in Ends, NEW t \in Threads, Holds(t, i), i \notin spoilt
  PROVE  Sound(i)
<1>1. ASSUME NEW u \in Threads, Lost(u, i) PROVE FALSE
  <2>1. CallIn(fwMap, calling[u]) /\ EndOK(i)
    BY DEF IInv, CallsOK, TheEnd
  <2>2. i \in Remote /\ Known(calling[u].ref, i)
    BY <1>1, <2>1 DEF CallIn, Lost, Uses, Known
  <2> QED BY <2>1, <2>2 DEF EndOK
<1> QED BY <1>1, SoundMeans

LEMMA SpoiltIsOK == ASSUME NEW i, i \in spoilt' PROVE TheEnd(i)'
BY DEF TheEnd, EndOK, Sound

LEMMA StepKeepsIInv ==
  ASSUME IInv, NEW t \in Threads, NEW i \in Ends, Touches(t, i),
         Shape', IsTree(fwMap'), CallsOK', TheEnd(i)', crashed' = crashed,
         spoilt \subseteq spoilt'
  PROVE  IInv'
<1>1. \A j \in Ends : TheEnd(j)'
  BY Untouched DEF IInv
<1> QED BY <1>1 DEF IInv

-----------------------------------------------------------------------------
(***************************************************************************)
(* Steps that send nothing.                                                *)
(***************************************************************************)
LEMMA CallStep ==
  ASSUME Shape, NEW t \in Threads, NEW c, calling' = [calling EXCEPT ![t] = c]
  PROVE  /\ calling'[t] = c /\ calling' = [u \in Threads |-> calling'[u]]
         /\ \A u \in Threads : u # t => calling'[u] = calling[u]
BY DEF Shape

LEMMA CallsDone ==
  ASSUME IInv, NEW t \in Threads, NEW c, calling' = [calling EXCEPT ![t] = c],
         fwMap' = fwMap, CallIn(fwMap, c), ~Uses(c)
  PROVE  CallsOK'
<1>1. calling'[t] = c /\ \A u \in Threads : u # t => calling'[u] = calling[u]
  BY CallStep DEF IInv
<1>2. Keeps(fwMap, fwMap')
  BY KeepsSelf
<1>3. \A u \in Threads : Uses(calling[u]) => calling[u].ref \in DOMAIN fwMap'
  BY DEF IInv, CallsOK, CallIn
<1> QED BY <1>1, <1>2, <1>3, CallsAfter DEF IInv

LEMMA IdleIsOK == ASSUME NEW m PROVE CallIn(m, NotCalling) /\ ~Uses(NotCalling)
                                     /\ NotCalling.at = "idle"
BY DEF CallIn, Uses, NotCalling

Waiting(i) == [NotCalling EXCEPT !.at = "opening", !.op = "dir", !.index = i]
LEMMA WaitingIsOK ==
  ASSUME NEW m, NEW i \in Ends
  PROVE  CallIn(m, Waiting(i)) /\ ~Uses(Waiting(i))
         /\ Waiting(i).at = "opening" /\ Waiting(i).index = i
BY DEF CallIn, Uses, NotCalling, Waiting

LEMMA EndsAre ==
  /\ Remote \subseteq Ends /\ 1 \in Ends /\ 1 \notin Remote /\ Ends \subseteq Nat
  /\ \A i \in Ends : i \in Remote <=> i # 1
BY ConnectionsAssumption DEF Ends, Remote

\* In a free slot there is nothing, unless it was spoilt.
LEMMA FreeIsEmpty ==
  ASSUME IInv, NEW i \in Ends, i \notin spoilt, ~gMessageTable[i]
  PROVE  /\ \A r : ~Known(r, i)
         /\ \A u \in Threads : ~Holds(u, i)
BY DEF IInv, TheEnd, EndOK

LEMMA ConnectToKeeps ==
  ASSUME IInv, NEW t \in Threads, ConnectTo(t)
  PROVE  IInv'
<1>0. PICK i : i = CHOOSE j \in FreeSlots : \A o \in FreeSlots : j <= o
  OBVIOUS
<1>1. i \in FreeSlots
  <2>1. FreeSlots \subseteq Nat /\ FreeSlots # {}
    BY EndsAre DEF FreeSlots, ConnectTo
  <2>2. \E j \in FreeSlots : \A o \in FreeSlots : j <= o
    BY <2>1, Smallest
  <2> QED BY <1>0, <2>2
<1>2. /\ calling[t].at = "idle" /\ gMessageTable' = [gMessageTable EXCEPT ![i] = TRUE]
      /\ gDSConnections' = [gDSConnections EXCEPT ![i] = (@ + 1) % kWord]
      /\ Fresh(i) /\ calling' = [calling EXCEPT ![t] = Waiting(i)]
      /\ fwMap' = fwMap /\ crashed' = crashed /\ spoilt' = spoilt /\ leaked' = leaked
  BY <1>0 DEF ConnectTo, Waits, Waiting
<1>3. i \in Remote /\ i \in Ends /\ ~gMessageTable[i]
  BY <1>1, EndsAre DEF FreeSlots
<1>4. /\ calling'[t] = Waiting(i) /\ calling' = [u \in Threads |-> calling'[u]]
      /\ \A u \in Threads : u # t => calling'[u] = calling[u]
  BY <1>2, CallStep DEF IInv
<1>5. CallsOK'
  BY <1>2, <1>3, WaitingIsOK, CallsDone
<1>6. /\ far' = [far EXCEPT ![i] = None] /\ issued' = [issued EXCEPT ![i] = 0]
      /\ answers' = [answers EXCEPT ![i] = <<>>] /\ broken' = broken \ {i}
  BY <1>2 DEF Fresh
<1>7. /\ far'[i] = None /\ answers'[i] = <<>> /\ i \notin broken'
      /\ gMessageTable'[i] = TRUE /\ gDSConnections'[i] = (gDSConnections[i] + 1) % kWord
  BY <1>2, <1>3, <1>6 DEF IInv, Shape
<1>8. Touches(t, i)
  BY <1>2, <1>3, <1>4, <1>6, WaitingIsOK, KeepsSelf DEF Touches, IInv, Shape
<1>9. Shape'
  <2>1. (gDSConnections[i] + 1) % kWord \in Nat
    BY <1>3, ConnectionsAssumption DEF IInv, Shape
  <2>2. \A j \in Ends : DOMAIN far'[j] \subseteq 1..issued'[j]
    BY <1>6, <1>7 DEF IInv, Shape, None
  <2> QED BY <1>2, <1>3, <1>4, <1>6, <2>1, <2>2 DEF IInv, Shape
<1>10. ASSUME i \notin spoilt PROVE TheEnd(i)'
  <2>1. /\ \A r : ~Known(r, i)
        /\ \A u \in Threads : ~Holds(u, i)
    BY <1>3, <1>10, FreeIsEmpty
  <2>2. \A r : ~Known(r, i)'
    BY <1>2, <2>1 DEF Known
  <2>3. \A u \in Threads : Holds(u, i)' <=> u = t
    BY <1>3, <1>4, <2>1, WaitingIsOK DEF Holds
  <2>4. i \notin leaked => gDSConnections[i] = 0
    BY <1>3, <1>10 DEF IInv, TheEnd, EndOK
  <2>5. 0 + 1 = 1
    OBVIOUS
  <2>6. EndOK(i)'
    BY <1>2, <1>7, <2>2, <2>3, <2>4, <2>5 DEF EndOK
  <2>7. RefsOK(i)'
    BY <2>2 DEF RefsOK
  <2>8. HeldOK(i)'
    BY <1>7, <2>3 DEF HeldOK, None
  <2> QED BY <2>6, <2>7, <2>8 DEF TheEnd
<1>11. TheEnd(i)'
  BY <1>2, <1>10, SpoiltIsOK
<1>12. IsTree(fwMap')
  BY <1>2 DEF IInv
<1> QED BY <1>2, <1>3, <1>5, <1>8, <1>9, <1>11, <1>12, StepKeepsIInv

LEMMA ConnectLocalKeeps ==
  ASSUME IInv, NEW t \in Threads, ConnectLocal(t)
  PROVE  IInv'
<1>1. /\ calling[t].at = "idle" /\ gMessageTable' = [gMessageTable EXCEPT ![1] = TRUE]
      /\ gDSConnections' = [gDSConnections EXCEPT
                              ![1] = IF gMessageTable[1] THEN @ ELSE (@ + 1) % kWord]
      /\ calling' = [calling EXCEPT ![t] = Waiting(1)]
      /\ fwMap' = fwMap /\ crashed' = crashed /\ spoilt' = spoilt /\ leaked' = leaked
      /\ far' = far /\ issued' = issued /\ answers' = answers /\ broken' = broken
  BY DEF ConnectLocal, Waits, Waiting
<1>2. 1 \in Ends /\ 1 \notin Remote
  BY EndsAre
<1>3. /\ calling'[t] = Waiting(1) /\ calling' = [u \in Threads |-> calling'[u]]
      /\ \A u \in Threads : u # t => calling'[u] = calling[u]
  BY <1>1, CallStep DEF IInv
<1>4. CallsOK'
  BY <1>1, <1>2, WaitingIsOK, CallsDone
<1>5. Touches(t, 1)
  BY <1>1, <1>2, <1>3, WaitingIsOK, KeepsSelf DEF Touches, IInv, Shape
<1>6. gMessageTable'[1] = TRUE
  BY <1>1, <1>2 DEF IInv, Shape
<1>7. Shape'
  <2>1. gDSConnections[1] \in Nat /\ (gDSConnections[1] + 1) % kWord \in Nat
    BY <1>2, ConnectionsAssumption DEF IInv, Shape
  <2>2. (IF gMessageTable[1] THEN gDSConnections[1] ELSE (gDSConnections[1] + 1) % kWord) \in Nat
    BY <2>1
  <2> QED BY <1>1, <1>2, <1>3, <2>2 DEF IInv, Shape
<1>8. ASSUME 1 \notin spoilt PROVE TheEnd(1)'
  <2>1. \A u \in Threads : ~Lost(u, 1)
    BY <1>2 DEF IInv, CallsOK, CallIn, Lost
  <2>2. Sound(1)
    BY <1>8, <2>1, SoundMeans
  <2>3. \A r : Known(r, 1)' <=> Known(r, 1)
    BY <1>1 DEF Known
  <2>4. /\ 1 \notin broken /\ answers[1] = <<>>
        /\ RefsOK(1) /\ HeldOK(1)
    BY <1>2, <2>2, SoundIsQuiet
  <2>5. EndOK(1)'
    BY <1>1, <1>2, <1>6, <2>4 DEF EndOK
  <2>6. RefsOK(1)'
    BY <1>1, <2>4 DEF RefsOK, Known, Seen
  <2>7. HeldOK(1)'
    BY <1>1, <1>2, <2>4 DEF HeldOK, Known
  <2> QED BY <2>5, <2>6, <2>7 DEF TheEnd
<1>9. TheEnd(1)'
  BY <1>1, <1>8, SpoiltIsOK
<1>10. IsTree(fwMap')
  BY <1>1 DEF IInv
<1> QED BY <1>1, <1>2, <1>4, <1>5, <1>7, <1>9, <1>10, StepKeepsIInv

\* A connection that goes with nothing mapped leaves nothing to give back.
LEMMA GoneIsOK ==
  ASSUME NEW i \in Ends, \A r : ~Known(r, i)', \A u \in Threads : ~Holds(u, i)',
         far'[i] = None, answers'[i] = <<>>, i \notin broken', i \in Remote => ~gMessageTable'[i],
         i \in Remote /\ i \notin leaked' => gDSConnections'[i] = 0
  PROVE  TheEnd(i)'
<1>1. EndOK(i)'
  BY DEF EndOK
<1>2. RefsOK(i)'
  BY DEF RefsOK
<1>3. HeldOK(i)'
  BY DEF HeldOK, None
<1> QED BY <1>1, <1>2, <1>3 DEF TheEnd

LEMMA OpenFailsKeeps ==
  ASSUME IInv, NEW t \in Threads, OpenFails(t)
  PROVE  IInv'
<1>0. PICK i : i = calling[t].index
  OBVIOUS
<1>1. /\ calling[t].at = "opening" /\ gMessageTable[i]
      /\ calling' = [calling EXCEPT ![t] = NotCalling]
      /\ gDSConnections' = gDSConnections /\ fwMap' = fwMap /\ crashed' = crashed
  BY <1>0 DEF OpenFails, Return
<1>2. /\ i = 1 => UNCHANGED <<gMessageTable, far, issued, broken, answers, spoilt, leaked>>
      /\ i # 1 => /\ gMessageTable' = [gMessageTable EXCEPT ![i] = FALSE]
                  /\ far' = [far EXCEPT ![i] = None]
                  /\ answers' = [answers EXCEPT ![i] = <<>>]
                  /\ broken' = broken \ {i} /\ issued' = issued
                  /\ spoilt' = (IF Mapped(i) THEN spoilt \cup {i} ELSE spoilt)
                  /\ leaked' = leaked \cup {i}
  BY <1>0 DEF OpenFails, Closed, Spoils
<1>3. i \in Ends /\ (i # 1 <=> i \in Remote) /\ Holds(t, i)
  BY <1>0, <1>1, EndsAre DEF IInv, CallsOK, CallIn, Holds
<1>4. /\ calling'[t] = NotCalling /\ calling' = [u \in Threads |-> calling'[u]]
      /\ \A u \in Threads : u # t => calling'[u] = calling[u]
  BY <1>1, CallStep DEF IInv
<1>5. CallsOK'
  BY <1>1, IdleIsOK, CallsDone
<1>6. spoilt \subseteq spoilt' /\ \A j \in Ends : j # i => (j \in spoilt' <=> j \in spoilt)
  BY <1>2
<1>7. Touches(t, i)
  <2>1. calling[t].at # "idle" => calling[t].index = i
    BY <1>0
  <2> QED BY <1>1, <1>2, <1>3, <1>4, <1>6, <2>1, IdleIsOK, KeepsSelf DEF Touches, IInv, Shape
<1>8. Shape'
  <2>1. CASE i = 1
    BY <1>1, <1>2, <1>4, <2>1 DEF IInv, Shape
  <2>2. CASE i # 1
    <3>1. \A j \in Ends : DOMAIN far'[j] \subseteq 1..issued'[j]
      <4>1. far'[i] = None /\ \A j \in Ends : j # i => far'[j] = far[j]
        BY <1>2, <1>3, <2>2 DEF IInv, Shape
      <4>2. issued' = issued /\ \A j \in Ends : DOMAIN far[j] \subseteq 1..issued[j]
        BY <1>2, <2>2 DEF IInv, Shape
      <4> QED BY <4>1, <4>2 DEF None
    <3>2. spoilt' \subseteq Ends /\ leaked' \subseteq Ends
      BY <1>2, <1>3, <2>2 DEF IInv, Shape
    <3> QED BY <1>1, <1>2, <1>3, <1>4, <2>2, <3>1, <3>2 DEF IInv, Shape
  <2> QED BY <2>1, <2>2
<1>9. ASSUME i \notin spoilt' PROVE TheEnd(i)'
  <2>0. i \notin spoilt
    BY <1>6, <1>9
  <2>1. Sound(i)
    BY <1>3, <2>0, OpeningIsSound
  <2>2. /\ i \notin broken /\ answers[i] = <<>> /\ EndOK(i) /\ RefsOK(i) /\ HeldOK(i)
    BY <1>3, <2>1, SoundIsQuiet
  <2>3. \A r : Known(r, i)' <=> Known(r, i)
    BY <1>1 DEF Known
  <2>4. ASSUME NEW u \in Threads, Holds(u, i)' PROVE u # t /\ Holds(u, i)
    BY <1>4, <2>4, IdleIsOK DEF Holds
  <2>5. CASE i = 1
    <3>1. EndOK(1)'
      BY <1>1, <1>2, <1>3, <2>0, <2>2, <2>3, <2>4, <2>5 DEF EndOK
    <3>2. RefsOK(1)'
      BY <1>1, <1>2, <2>2, <2>5 DEF RefsOK, Known, Seen
    <3>3. HeldOK(1)'
      BY <1>1, <1>2, <1>3, <2>2, <2>5 DEF HeldOK, Known
    <3> QED BY <2>5, <3>1, <3>2, <3>3 DEF TheEnd
  <2>6. CASE i # 1
    <3>1. \A r : ~Known(r, i)'
      BY <1>3, <2>0, <2>2, <2>3, <2>6 DEF EndOK
    <3>2. \A u \in Threads : ~Holds(u, i)'
      BY <1>3, <2>0, <2>2, <2>4, <2>6 DEF EndOK
    <3>3. /\ far'[i] = None /\ answers'[i] = <<>> /\ i \notin broken' /\ ~gMessageTable'[i]
          /\ i \in leaked'
      BY <1>2, <1>3, <2>6 DEF IInv, Shape
    <3> QED BY <1>3, <3>1, <3>2, <3>3, GoneIsOK
  <2> QED BY <2>5, <2>6
<1>10. TheEnd(i)'
  BY <1>9, SpoiltIsOK
<1>11. IsTree(fwMap')
  BY <1>1 DEF IInv
<1> QED BY <1>1, <1>3, <1>5, <1>6, <1>7, <1>8, <1>10, <1>11, StepKeepsIInv

LEMMA VersionMismatchKeeps ==
  ASSUME IInv, NEW t \in Threads, VersionMismatch(t)
  PROVE  IInv'
<1>0. PICK i : i = calling[t].index
  OBVIOUS
<1>1. /\ calling[t].at = "opening" /\ i \in Remote /\ gMessageTable[i]
      /\ calling' = [calling EXCEPT ![t] = NotCalling] /\ leaked' = leaked \cup {i}
      /\ gMessageTable' = gMessageTable /\ gDSConnections' = gDSConnections /\ far' = far
      /\ issued' = issued /\ broken' = broken /\ answers' = answers /\ fwMap' = fwMap
      /\ crashed' = crashed /\ spoilt' = spoilt
  BY <1>0 DEF VersionMismatch, Return
<1>2. i \in Ends /\ Holds(t, i)
  BY <1>0, <1>1, EndsAre DEF Holds
<1>3. /\ calling'[t] = NotCalling /\ calling' = [u \in Threads |-> calling'[u]]
      /\ \A u \in Threads : u # t => calling'[u] = calling[u]
  BY <1>1, CallStep DEF IInv
<1>4. CallsOK'
  BY <1>1, IdleIsOK, CallsDone
<1>5. Touches(t, i)
  BY <1>0, <1>1, <1>3, IdleIsOK, KeepsSelf DEF Touches
<1>6. Shape'
  BY <1>1, <1>2, <1>3 DEF IInv, Shape
<1>7. ASSUME i \notin spoilt' PROVE TheEnd(i)'
  <2>1. Sound(i)
    BY <1>1, <1>2, <1>7, OpeningIsSound
  <2>2. /\ i \notin broken /\ answers[i] = <<>> /\ EndOK(i) /\ RefsOK(i)
    BY <1>2, <2>1, SoundIsQuiet
  <2>3. \A r : Known(r, i)' <=> Known(r, i)
    BY <1>1 DEF Known
  <2>4. ASSUME NEW u \in Threads, Holds(u, i)' PROVE u # t /\ Holds(u, i)
    BY <1>3, <2>4, IdleIsOK DEF Holds
  <2>5. EndOK(i)'
    BY <1>1, <1>2, <1>7, <2>2, <2>3, <2>4 DEF EndOK
  <2>6. RefsOK(i)'
    BY <1>1, <2>2 DEF RefsOK, Known, Seen
  <2>7. HeldOK(i)'
    BY <1>1 DEF HeldOK
  <2> QED BY <2>5, <2>6, <2>7 DEF TheEnd
<1>8. TheEnd(i)'
  BY <1>7, SpoiltIsOK
<1>9. IsTree(fwMap')
  BY <1>1 DEF IInv
<1> QED BY <1>1, <1>2, <1>4, <1>5, <1>6, <1>8, <1>9, StepKeepsIInv

LEMMA LocateKeeps ==
  ASSUME IInv, NEW t \in Threads, NEW r \in DOMAIN fwMap, NEW op, Locate(t, r, op)
  PROVE  IInv'
<1> DEFINE i == fwMap[r].index
<1>0. PICK c, j : /\ j = i
                  /\ c = [at |-> "located", op |-> op, ref |-> r, type |-> fwMap[r].type,
                          line |-> Line(fwMap, r), index |-> i]
  OBVIOUS
<1>1. /\ calling[t].at = "idle" /\ op \in (Opens[fwMap[r].type] \cap OpenKinds) \cup {"close"}
      /\ \A u \in Threads : u # t => ~Conflict(op, r, calling[u])
      /\ calling' = [calling EXCEPT ![t] = c]
      /\ gMessageTable' = gMessageTable /\ gDSConnections' = gDSConnections /\ far' = far
      /\ issued' = issued /\ broken' = broken /\ answers' = answers /\ fwMap' = fwMap
      /\ crashed' = crashed /\ spoilt' = spoilt /\ leaked' = leaked
  BY <1>0 DEF Locate
<1>2. j \in Ends
  BY <1>0, TreeMeans DEF IInv
<1>3. /\ calling'[t] = c /\ calling' = [u \in Threads |-> calling'[u]]
      /\ \A u \in Threads : u # t => calling'[u] = calling[u]
  BY <1>1, CallStep DEF IInv
<1>4. c.at = "located" /\ c.op = op /\ c.ref = r /\ c.type = fwMap[r].type
      /\ c.line = Line(fwMap, r) /\ c.index = i
  BY <1>0
<1>5. CallIn(fwMap, c)
  BY <1>1, <1>4 DEF CallIn, Uses
<1>6. ASSUME NEW u \in Threads, u # t
      PROVE  ApartIn(fwMap, calling[u], c) /\ ApartIn(fwMap, c, calling[u])
  <2>1. CallIn(fwMap, calling[u]) /\ ~Conflict(op, r, calling[u])
    BY <1>1, <1>6 DEF IInv, CallsOK
  <2>2. ApartIn(fwMap, calling[u], c)
    BY <1>4, <2>1 DEF ApartIn, Conflict
  <2>3. ApartIn(fwMap, c, calling[u])
    BY <1>4, <2>1 DEF ApartIn, Conflict, CallIn
  <2> QED BY <2>2, <2>3
<1>7. CallsOK'
  <2>1. ASSUME NEW u \in Threads PROVE CallIn(fwMap', calling'[u])
    BY <1>1, <1>3, <1>5 DEF IInv, CallsOK
  <2>2. ASSUME NEW u \in Threads, NEW v \in Threads, u # v
        PROVE  ApartIn(fwMap', calling'[u], calling'[v])
    <3>1. CASE u = t
      BY <1>1, <1>3, <1>6, <2>2, <3>1
    <3>2. CASE v = t
      BY <1>1, <1>3, <1>6, <2>2, <3>2
    <3>3. CASE u # t /\ v # t
      BY <1>1, <1>3, <2>2, <3>3 DEF IInv, CallsOK
    <3> QED BY <3>1, <3>2, <3>3
  <2>3. CallsOK' <=> /\ \A u \in Threads : CallIn(fwMap', calling'[u])
                     /\ \A u, v \in Threads : u # v => ApartIn(fwMap', calling'[u], calling'[v])
    BY DEF CallsOK, CallIn, ApartIn, Uses
  <2> QED BY <2>1, <2>2, <2>3
<1> HIDE DEF i
<1>8. Touches(t, j)
  BY <1>0, <1>1, <1>3, <1>4, KeepsSelf DEF Touches
<1>9. Shape'
  BY <1>1, <1>3 DEF IInv, Shape
<1>10. TheEnd(j)'
  <2>1. TheEnd(j)
    BY <1>2 DEF IInv
  <2>2. ASSUME NEW u \in Threads
        PROVE  (Holds(u, j)' <=> Holds(u, j)) /\ (Lost(u, j)' <=> Lost(u, j))
    <3>1. CASE u = t
      BY <1>1, <1>3, <1>4, <3>1 DEF Holds, Lost
    <3>2. CASE u # t
      BY <1>3, <3>2 DEF Holds, Lost
    <3> QED BY <3>1, <3>2
  <2>3. \A q : (Known(q, j)' <=> Known(q, j)) /\ Seen(q)' = Seen(q)
    BY <1>1 DEF Known, Seen
  <2>4. Sound(j)' <=> Sound(j)
    <3>1. Sound(j) <=> j \notin spoilt /\ \A u \in Threads : ~Lost(u, j)
      BY SoundMeans
    <3>2. Sound(j)' <=> j \notin spoilt' /\ \A u \in Threads : ~Lost(u, j)'
      BY DEF Sound, Lost
    <3> QED BY <1>1, <2>2, <3>1, <3>2
  <2>5. EndOK(j)'
    BY <1>1, <2>1, <2>2, <2>3 DEF TheEnd, EndOK
  <2>6. RefsOK(j) => RefsOK(j)'
    BY <1>1, <2>3 DEF RefsOK
  <2>7. HeldOK(j) => HeldOK(j)'
    BY <1>1, <2>2, <2>3 DEF HeldOK
  <2> QED BY <2>1, <2>4, <2>5, <2>6, <2>7 DEF TheEnd
<1>11. IsTree(fwMap')
  BY <1>1 DEF IInv
<1> QED BY <1>1, <1>2, <1>7, <1>8, <1>9, <1>10, <1>11, StepKeepsIInv

LEMMA UncountKeeps ==
  ASSUME IInv, NEW t \in Threads, Uncount(t)
  PROVE  IInv'
<1>0. PICK i, left : i = calling[t].index /\ left = (gDSConnections[i] + kWord - 1) % kWord
  OBVIOUS
<1>1. /\ calling[t].at = "counting" /\ calling' = [calling EXCEPT ![t] = NotCalling]
      /\ gDSConnections' = [gDSConnections EXCEPT ![i] = left]
      /\ fwMap' = fwMap /\ crashed' = crashed /\ leaked' = leaked
  BY <1>0 DEF Uncount, Return
<1>2. /\ ~(left = 0 /\ gMessageTable[i]) =>
           UNCHANGED <<gMessageTable, far, issued, broken, answers, spoilt>>
      /\ left = 0 /\ gMessageTable[i] =>
           /\ gMessageTable' = [gMessageTable EXCEPT ![i] = i = 1]
           /\ far' = [far EXCEPT ![i] = None]
           /\ answers' = [answers EXCEPT ![i] = <<>>]
           /\ broken' = broken \ {i} /\ issued' = issued
           /\ spoilt' = (IF Mapped(i) THEN spoilt \cup {i} ELSE spoilt)
  BY <1>0 DEF Uncount, Closed, Spoils
<1>3. i \in Ends /\ (i # 1 <=> i \in Remote) /\ Holds(t, i)
  BY <1>0, <1>1, EndsAre DEF IInv, CallsOK, CallIn, Holds
<1>4. /\ calling'[t] = NotCalling /\ calling' = [u \in Threads |-> calling'[u]]
      /\ \A u \in Threads : u # t => calling'[u] = calling[u]
  BY <1>1, CallStep DEF IInv
<1>5. CallsOK'
  BY <1>1, IdleIsOK, CallsDone
<1>6. spoilt \subseteq spoilt' /\ \A j \in Ends : j # i => (j \in spoilt' <=> j \in spoilt)
  BY <1>2
<1>7. /\ \A j \in Ends : j # i =>
           /\ gMessageTable'[j] = gMessageTable[j] /\ gDSConnections'[j] = gDSConnections[j]
           /\ far'[j] = far[j] /\ issued'[j] = issued[j] /\ answers'[j] = answers[j]
           /\ (j \in broken' <=> j \in broken)
      /\ gDSConnections'[i] = left
      /\ left = 0 /\ gMessageTable[i] =>
           /\ far'[i] = None /\ answers'[i] = <<>> /\ i \notin broken'
           /\ (gMessageTable'[i] <=> i = 1)
  <2>1. CASE left = 0 /\ gMessageTable[i]
    BY <1>1, <1>2, <1>3, <2>1 DEF IInv, Shape
  <2>2. CASE ~(left = 0 /\ gMessageTable[i])
    BY <1>1, <1>2, <1>3, <2>2 DEF IInv, Shape
  <2> QED BY <2>1, <2>2
<1>8. Touches(t, i)
  <2>1. calling[t].at # "idle" => calling[t].index = i
    BY <1>0
  <2> QED BY <1>1, <1>4, <1>6, <1>7, <2>1, IdleIsOK, KeepsSelf DEF Touches
<1>9. Shape'
  <2>1. left \in Nat
    <3>1. gDSConnections[i] \in Nat /\ kWord \in Nat \ {0}
      BY <1>3, ConnectionsAssumption DEF IInv, Shape
    <3> QED BY <1>0, <3>1
  <2>2. CASE left = 0 /\ gMessageTable[i]
    <3>1. \A j \in Ends : DOMAIN far'[j] \subseteq 1..issued'[j]
      <4>1. issued' = issued /\ \A j \in Ends : DOMAIN far[j] \subseteq 1..issued[j]
        BY <1>2, <2>2 DEF IInv, Shape
      <4> QED BY <1>7, <2>2, <4>1 DEF None
    <3>2. spoilt' \subseteq Ends
      BY <1>2, <1>3, <2>2 DEF IInv, Shape
    <3>3. (i = 1) \in BOOLEAN
      OBVIOUS
    <3>4. gMessageTable' \in [Ends -> BOOLEAN]
      BY <1>2, <1>3, <2>2, <3>3 DEF IInv, Shape
    <3> QED BY <1>1, <1>2, <1>3, <1>4, <2>1, <2>2, <3>1, <3>2, <3>4 DEF IInv, Shape
  <2>3. CASE ~(left = 0 /\ gMessageTable[i])
    BY <1>1, <1>2, <1>3, <1>4, <2>1, <2>3 DEF IInv, Shape
  <2> QED BY <2>2, <2>3
<1>10. ASSUME i \notin spoilt' PROVE TheEnd(i)'
  <2>0. i \notin spoilt
    BY <1>6, <1>10
  <2>1. Sound(i)
    BY <1>3, <2>0, OpeningIsSound
  <2>2. /\ i \notin broken /\ answers[i] = <<>> /\ EndOK(i) /\ RefsOK(i) /\ HeldOK(i)
    BY <1>3, <2>1, SoundIsQuiet
  <2>3. \A r : Known(r, i)' <=> Known(r, i)
    BY <1>1 DEF Known
  <2>4. ASSUME NEW u \in Threads, Holds(u, i)' PROVE u # t /\ Holds(u, i)
    BY <1>4, <2>4, IdleIsOK DEF Holds
  <2>5. CASE ~(left = 0 /\ gMessageTable[i])
    <3>1. gMessageTable[i] /\ left # 0
      BY <1>3, <2>0, <2>2, <2>5 DEF EndOK
    <3>2. i \in Remote => i \in leaked
      <4>1. i \in Remote /\ i \notin leaked => gDSConnections[i] = 1 % kWord
        BY <2>0, <2>2, <3>1 DEF EndOK
      <4>2. kWord \in Nat \ {0}
        BY ConnectionsAssumption
      <4>3. gDSConnections[i] = 1 % kWord => left = 0
        <5>1. CASE kWord = 1
          BY <1>0, <5>1
        <5>2. CASE kWord > 1
          <6>1. 1 % kWord = 1
            BY <4>2, <5>2
          <6> QED BY <1>0, <4>2, <5>2, <6>1
        <5> QED BY <4>2, <5>1, <5>2
      <4> QED BY <3>1, <4>1, <4>3
    <3>3. EndOK(i)'
      BY <1>1, <1>2, <1>3, <2>0, <2>2, <2>3, <2>4, <2>5, <3>2 DEF EndOK
    <3>4. RefsOK(i)'
      BY <1>1, <1>2, <2>2, <2>5 DEF RefsOK, Known, Seen
    <3>5. HeldOK(i)'
      BY <1>1, <1>2, <1>3, <2>2, <2>5, <3>2 DEF HeldOK, Known
    <3> QED BY <3>3, <3>4, <3>5 DEF TheEnd
  <2>6. CASE left = 0 /\ gMessageTable[i]
    <3>1. \A r : ~Known(r, i)'
      BY <1>2, <1>10, <2>3, <2>6 DEF Mapped, Known
    <3>2. /\ far'[i] = None /\ answers'[i] = <<>> /\ i \notin broken'
          /\ (gMessageTable'[i] <=> i = 1) /\ gDSConnections'[i] = 0
      BY <1>7, <2>6
    <3>3. CASE i = 1
      <4>1. EndOK(i)'
        BY <1>3, <3>1, <3>2, <3>3 DEF EndOK
      <4>2. RefsOK(i)'
        BY <3>1 DEF RefsOK
      <4>3. HeldOK(i)'
        BY <1>3, <3>2, <3>3 DEF HeldOK, None
      <4> QED BY <4>1, <4>2, <4>3 DEF TheEnd
    <3>4. CASE i # 1
      <4>1. \A u \in Threads : ~Holds(u, i)'
        BY <1>3, <2>0, <2>2, <2>4, <3>4 DEF EndOK
      <4> QED BY <1>3, <3>1, <3>2, <3>4, <4>1, GoneIsOK
    <3> QED BY <3>3, <3>4
  <2> QED BY <2>5, <2>6
<1>11. TheEnd(i)'
  BY <1>10, SpoiltIsOK
<1>12. IsTree(fwMap')
  BY <1>1 DEF IInv
<1> QED BY <1>1, <1>3, <1>5, <1>6, <1>8, <1>9, <1>11, <1>12, StepKeepsIInv

\* What a lost call cleans up had references mapped, its own among them.
LEMMA CleanUpLostKeeps ==
  ASSUME IInv, NEW t \in Threads, CleanUpLost(t)
  PROVE  IInv'
<1>0. PICK i : i = calling[t].index
  OBVIOUS
<1>1. /\ calling[t].at = "lost" /\ calling' = [calling EXCEPT ![t] = NotCalling]
      /\ gDSConnections' = gDSConnections /\ fwMap' = fwMap /\ crashed' = crashed
  BY <1>0 DEF CleanUpLost, Return
<1>2. /\ ~gMessageTable[i] =>
           UNCHANGED <<gMessageTable, far, issued, broken, answers, spoilt, leaked>>
      /\ gMessageTable[i] =>
           /\ gMessageTable' = [gMessageTable EXCEPT ![i] = FALSE]
           /\ far' = [far EXCEPT ![i] = None]
           /\ answers' = [answers EXCEPT ![i] = <<>>]
           /\ broken' = broken \ {i} /\ issued' = issued
           /\ spoilt' = (IF Mapped(i) THEN spoilt \cup {i} ELSE spoilt)
           /\ leaked' = leaked \cup {i}
  BY <1>0 DEF CleanUpLost, Closed, Spoils
<1>3. i \in Ends /\ Known(calling[t].ref, i)
  <2>1. CallIn(fwMap, calling[t]) /\ Uses(calling[t])
    BY <1>1 DEF IInv, CallsOK, Uses
  <2> QED BY <1>0, <1>1, <2>1, EndsAre DEF CallIn, Known
<1>4. /\ calling'[t] = NotCalling /\ calling' = [u \in Threads |-> calling'[u]]
      /\ \A u \in Threads : u # t => calling'[u] = calling[u]
  BY <1>1, CallStep DEF IInv
<1>5. CallsOK'
  BY <1>1, IdleIsOK, CallsDone
<1>6. spoilt \subseteq spoilt' /\ \A j \in Ends : j # i => (j \in spoilt' <=> j \in spoilt)
  BY <1>2
<1>7. \A j \in Ends : j # i =>
           /\ gMessageTable'[j] = gMessageTable[j] /\ gDSConnections'[j] = gDSConnections[j]
           /\ far'[j] = far[j] /\ issued'[j] = issued[j] /\ answers'[j] = answers[j]
           /\ (j \in broken' <=> j \in broken) /\ (j \in leaked' <=> j \in leaked)
  BY <1>1, <1>2, <1>3 DEF IInv, Shape
<1>8. Touches(t, i)
  <2>1. calling[t].at # "idle" => calling[t].index = i
    BY <1>0
  <2> QED BY <1>1, <1>4, <1>6, <1>7, <2>1, IdleIsOK, KeepsSelf DEF Touches
<1>9. Shape'
  <2>1. CASE gMessageTable[i]
    <3>1. \A j \in Ends : DOMAIN far'[j] \subseteq 1..issued'[j]
      <4>1. issued' = issued /\ \A j \in Ends : DOMAIN far[j] \subseteq 1..issued[j]
        BY <1>2, <2>1 DEF IInv, Shape
      <4>2. far'[i] = None
        BY <1>2, <1>3, <2>1 DEF IInv, Shape
      <4> QED BY <1>7, <4>1, <4>2 DEF None
    <3>2. spoilt' \subseteq Ends /\ leaked' \subseteq Ends
      BY <1>2, <1>3, <2>1 DEF IInv, Shape
    <3> QED BY <1>1, <1>2, <1>3, <1>4, <2>1, <3>1, <3>2 DEF IInv, Shape
  <2>2. CASE ~gMessageTable[i]
    BY <1>1, <1>2, <1>4, <2>2 DEF IInv, Shape
  <2> QED BY <2>1, <2>2
<1>10. i \in spoilt'
  <2>1. CASE gMessageTable[i]
    BY <1>2, <1>3, <2>1 DEF Mapped, Known
  <2>2. CASE ~gMessageTable[i]
    BY <1>2, <1>3, <2>2, FreeIsEmpty
  <2> QED BY <2>1, <2>2
<1>11. IsTree(fwMap')
  BY <1>1 DEF IInv
<1> QED BY <1>1, <1>3, <1>5, <1>6, <1>8, <1>9, <1>10, <1>11, SpoiltIsOK, StepKeepsIInv

\* A connection that goes between the two steps of a call is a spoilt one.
LEMMA UseNothingKeeps ==
  ASSUME IInv, NEW t \in Threads, UseNothing(t)
  PROVE  IInv'
<1>0. PICK i : i = calling[t].index
  OBVIOUS
<1>1. /\ calling[t].at \in {"located", "opening"} /\ ~gMessageTable[i] /\ crashed' = i
      /\ gMessageTable' = gMessageTable /\ gDSConnections' = gDSConnections /\ far' = far
      /\ issued' = issued /\ broken' = broken /\ answers' = answers /\ fwMap' = fwMap
      /\ calling' = calling /\ spoilt' = spoilt /\ leaked' = leaked
  BY <1>0 DEF UseNothing
<1>2. CallIn(fwMap, calling[t])
  BY DEF IInv, CallsOK
<1>3. i \in Ends /\ (Known(calling[t].ref, i) \/ Holds(t, i))
  <2>1. CASE calling[t].at = "located"
    <3>1. calling[t].ref \in DOMAIN fwMap /\ fwMap[calling[t].ref].index = i
      BY <1>0, <1>2, <2>1 DEF CallIn, Uses
    <3> QED BY <3>1, TreeMeans DEF IInv, Known
  <2>2. CASE calling[t].at = "opening"
    BY <1>0, <1>2, <2>2 DEF CallIn, Holds
  <2> QED BY <1>1, <2>1, <2>2
<1>4. i \in spoilt
  BY <1>1, <1>3, FreeIsEmpty
<1>5. Shape' /\ IsTree(fwMap')
  BY <1>1 DEF IInv, Shape
<1>6. CallsOK'
  BY <1>1 DEF IInv, CallsOK, CallIn, ApartIn, Uses
<1>7. ASSUME NEW j \in Ends PROVE TheEnd(j)'
  <2>1. TheEnd(j)
    BY DEF IInv
  <2> QED BY <1>1, <2>1 DEF TheEnd, EndOK, RefsOK, HeldOK, Sound, Known, Holds, Lost, Seen
<1> QED BY <1>1, <1>4, <1>5, <1>6, <1>7 DEF IInv

-----------------------------------------------------------------------------
(***************************************************************************)
(* Steps that send.                                                        *)
(***************************************************************************)
LEMMA InTimeMeans ==
  ASSUME Shape, NEW i \in Ends, NEW f, NEW a, NEW served, served.far = f, served.answer = a,
         DOMAIN f \subseteq DOMAIN far[i] \cup {issued[i] + 1}, InTime(i, served)
  PROVE  /\ far'[i] = f /\ i \notin broken /\ broken' = broken
         /\ issued'[i] = IF DOMAIN f \subseteq DOMAIN far[i] THEN issued[i] ELSE issued[i] + 1
         /\ issued' \in [Ends -> Nat] /\ far' = [j \in Ends |-> far'[j]]
         /\ answers' = [j \in Ends |-> answers'[j]]
         /\ \A j \in Ends : DOMAIN far'[j] \subseteq 1..issued'[j]
         /\ \A j \in Ends : j # i =>
              far'[j] = far[j] /\ issued'[j] = issued[j] /\ answers'[j] = answers[j]
         /\ answers'[i] = Tail(Append(answers[i], a))
         /\ answers[i] = <<>> => answers'[i] = <<>>
<1>1. /\ i \notin broken /\ broken' = broken
      /\ far' = [far EXCEPT ![i] = f]
      /\ issued' = [issued EXCEPT ![i] = IF DOMAIN f \subseteq DOMAIN far[i] THEN @ ELSE @ + 1]
      /\ answers' = [answers EXCEPT ![i] = Tail(Append(@, a))]
  BY DEF InTime
<1>2. /\ far'[i] = f
      /\ issued'[i] = IF DOMAIN f \subseteq DOMAIN far[i] THEN issued[i] ELSE issued[i] + 1
      /\ issued' \in [Ends -> Nat] /\ far' = [j \in Ends |-> far'[j]]
      /\ \A j \in Ends : DOMAIN far'[j] \subseteq 1..issued'[j]
      /\ \A j \in Ends : j # i => far'[j] = far[j] /\ issued'[j] = issued[j]
  BY <1>1, SentShape
<1>3. /\ answers' = [j \in Ends |-> answers'[j]]
      /\ answers'[i] = Tail(Append(answers[i], a))
      /\ \A j \in Ends : j # i => answers'[j] = answers[j]
  BY <1>1 DEF Shape
<1>4. answers[i] = <<>> => answers'[i] = <<>>
  BY <1>3, ReadInTime
<1> QED BY <1>1, <1>2, <1>3, <1>4

\* A reference that is made at the other end and mapped.
LEMMA MappedIsHeld ==
  ASSUME Shape, IsTree(fwMap), IsTree(fwMap'), NEW i \in Ends, RefsOK(i),
         NEW e, NEW v, e.index = i, e.remote = issued[i] + 1,
         far'[i] = With(far[i], issued[i] + 1, v), issued'[i] = issued[i] + 1,
         NEW r, Added(fwMap, fwMap', r, e), Keeps(fwMap, fwMap'), Seen(r)' = v
  PROVE  /\ RefsOK(i)'
         /\ (\A n \in DOMAIN far[i] : far[i][n].type = "value"
                                      \/ \E q : Known(q, i) /\ fwMap[q].remote = n) =>
            \A n \in DOMAIN far'[i] : far'[i][n].type = "value"
                                      \/ \E q : Known(q, i)' /\ fwMap'[q].remote = n
<1>0. PICK k : k = issued[i] + 1
  OBVIOUS
<1>1. issued[i] \in Nat /\ k \in Nat /\ k \in 1..issued'[i] /\ k \notin 1..issued[i]
      /\ DOMAIN far[i] \subseteq 1..issued[i] /\ 1..issued[i] \subseteq 1..issued'[i]
  <2>1. issued[i] \in Nat /\ DOMAIN far[i] \subseteq 1..issued[i] /\ issued'[i] = k
    BY <1>0 DEF Shape
  <2> QED BY <1>0, <2>1
<1>2. /\ DOMAIN far'[i] = DOMAIN far[i] \cup {k} /\ far'[i][k] = v
      /\ \A n \in DOMAIN far[i] : far'[i][n] = far[i][n]
  BY <1>0, <1>1 DEF With
<1>3. /\ r \in DOMAIN fwMap' /\ fwMap'[r] = e /\ r \notin DOMAIN fwMap
      /\ \A q \in DOMAIN fwMap : q \in DOMAIN fwMap' /\ fwMap'[q] = fwMap[q]
      /\ \A q \in DOMAIN fwMap' : q = r \/ q \in DOMAIN fwMap
  BY DEF Added
<1>4. ASSUME NEW q
      PROVE  /\ Known(q, i)' <=> Known(q, i) \/ q = r
             /\ Known(q, i) => fwMap'[q] = fwMap[q] /\ Seen(q)' = Seen(q)
  <2>1. Known(q, i)' <=> Known(q, i) \/ q = r
    BY <1>3 DEF Known
  <2>2. Known(q, i) => q \in DOMAIN fwMap /\ q \in DOMAIN fwMap'
    BY <1>3 DEF Known
  <2> QED BY <1>3, <2>1, <2>2, SameSeen
<1>5. fwMap'[r].remote = k
  BY <1>0, <1>3
<1>6. ASSUME NEW q, Known(q, i)'
      PROVE  /\ fwMap'[q].remote \in 1..issued'[i]
             /\ fwMap'[q].remote \in DOMAIN far'[i] => far'[i][fwMap'[q].remote] = Seen(q)'
             /\ fwMap'[q].remote \in DOMAIN far'[i] \/ fwMap'[q].type = "value"
  <2>1. CASE q = r
    BY <1>1, <1>2, <1>5, <2>1
  <2>2. CASE Known(q, i)
    <3>1. /\ fwMap[q].remote \in 1..issued[i]
          /\ fwMap[q].remote \in DOMAIN far[i] => far[i][fwMap[q].remote] = Seen(q)
          /\ fwMap[q].remote \in DOMAIN far[i] \/ fwMap[q].type = "value"
      BY <2>2 DEF RefsOK
    <3>2. fwMap'[q] = fwMap[q] /\ Seen(q)' = Seen(q)
      BY <1>4, <2>2
    <3> QED BY <1>1, <1>2, <3>1, <3>2
  <2> QED BY <1>4, <1>6, <2>1, <2>2
<1>7. ASSUME NEW p, NEW q, Known(p, i)', Known(q, i)', fwMap'[p].remote = fwMap'[q].remote
      PROVE  p = q
  <2>1. \A x : Known(x, i) => fwMap'[x].remote = fwMap[x].remote
                              /\ fwMap[x].remote \in 1..issued[i]
    BY <1>4 DEF RefsOK
  <2>2. CASE p = r \/ q = r
    BY <1>1, <1>4, <1>5, <1>7, <2>1, <2>2
  <2>3. CASE p # r /\ q # r
    <3>1. Known(p, i) /\ Known(q, i) /\ fwMap[p].remote = fwMap[q].remote
      BY <1>4, <1>7, <2>1, <2>3
    <3> QED BY <3>1 DEF RefsOK
  <2> QED BY <2>2, <2>3
<1>8. RefsOK(i)'
  BY <1>6, <1>7 DEF RefsOK
<1>9. ASSUME \A n \in DOMAIN far[i] : far[i][n].type = "value"
                                      \/ \E q : Known(q, i) /\ fwMap[q].remote = n,
             NEW n \in DOMAIN far'[i]
      PROVE  far'[i][n].type = "value" \/ \E q : Known(q, i)' /\ fwMap'[q].remote = n
  <2>1. CASE n = k
    BY <1>4, <1>5, <2>1
  <2>2. CASE n \in DOMAIN far[i]
    BY <1>2, <1>4, <1>9, <2>2
  <2> QED BY <1>2, <2>1, <2>2
<1> QED BY <1>8, <1>9

\* One that is made there while the map is full.
LEMMA UnmappedIsHarmless ==
  ASSUME Shape, NEW i \in Ends, RefsOK(i), NEW v, fwMap' = fwMap,
         far'[i] = With(far[i], issued[i] + 1, v), issued'[i] = issued[i] + 1
  PROVE  RefsOK(i)'
<1>0. PICK k : k = issued[i] + 1
  OBVIOUS
<1>1. issued[i] \in Nat /\ k \notin 1..issued[i] /\ 1..issued[i] \subseteq 1..issued'[i]
  <2>1. issued[i] \in Nat /\ issued'[i] = k
    BY <1>0 DEF Shape
  <2> QED BY <1>0, <2>1
<1>2. /\ DOMAIN far'[i] = DOMAIN far[i] \cup {k}
      /\ \A n \in DOMAIN far[i] : n # k => far'[i][n] = far[i][n]
  BY <1>0 DEF With
<1>3. \A q : (Known(q, i)' <=> Known(q, i)) /\ Seen(q)' = Seen(q)
  BY DEF Known, Seen
<1>4. ASSUME NEW q, Known(q, i)'
      PROVE  /\ fwMap'[q].remote \in 1..issued'[i]
             /\ fwMap'[q].remote \in DOMAIN far'[i] => far'[i][fwMap'[q].remote] = Seen(q)'
             /\ fwMap'[q].remote \in DOMAIN far'[i] \/ fwMap'[q].type = "value"
  <2>1. /\ fwMap[q].remote \in 1..issued[i]
        /\ fwMap[q].remote \in DOMAIN far[i] => far[i][fwMap[q].remote] = Seen(q)
        /\ fwMap[q].remote \in DOMAIN far[i] \/ fwMap[q].type = "value"
    BY <1>3, <1>4 DEF RefsOK
  <2> QED BY <1>1, <1>2, <1>3, <2>1
<1>5. \A p, q : Known(p, i)' /\ Known(q, i)' /\ fwMap'[p].remote = fwMap'[q].remote => p = q
  BY <1>3 DEF RefsOK
<1> QED BY <1>4, <1>5 DEF RefsOK

LEMMA OpenDirKeeps ==
  ASSUME IInv, NEW t \in Threads, OpenDir(t)
  PROVE  IInv'
<1>0. PICK i, s, k, v, a :
         /\ i = calling[t].index /\ s = Session(i) /\ k = issued[i] + 1
         /\ v = [type |-> "dir", parent |-> 0] /\ a = Read(i, s)
  OBVIOUS
<1>1. PICK e : e = [type |-> "dir", parent |-> <<>>, remote |-> a.ref, index |-> i]
  OBVIOUS
<1>2. /\ calling[t].at = "opening" /\ gMessageTable[i] /\ InTime(i, s)
      /\ IF a.type = "dir" THEN GetNewRef(e) ELSE UNCHANGED <<fwMap, place, leaked>>
      /\ calling' = [calling EXCEPT ![t] = NotCalling]
      /\ gMessageTable' = gMessageTable /\ gDSConnections' = gDSConnections
      /\ crashed' = crashed /\ spoilt' = spoilt
  BY <1>0, <1>1 DEF OpenDir, Return
<1>3. i \in Ends /\ Holds(t, i)
  BY <1>0, <1>2 DEF IInv, CallsOK, CallIn, Holds
<1>4. s.far = With(far[i], k, v) /\ s.answer = Reply("dir", k)
  BY <1>0 DEF Session
<1>5. DOMAIN s.far \subseteq DOMAIN far[i] \cup {issued[i] + 1}
  BY <1>0, <1>4 DEF With
<1>6. /\ far'[i] = s.far /\ i \notin broken /\ broken' = broken
      /\ issued'[i] = IF DOMAIN s.far \subseteq DOMAIN far[i] THEN issued[i] ELSE issued[i] + 1
      /\ issued' \in [Ends -> Nat] /\ far' = [j \in Ends |-> far'[j]]
      /\ answers' = [j \in Ends |-> answers'[j]]
      /\ \A j \in Ends : DOMAIN far'[j] \subseteq 1..issued'[j]
      /\ \A j \in Ends : j # i =>
           far'[j] = far[j] /\ issued'[j] = issued[j] /\ answers'[j] = answers[j]
      /\ answers[i] = <<>> => answers'[i] = <<>>
  BY <1>2, <1>3, <1>5, InTimeMeans DEF IInv
<1>7. e.index = i /\ e.type = "dir" /\ e.parent = <<>> /\ e.remote = a.ref /\ Fits(fwMap, e)
  BY <1>1, <1>3 DEF Fits, Types
<1>8. /\ IsTree(fwMap') /\ Keeps(fwMap, fwMap') /\ leaked \subseteq leaked'
      /\ leaked' \subseteq leaked \cup {i}
      /\ \A r \in DOMAIN fwMap : r \in DOMAIN fwMap'
      /\ \A r \in DOMAIN fwMap' : r \notin DOMAIN fwMap => fwMap'[r].index = i
  <2>1. CASE fwMap' = fwMap /\ leaked' \in {leaked, leaked \cup {i}}
    BY <2>1, KeepsSelf DEF IInv
  <2>2. CASE leaked' = leaked /\ \E r : Added(fwMap, fwMap', r, e)
    <3>1. PICK r : Added(fwMap, fwMap', r, e)
      BY <2>2
    <3>2. IsTree(fwMap') /\ Keeps(fwMap, fwMap')
      BY <1>7, <3>1, AddedKeeps DEF IInv
    <3> QED BY <1>7, <2>2, <3>1, <3>2 DEF Added
  <2>3. CASE a.type = "dir"
    <3>1. GetNewRef(e) /\ IsTree(fwMap)
      BY <1>2, <2>3 DEF IInv
    <3> QED BY <1>7, <2>1, <2>2, <3>1, NewRef
  <2>4. CASE a.type # "dir"
    BY <1>2, <2>1, <2>4
  <2> QED BY <2>3, <2>4
<1>9. CallsOK'
  <2>1. calling'[t] = NotCalling /\ \A u \in Threads : u # t => calling'[u] = calling[u]
    BY <1>2, CallStep DEF IInv
  <2>2. \A u \in Threads : Uses(calling[u]) => calling[u].ref \in DOMAIN fwMap'
    BY <1>8 DEF IInv, CallsOK, CallIn
  <2> QED BY <1>8, <2>1, <2>2, IdleIsOK, CallsAfter DEF IInv
<1>10. Touches(t, i)
  <2>1. \A j \in Ends : j # i => (j \in leaked' <=> j \in leaked)
    BY <1>8
  <2>2. \A r \in DOMAIN fwMap : r \notin DOMAIN fwMap' => fwMap[r].index = i
    BY <1>8
  <2>3. \A j \in Ends : j # i => /\ far'[j] = far[j] /\ issued'[j] = issued[j]
                                  /\ answers'[j] = answers[j]
                                  /\ (j \in leaked' <=> j \in leaked)
    BY <1>6, <2>1
  <2>4. calling'[t].at = "idle" /\ \A u \in Threads : u # t => calling'[u] = calling[u]
    BY <1>2, CallStep, IdleIsOK DEF IInv
  <2> QED BY <1>0, <1>2, <1>3, <1>6, <1>8, <2>2, <2>3, <2>4 DEF Touches
<1>11. Shape'
  <2>1. calling' = [u \in Threads |-> calling'[u]]
    BY <1>2, CallStep DEF IInv
  <2>2. leaked' \subseteq Ends
    BY <1>3, <1>8 DEF IInv, Shape
  <2> QED BY <1>2, <1>6, <2>1, <2>2 DEF IInv, Shape
<1>12. ASSUME i \notin spoilt PROVE TheEnd(i)'
  <2>1. Sound(i)
    BY <1>3, <1>12, OpeningIsSound
  <2>2. /\ answers[i] = <<>> /\ EndOK(i) /\ RefsOK(i) /\ HeldOK(i)
    BY <1>3, <2>1, SoundIsQuiet
  <2>3. a = Reply("dir", k)
    BY <1>0, <1>3, <1>4, <2>2, ReadInTime DEF Read
  <2>4. a.type = "dir" /\ a.ref = k
    BY <2>3 DEF Reply
  <2>5. far'[i] = With(far[i], issued[i] + 1, v) /\ issued'[i] = issued[i] + 1
    <3>1. k \notin DOMAIN far[i] /\ k \in DOMAIN With(far[i], k, v)
      BY <1>0, <1>3 DEF IInv, Shape, With
    <3> QED BY <1>0, <1>4, <1>6, <3>1
  <2>6. ASSUME NEW u \in Threads, Holds(u, i)' PROVE u # t /\ Holds(u, i)
    <3>1. calling'[t] = NotCalling /\ (u # t => calling'[u] = calling[u])
      BY <1>2, CallStep DEF IInv
    <3> QED BY <2>6, <3>1, IdleIsOK DEF Holds
  <2>7. answers'[i] = <<>> /\ i \notin broken'
    BY <1>6, <2>2
  <2>8. CASE fwMap' = fwMap /\ leaked' = leaked \cup {i}
    <3>1. \A r : Known(r, i)' <=> Known(r, i)
      BY <2>8 DEF Known
    <3>2. EndOK(i)'
      BY <1>2, <1>12, <2>2, <2>6, <2>7, <2>8, <3>1 DEF EndOK
    <3>3. RefsOK(i)'
      BY <1>3, <2>2, <2>5, <2>8, UnmappedIsHarmless DEF IInv
    <3>4. HeldOK(i)'
      BY <2>8 DEF HeldOK
    <3> QED BY <3>2, <3>3, <3>4 DEF TheEnd
  <2>9. CASE leaked' = leaked /\ \E r : Added(fwMap, fwMap', r, e)
    <3>1. PICK r : Added(fwMap, fwMap', r, e)
      BY <2>9
    <3>2. \A q : Known(q, i)' <=> Known(q, i) \/ q = r
      BY <1>7, <3>1 DEF Known, Added
    <3>3. \A q : Known(q, i) => fwMap'[q] = fwMap[q]
      BY <3>1 DEF Known, Added
    <3>4. Seen(r)' = v
      <4>1. fwMap'[r].type = "dir"
        BY <1>7, <3>1 DEF Added
      <4> QED BY <1>0, <4>1 DEF Seen
    <3>5. EndOK(i)'
      <4>1. CASE i \in Remote
        <5>1. /\ \A q : ~Known(q, i)
              /\ \A u \in Threads : ~Holds(u, i)'
          BY <1>3, <1>12, <2>2, <2>6, <4>1 DEF EndOK
        <5>2. \A q : Known(q, i)' => q = r
          BY <3>2, <5>1
        <5> QED BY <1>2, <1>12, <2>2, <2>7, <2>9, <5>1, <5>2 DEF EndOK
      <4>2. CASE i \notin Remote
        BY <1>2, <1>12, <2>6, <2>2, <2>7, <4>2 DEF EndOK
      <4> QED BY <4>1, <4>2
    <3>6. e.remote = issued[i] + 1
      BY <1>0, <1>7, <2>4
    <3>7. /\ RefsOK(i)'
          /\ (\A n \in DOMAIN far[i] : far[i][n].type = "value"
                                       \/ \E q : Known(q, i) /\ fwMap[q].remote = n) =>
             \A n \in DOMAIN far'[i] : far'[i][n].type = "value"
                                       \/ \E q : Known(q, i)' /\ fwMap'[q].remote = n
      BY <1>3, <1>7, <1>8, <2>2, <2>5, <3>1, <3>4, <3>6, MappedIsHeld DEF IInv
    <3>8. HeldOK(i)'
      <4>1. i \notin leaked' => i \notin leaked
        BY <1>8
      <4>2. Known(r, i)'
        BY <3>2
      <4> QED BY <2>2, <3>7, <4>1, <4>2 DEF HeldOK
    <3> QED BY <3>5, <3>7, <3>8 DEF TheEnd
  <2>10. GetNewRef(e) /\ IsTree(fwMap)
    BY <1>2, <2>4 DEF IInv
  <2> QED BY <1>7, <2>8, <2>9, <2>10, NewRef
<1>13. TheEnd(i)'
  BY <1>2, <1>12, SpoiltIsOK
<1> QED BY <1>2, <1>3, <1>8, <1>9, <1>10, <1>11, <1>13, StepKeepsIInv

\* The reference a call has is that of something the other end has opened, which it
\* opens more below.
LEMMA OpenBelowIsServed ==
  ASSUME IInv, NEW t \in Threads, calling[t].at = "located", calling[t].op # "close",
         NEW i \in Ends, i = calling[t].index, Sound(i),
         NEW n, n = fwMap[calling[t].ref].remote
  PROVE  /\ n \in DOMAIN far[i] /\ far[i][n] = Seen(calling[t].ref)
         /\ Asked(t) = [far |-> With(far[i], issued[i] + 1,
                                     [type |-> calling[t].op,
                                      parent |-> Above(i, n, calling[t].op)]),
                        answer |-> Reply(calling[t].op, issued[i] + 1)]
<1>0. PICK c : c = calling[t] /\ Uses(c)
  BY DEF Uses
<1>1. /\ c.ref \in DOMAIN fwMap /\ fwMap[c.ref].type = c.type /\ Known(c.ref, i)
      /\ c.op \in Opens[c.type] /\ c.type \in Types
      /\ Asked(t) = Serve(i, c.op, c.type, n)
  BY <1>0, AskedIs
<1>2. c.type # "value"
  BY <1>1, OpensMeans
<1>3. n \in DOMAIN far[i] /\ far[i][n] = Seen(c.ref)
  BY <1>0, <1>1, <1>2, SoundIsQuiet DEF RefsOK
<1>4. far[i][n].type = c.type
  BY <1>1, <1>3 DEF Seen
<1>5. Serve(i, c.op, c.type, n) =
        [far |-> With(far[i], issued[i] + 1, [type |-> c.op, parent |-> Above(i, n, c.op)]),
         answer |-> Reply(c.op, issued[i] + 1)]
  BY <1>0, <1>1, <1>3, <1>4, ServeIs
<1> QED BY <1>0, <1>1, <1>3, <1>5

LEMMA OpenBelowKeeps ==
  ASSUME IInv, NEW t \in Threads, OpenBelow(t)
  PROVE  IInv'
<1>0. PICK c, i, n, s, k, v, a :
         /\ c = calling[t] /\ i = c.index /\ n = fwMap[c.ref].remote
         /\ s = Asked(t) /\ k = issued[i] + 1
         /\ v = [type |-> c.op, parent |-> Above(i, n, c.op)] /\ a = Read(i, s)
  OBVIOUS
<1>1. PICK e : e = [type |-> c.op, parent |-> c.ref, remote |-> a.ref, index |-> i]
  OBVIOUS
<1>2. /\ c.at = "located" /\ gMessageTable[i] /\ c.op # "close" /\ InTime(i, s)
      /\ IF a.type = c.op THEN GetNewRef(e) ELSE UNCHANGED <<fwMap, place, leaked>>
      /\ calling' = [calling EXCEPT ![t] = NotCalling]
      /\ gMessageTable' = gMessageTable /\ gDSConnections' = gDSConnections
      /\ crashed' = crashed /\ spoilt' = spoilt
  BY <1>0, <1>1 DEF OpenBelow, Return, Sends
<1>3. Uses(calling[t])
  BY <1>0, <1>2 DEF Uses
<1>4. /\ c.ref \in DOMAIN fwMap /\ fwMap[c.ref].type = c.type /\ fwMap[c.ref].index = i
      /\ i \in Ends /\ Known(c.ref, i) /\ c.op \in Opens[c.type] /\ c.type \in Types
      /\ s = Serve(i, c.op, c.type, n)
  BY <1>0, <1>2, <1>3, AskedIs
<1>5. DOMAIN s.far \subseteq DOMAIN far[i] \cup {issued[i] + 1}
  BY <1>4, ServeMakesOne
<1>6. /\ far'[i] = s.far /\ i \notin broken /\ broken' = broken
      /\ issued'[i] = IF DOMAIN s.far \subseteq DOMAIN far[i] THEN issued[i] ELSE issued[i] + 1
      /\ issued' \in [Ends -> Nat] /\ far' = [j \in Ends |-> far'[j]]
      /\ answers' = [j \in Ends |-> answers'[j]]
      /\ \A j \in Ends : DOMAIN far'[j] \subseteq 1..issued'[j]
      /\ \A j \in Ends : j # i =>
           far'[j] = far[j] /\ issued'[j] = issued[j] /\ answers'[j] = answers[j]
      /\ answers[i] = <<>> => answers'[i] = <<>>
  BY <1>2, <1>4, <1>5, InTimeMeans DEF IInv
<1>7. e.index = i /\ e.type = c.op /\ e.parent = c.ref /\ e.remote = a.ref
  BY <1>1
<1>70. /\ c.op \in Types
       /\ \/ c.op = "node" /\ c.type = "dir"
          \/ c.op \in {"record", "list"} /\ c.type = "node"
          \/ c.op = "value" /\ c.type = "list"
  BY <1>4, OpensMeans
<1>71. Fits(fwMap, e)
  BY <1>4, <1>7, <1>70 DEF Fits
<1>8. /\ IsTree(fwMap') /\ Keeps(fwMap, fwMap') /\ leaked \subseteq leaked'
      /\ leaked' \subseteq leaked \cup {i}
      /\ \A r \in DOMAIN fwMap : r \in DOMAIN fwMap'
      /\ \A r \in DOMAIN fwMap' : r \notin DOMAIN fwMap => fwMap'[r].index = i
  <2>1. CASE fwMap' = fwMap /\ leaked' \in {leaked, leaked \cup {i}}
    BY <2>1, KeepsSelf DEF IInv
  <2>2. CASE leaked' = leaked /\ \E r : Added(fwMap, fwMap', r, e)
    <3>1. PICK r : Added(fwMap, fwMap', r, e)
      BY <2>2
    <3>2. IsTree(fwMap') /\ Keeps(fwMap, fwMap')
      BY <1>71, <3>1, AddedKeeps DEF IInv
    <3> QED BY <1>7, <2>2, <3>1, <3>2 DEF Added
  <2>3. CASE a.type = c.op
    <3>1. GetNewRef(e) /\ IsTree(fwMap)
      BY <1>2, <2>3 DEF IInv
    <3> QED BY <1>7, <2>1, <2>2, <3>1, NewRef
  <2>4. CASE a.type # c.op
    BY <1>2, <2>1, <2>4
  <2> QED BY <2>3, <2>4
<1>9. CallsOK'
  <2>1. calling'[t] = NotCalling /\ \A u \in Threads : u # t => calling'[u] = calling[u]
    BY <1>2, CallStep DEF IInv
  <2>2. \A u \in Threads : Uses(calling[u]) => calling[u].ref \in DOMAIN fwMap'
    BY <1>8 DEF IInv, CallsOK, CallIn
  <2> QED BY <1>8, <2>1, <2>2, IdleIsOK, CallsAfter DEF IInv
<1>10. Touches(t, i)
  <2>1. \A j \in Ends : j # i => (j \in leaked' <=> j \in leaked)
    BY <1>8
  <2>2. \A r \in DOMAIN fwMap : r \notin DOMAIN fwMap' => fwMap[r].index = i
    BY <1>8
  <2>3. \A j \in Ends : j # i => /\ far'[j] = far[j] /\ issued'[j] = issued[j]
                                  /\ answers'[j] = answers[j]
                                  /\ (j \in leaked' <=> j \in leaked)
    BY <1>6, <2>1
  <2>4. calling'[t].at = "idle" /\ \A u \in Threads : u # t => calling'[u] = calling[u]
    BY <1>2, CallStep, IdleIsOK DEF IInv
  <2> QED BY <1>0, <1>2, <1>4, <1>6, <1>8, <2>2, <2>3, <2>4 DEF Touches
<1>11. Shape'
  <2>1. calling' = [u \in Threads |-> calling'[u]]
    BY <1>2, CallStep DEF IInv
  <2>2. leaked' \subseteq Ends
    BY <1>4, <1>8 DEF IInv, Shape
  <2> QED BY <1>2, <1>6, <2>1, <2>2 DEF IInv, Shape
<1>12. ASSUME NEW u \in Threads
       PROVE  (Holds(u, i)' <=> Holds(u, i)) /\ (Lost(u, i)' <=> Lost(u, i))
  <2>1. calling'[t] = NotCalling /\ (u # t => calling'[u] = calling[u])
    BY <1>2, CallStep DEF IInv
  <2> QED BY <1>0, <1>2, <2>1, IdleIsOK DEF Holds, Lost
<1>13. Sound(i)' => Sound(i)
  BY <1>2, <1>12, SoundMeans DEF Sound, Lost
<1>14. fwMap' = fwMap \/ \E r : Added(fwMap, fwMap', r, e)
  <2> SUFFICES ASSUME a.type = c.op PROVE fwMap' = fwMap \/ \E r : Added(fwMap, fwMap', r, e)
    BY <1>2
  <2>1. GetNewRef(e) /\ IsTree(fwMap)
    BY <1>2 DEF IInv
  <2>2. CASE fwMap' = fwMap
    BY <2>2
  <2>3. CASE \E r : Added(fwMap, fwMap', r, e)
    BY <2>3
  <2> QED BY <2>1, <2>2, <2>3, NewRef
<1>15. ASSUME i \notin spoilt PROVE EndOK(i)'
  <2>1. EndOK(i)
    BY <1>4 DEF IInv, TheEnd
  <2>2. ASSUME NEW q, Known(q, i)', fwMap'[q].type = "dir"
        PROVE  Known(q, i) /\ fwMap[q].type = "dir"
    <3>1. q \in DOMAIN fwMap => fwMap'[q] = fwMap[q]
      BY <1>8 DEF Keeps
    <3>2. CASE q \in DOMAIN fwMap
      BY <2>2, <3>1, <3>2 DEF Known
    <3>3. CASE q \notin DOMAIN fwMap
      <4>1. q \in DOMAIN fwMap'
        BY <2>2 DEF Known
      <4>2. fwMap'[q] = e
        BY <1>14, <3>3, <4>1 DEF Added
      <4> QED BY <1>7, <1>70, <2>2, <4>2
    <3> QED BY <3>2, <3>3
  <2>3. i \in broken' \/ answers'[i] # <<>> => \E u \in Threads : Lost(u, i)'
    BY <1>6, <1>12, <1>15, <2>1 DEF EndOK
  <2>4. i \in Remote => \A u \in Threads : ~Holds(u, i)'
    BY <1>4, <1>12, <1>15, <2>1 DEF EndOK
  <2>5. i \in Remote => /\ i \notin leaked' => i \notin leaked
                        /\ i \notin leaked =>
                             gDSConnections[i] = IF gMessageTable[i] THEN 1 % kWord ELSE 0
    BY <1>8, <1>15, <2>1 DEF EndOK
  <2>6. \A u \in Threads : Holds(u, i)' => gMessageTable'[i]
    BY <1>2
  <2>7. i \in Remote => \A r, q : /\ Known(r, i)' /\ fwMap'[r].type = "dir"
                                  /\ Known(q, i)' /\ fwMap'[q].type = "dir"
                                  => r = q
    BY <1>15, <2>1, <2>2 DEF EndOK
  <2> QED BY <1>2, <2>3, <2>4, <2>5, <2>6, <2>7 DEF EndOK
<1>16. ASSUME Sound(i) PROVE RefsOK(i)' /\ HeldOK(i)'
  <2>1. RefsOK(i) /\ HeldOK(i) /\ answers[i] = <<>>
    BY <1>4, <1>16, SoundIsQuiet
  <2>2. /\ n \in DOMAIN far[i] /\ far[i][n] = Seen(c.ref)
        /\ s = [far |-> With(far[i], k, v), answer |-> Reply(c.op, k)]
    BY <1>0, <1>2, <1>4, <1>16, OpenBelowIsServed
  <2>3. s.far = With(far[i], k, v) /\ s.answer = Reply(c.op, k)
    BY <2>2
  <2>4. a = Reply(c.op, k)
    BY <1>0, <1>4, <2>1, <2>3, ReadInTime DEF Read
  <2>5. a.type = c.op /\ a.ref = k
    BY <2>4 DEF Reply
  <2>6. far'[i] = With(far[i], issued[i] + 1, v) /\ issued'[i] = issued[i] + 1
    <3>1. k \notin DOMAIN far[i] /\ k \in DOMAIN With(far[i], k, v)
      BY <1>0, <1>4 DEF IInv, Shape, With
    <3> QED BY <1>0, <1>6, <2>3, <3>1
  <2>7. GetNewRef(e) /\ IsTree(fwMap)
    BY <1>2, <2>5 DEF IInv
  <2>8. CASE fwMap' = fwMap /\ leaked' = leaked \cup {i}
    <3>1. RefsOK(i)'
      BY <1>4, <2>1, <2>6, <2>8, UnmappedIsHarmless DEF IInv
    <3>2. HeldOK(i)'
      BY <2>8 DEF HeldOK
    <3> QED BY <3>1, <3>2
  <2>9. CASE leaked' = leaked /\ \E r : Added(fwMap, fwMap', r, e)
    <3>1. PICK r : Added(fwMap, fwMap', r, e)
      BY <2>9
    <3>2. Seen(r)' = v
      <4>1. fwMap'[r] = e /\ fwMap'[c.ref] = fwMap[c.ref]
        BY <1>4, <3>1 DEF Added
      <4>2. CASE c.op # "value"
        <5>1. c.op # "dir"
          BY <1>70
        <5> QED BY <1>0, <1>7, <4>1, <4>2, <5>1 DEF Seen, Above
      <4>3. CASE c.op = "value"
        <5>1. c.type = "list"
          BY <1>70, <4>3
        <5> DEFINE p == fwMap[c.ref].parent
        <5>2. p \in DOMAIN fwMap /\ fwMap'[p] = fwMap[p]
          <6>1. p \in DOMAIN fwMap
            BY <1>4, <5>1, TreeMeans DEF IInv
          <6> QED BY <3>1, <6>1 DEF Added
        <5>3. far[i][n].parent = fwMap[p].remote
          BY <1>4, <2>2, <5>1 DEF Seen
        <5>4. v = [type |-> "value", parent |-> fwMap[p].remote]
          BY <1>0, <4>3, <5>3 DEF Above
        <5>5. Seen(r)' = [type |-> "value", parent |-> fwMap'[p].remote]
          BY <1>7, <4>1, <4>3 DEF Seen
        <5> QED BY <5>2, <5>4, <5>5
      <4> QED BY <4>2, <4>3
    <3>3. e.remote = issued[i] + 1
      BY <1>0, <1>7, <2>5
    <3>4. /\ RefsOK(i)'
          /\ (\A m \in DOMAIN far[i] : far[i][m].type = "value"
                                       \/ \E q : Known(q, i) /\ fwMap[q].remote = m) =>
             \A m \in DOMAIN far'[i] : far'[i][m].type = "value"
                                       \/ \E q : Known(q, i)' /\ fwMap'[q].remote = m
      BY <1>4, <1>7, <1>8, <2>1, <2>6, <3>1, <3>2, <3>3, MappedIsHeld DEF IInv
    <3>5. Known(r, i)'
      BY <1>7, <3>1 DEF Known, Added
    <3>6. i \notin leaked' => i \notin leaked
      BY <1>8
    <3>7. HeldOK(i)'
      BY <2>1, <3>4, <3>5, <3>6 DEF HeldOK
    <3> QED BY <3>4, <3>7
  <2> QED BY <1>7, <2>7, <2>8, <2>9, NewRef
<1>17. TheEnd(i)'
  BY <1>2, <1>13, <1>15, <1>16, SpoiltIsOK DEF TheEnd
<1> QED BY <1>2, <1>4, <1>8, <1>9, <1>10, <1>11, <1>17, StepKeepsIInv

LEMMA CallFailsKeeps ==
  ASSUME IInv, NEW t \in Threads, CallFails(t)
  PROVE  IInv'
<1>0. PICK c, i, s, d : /\ c = calling[t] /\ i = c.index /\ s = Asked(t)
                        /\ d = [c EXCEPT !.at = "lost"]
  OBVIOUS
<1>1. /\ c.at = "located" /\ (TooLate(i, s) \/ Never(i))
      /\ calling' = [calling EXCEPT ![t].at = "lost"]
      /\ gMessageTable[i] /\ gMessageTable' = gMessageTable /\ gDSConnections' = gDSConnections
      /\ fwMap' = fwMap /\ crashed' = crashed /\ spoilt' = spoilt /\ leaked' = leaked
  BY <1>0 DEF CallFails, Sends
<1>2. Uses(calling[t]) /\ CallIn(fwMap, c)
  BY <1>0, <1>1 DEF Uses, IInv, CallsOK
<1>3. i \in Ends /\ i \in Remote /\ Known(c.ref, i)
      /\ DOMAIN s.far \subseteq DOMAIN far[i] \cup {issued[i] + 1}
  <2>1. i \in Remote
    BY <1>1 DEF TooLate, Never
  <2>2. Known(c.ref, i) /\ s = Serve(i, c.op, c.type, fwMap[c.ref].remote)
    BY <1>0, <1>2, AskedIs
  <2> QED BY <2>1, <2>2, EndsAre, ServeMakesOne
<1>4. /\ calling'[t] = d /\ calling' = [u \in Threads |-> calling'[u]]
      /\ \A u \in Threads : u # t => calling'[u] = calling[u]
  BY <1>0, <1>1 DEF IInv, Shape
<1>5. d.at = "lost"
      /\ (c.at \in {"located"} => d.ref = c.ref /\ d.op = c.op /\ d.index = c.index
                                  /\ d.type = c.type /\ d.line = c.line)
  BY <1>0, <1>1, <1>2 DEF CallIn
<1>6. CallsOK'
  <2>1. CallIn(fwMap, d)
    BY <1>0, <1>1, <1>2, <1>3, <1>5 DEF CallIn, Uses
  <2>2. \A u \in Threads : Uses(calling[u]) => calling[u].ref \in DOMAIN fwMap'
    BY <1>1 DEF IInv, CallsOK, CallIn
  <2> QED BY <1>0, <1>1, <1>2, <1>4, <1>5, <2>1, <2>2, KeepsSelf, CallsAfter DEF IInv
<1>7. /\ issued' \in [Ends -> Nat] /\ far' = [j \in Ends |-> far'[j]]
      /\ answers' = [j \in Ends |-> answers'[j]] /\ broken' \subseteq Ends
      /\ \A j \in Ends : DOMAIN far'[j] \subseteq 1..issued'[j]
      /\ \A j \in Ends : j # i => /\ far'[j] = far[j] /\ issued'[j] = issued[j]
                                  /\ answers'[j] = answers[j]
                                  /\ (j \in broken' <=> j \in broken)
  <2>1. CASE TooLate(i, s)
    <3>1. /\ far' = [far EXCEPT ![i] = s.far] /\ broken' = broken
          /\ issued' = [issued EXCEPT ![i] =
                          IF DOMAIN s.far \subseteq DOMAIN far[i] THEN @ ELSE @ + 1]
          /\ answers' = [answers EXCEPT ![i] = Append(@, s.answer)]
      BY <2>1 DEF TooLate
    <3>2. /\ issued' \in [Ends -> Nat] /\ far' = [j \in Ends |-> far'[j]]
          /\ \A j \in Ends : DOMAIN far'[j] \subseteq 1..issued'[j]
          /\ \A j \in Ends : j # i => far'[j] = far[j] /\ issued'[j] = issued[j]
      BY <1>3, <3>1, SentShape DEF IInv
    <3> QED BY <3>1, <3>2 DEF IInv, Shape
  <2>2. CASE Never(i)
    <3>1. /\ far' = [far EXCEPT ![i] = None] /\ broken' = broken \cup {i} /\ issued' = issued
          /\ answers' = [answers EXCEPT ![i] = <<>>]
      BY <2>2 DEF Never
    <3>2. far'[i] = None /\ \A j \in Ends : j # i => far'[j] = far[j]
      BY <1>3, <3>1 DEF IInv, Shape
    <3>3. \A j \in Ends : DOMAIN far'[j] \subseteq 1..issued'[j]
      <4>1. \A j \in Ends : DOMAIN far[j] \subseteq 1..issued[j]
        BY DEF IInv, Shape
      <4> QED BY <3>1, <3>2, <4>1 DEF None
    <3> QED BY <1>3, <3>1, <3>2, <3>3 DEF IInv, Shape
  <2> QED BY <1>1, <2>1, <2>2
<1>8. Touches(t, i)
  BY <1>0, <1>1, <1>4, <1>5, <1>7, KeepsSelf DEF Touches
<1>9. Shape'
  BY <1>1, <1>4, <1>7 DEF IInv, Shape
<1>10. Lost(t, i)'
  BY <1>0, <1>1, <1>4, <1>5 DEF Lost
<1>11. ASSUME i \notin spoilt PROVE TheEnd(i)'
  <2>1. ~Sound(i)'
    BY <1>10 DEF Sound, Lost
  <2>2. EndOK(i)
    BY <1>3 DEF IInv, TheEnd
  <2>3. \A r : Known(r, i)' <=> Known(r, i)
    BY <1>1 DEF Known
  <2>4. \A u \in Threads : Holds(u, i)' => Holds(u, i)
    BY <1>4, <1>5 DEF Holds
  <2>5. EndOK(i)'
    BY <1>1, <1>10, <1>11, <2>2, <2>3, <2>4 DEF EndOK
  <2> QED BY <2>1, <2>5 DEF TheEnd
<1>12. TheEnd(i)'
  BY <1>1, <1>11, SpoiltIsOK
<1>13. IsTree(fwMap')
  BY <1>1 DEF IInv
<1> QED BY <1>1, <1>3, <1>6, <1>8, <1>9, <1>12, <1>13, StepKeepsIInv

\* At the other end, a reference has nothing above it but what the mapped ones have,
LEMMA FarLineIsMapped ==
  ASSUME Shape, IsTree(fwMap), NEW i \in Ends, RefsOK(i), NEW q, Known(q, i)
  PROVE  Line(far[i], fwMap[q].remote)
           \subseteq {fwMap[p].remote : p \in Line(fwMap, q) \cap DOMAIN fwMap} \cup {0}
<1> DEFINE S == {fwMap[p].remote : p \in Line(fwMap, q) \cap DOMAIN fwMap} \cup {0}
<1>1. q \in DOMAIN fwMap /\ fwMap[q].index = i /\ fwMap[q].remote \in S
  BY LineHasSelf DEF Known
<1>2. 0 \notin DOMAIN far[i]
  BY DEF Shape
<1>3. ASSUME NEW x \in S, x \in DOMAIN far[i] PROVE far[i][x].parent \in S
  <2>1. PICK p \in Line(fwMap, q) \cap DOMAIN fwMap : x = fwMap[p].remote
    BY <1>2, <1>3
  <2>2. Known(p, i)
    <3>1. p \in {y \in DOMAIN fwMap : fwMap[y].index = i} \cup {<<>>}
      BY <1>1, LineIsOfOne
    <3>2. p # <<>>
      BY TreeMeans
    <3> QED BY <3>1, <3>2 DEF Known
  <2>3. far[i][x] = Seen(p)
    BY <1>3, <2>1, <2>2 DEF RefsOK
  <2> DEFINE a == fwMap[p].parent
             b == fwMap[a].parent
  <2>4. CASE fwMap[p].type = "dir"
    BY <2>3, <2>4 DEF Seen
  <2>5. CASE fwMap[p].type # "dir"
    <3>1. a \in Line(fwMap, q) /\ a \in DOMAIN fwMap
      BY <1>1, <2>5, LineGoesUp, TreeMeans
    <3>2. CASE fwMap[p].type # "value"
      <4>1. far[i][x].parent = fwMap[a].remote
        BY <2>3, <2>5, <3>2 DEF Seen
      <4> QED BY <3>1, <4>1
    <3>3. CASE fwMap[p].type = "value"
      <4>1. fwMap[a].type = "list"
        BY <2>5, <3>3, TreeMeans
      <4>2. b \in Line(fwMap, q) /\ b \in DOMAIN fwMap
        BY <1>1, <3>1, <4>1, LineGoesUp, TreeMeans
      <4>3. far[i][x].parent = fwMap[b].remote
        BY <2>3, <3>3 DEF Seen
      <4> QED BY <4>2, <4>3
    <3> QED BY <3>2, <3>3
  <2> QED BY <2>4, <2>5
<1> HIDE DEF S
<1>4. Line(far[i], fwMap[q].remote) \subseteq S
  BY <1>1, <1>3, LineWithin
<1> QED BY <1>4 DEF S

\* and it has all of that, unless it is a value list.
LEMMA MappedLineIsFar ==
  ASSUME Shape, IsTree(fwMap), NEW i \in Ends, RefsOK(i), NEW q, Known(q, i),
         fwMap[q].type # "value", NEW p \in DOMAIN fwMap, p \in Line(fwMap, q)
  PROVE  /\ fwMap[p].remote \in Line(far[i], fwMap[q].remote)
         /\ fwMap[p].type # "value"
<1> DEFINE n == fwMap[q].remote
           a == fwMap[q].parent
           b == fwMap[a].parent
<1>1. q \in DOMAIN fwMap /\ fwMap[q].index = i
  BY DEF Known
<1>2. n \in DOMAIN far[i] /\ far[i][n] = Seen(q) /\ n \in Line(far[i], n)
  BY LineHasSelf DEF RefsOK
<1>3. <<>> \notin DOMAIN fwMap
  BY <1>1, TreeMeans
<1>4. CASE fwMap[q].type = "dir"
  <2> DEFINE S == {q, <<>>}
  <2>1. \A x \in S : x \in DOMAIN fwMap => fwMap[x].parent \in S
    BY <1>1, <1>3, <1>4, TreeMeans
  <2>2. Line(fwMap, q) \subseteq S
    <3>1. q \in S
      OBVIOUS
    <3> HIDE DEF S
    <3> QED BY <2>1, <3>1, LineWithin
  <2>3. p = q
    BY <1>3, <2>2
  <2> QED BY <1>2, <2>3
<1>5. CASE fwMap[q].type # "dir"
  <2>1. a \in DOMAIN fwMap /\ fwMap[a].index = i
        /\ \/ fwMap[q].type = "node" /\ fwMap[a].type = "dir"
           \/ fwMap[q].type \in {"record", "list"} /\ fwMap[a].type = "node"
    BY <1>1, <1>5, TreeMeans
  <2>2. far[i][n].parent = fwMap[a].remote
    BY <1>2, <1>5 DEF Seen
  <2>3. fwMap[a].remote \in Above1(far[i], n)
    BY <1>2, <2>2 DEF Above1
  <2>4. Known(a, i)
    BY <2>1 DEF Known
  <2>5. fwMap[a].remote \in DOMAIN far[i] /\ far[i][fwMap[a].remote] = Seen(a)
    BY <2>1, <2>4 DEF RefsOK
  <2>6. CASE fwMap[a].type = "dir"
    <3> DEFINE S == {q, a, <<>>}
    <3>1. \A x \in S : x \in DOMAIN fwMap => fwMap[x].parent \in S
      BY <1>1, <1>3, <2>1, <2>6, TreeMeans
    <3>2. Line(fwMap, q) \subseteq S
      <4>1. q \in S
        OBVIOUS
      <4> HIDE DEF S
      <4> QED BY <3>1, <4>1, LineWithin
    <3>3. p = q \/ p = a
      BY <1>3, <3>2
    <3> QED BY <1>2, <2>1, <2>3, <3>3, LineIs
  <2>7. CASE fwMap[a].type = "node"
    <3>1. b \in DOMAIN fwMap /\ fwMap[b].type = "dir" /\ fwMap[b].parent = <<>>
      <4>1. b \in DOMAIN fwMap /\ fwMap[b].type = "dir"
        BY <2>1, <2>7, TreeMeans
      <4> QED BY <4>1, TreeMeans
    <3> DEFINE S == {q, a, b, <<>>}
    <3>2. \A x \in S : x \in DOMAIN fwMap => fwMap[x].parent \in S
      BY <1>3, <3>1
    <3>3. Line(fwMap, q) \subseteq S
      <4>1. q \in S
        OBVIOUS
      <4> HIDE DEF S
      <4> QED BY <3>2, <4>1, LineWithin
    <3>4. p = q \/ p = a \/ p = b
      BY <1>3, <3>3
    <3>5. far[i][fwMap[a].remote].parent = fwMap[b].remote
      BY <2>5, <2>7 DEF Seen
    <3>6. fwMap[b].remote \in Above1(far[i], fwMap[a].remote)
      BY <2>5, <3>5 DEF Above1
    <3>7. fwMap[b].remote \in Above2(far[i], n)
      BY <2>3, <3>6 DEF Above2
    <3> QED BY <1>2, <2>1, <2>3, <3>1, <3>4, <3>7, LineIs
  <2> QED BY <2>1, <2>6, <2>7
<1> QED BY <1>4, <1>5

\* What goes at the other end with a reference is what goes in the map with it; only a
\* value list goes alone.
LEMMA CutTogether ==
  ASSUME Shape, IsTree(fwMap), IsTree(fwMap'), NEW i \in Ends, RefsOK(i),
         NEW r, Known(r, i), NEW n, n = fwMap[r].remote,
         far'[i] = Cut(far[i], n), issued'[i] = issued[i], Keeps(fwMap, fwMap'),
         IF fwMap[r].type = "value" THEN fwMap' = fwMap ELSE Removed(fwMap, fwMap', r)
  PROVE  /\ RefsOK(i)'
         /\ (\A k \in DOMAIN far[i] : far[i][k].type = "value"
                                      \/ \E q : Known(q, i) /\ fwMap[q].remote = k) =>
            \A k \in DOMAIN far'[i] : far'[i][k].type = "value"
                                      \/ \E q : Known(q, i)' /\ fwMap'[q].remote = k
<1>1. /\ DOMAIN far'[i] = {k \in DOMAIN far[i] : n \notin Line(far[i], k)}
      /\ \A k \in DOMAIN far'[i] : far'[i][k] = far[i][k]
  BY DEF Cut
<1>2. ASSUME NEW q, Known(q, i)'
      PROVE  Known(q, i) /\ fwMap'[q] = fwMap[q] /\ Seen(q)' = Seen(q)
             /\ (fwMap[r].type # "value" => r \notin Line(fwMap, q))
  <2>1. q \in DOMAIN fwMap' /\ fwMap'[q].index = i
    BY <1>2 DEF Known
  <2>2. q \in DOMAIN fwMap /\ (fwMap[r].type # "value" => r \notin Line(fwMap, q))
    BY <2>1 DEF Removed
  <2>3. fwMap'[q] = fwMap[q]
    BY <2>1, <2>2 DEF Keeps
  <2> QED BY <2>1, <2>2, <2>3, SameSeen DEF Known
<1>3. ASSUME NEW q, Known(q, i), fwMap[q].type # "value", n \in Line(far[i], fwMap[q].remote)
      PROVE  r \in Line(fwMap, q) /\ fwMap[r].type # "value"
  <2>1. n \in 1..issued[i]
    BY DEF RefsOK
  <2>2. n # 0
    BY <2>1
  <2>3. PICK p \in Line(fwMap, q) \cap DOMAIN fwMap : n = fwMap[p].remote
    BY <1>3, <2>2, FarLineIsMapped
  <2>4. Known(p, i)
    <3>1. p \in {y \in DOMAIN fwMap : fwMap[y].index = fwMap[q].index} \cup {<<>>}
      BY <1>3, LineIsOfOne DEF Known
    <3>2. p # <<>>
      BY TreeMeans
    <3> QED BY <1>3, <3>1, <3>2 DEF Known
  <2>5. p = r
    BY <2>3, <2>4 DEF RefsOK
  <2> QED BY <1>3, <2>3, <2>5, MappedLineIsFar
<1>4. ASSUME NEW q, Known(q, i)'
      PROVE  /\ fwMap'[q].remote \in 1..issued'[i]
             /\ fwMap'[q].remote \in DOMAIN far'[i] => far'[i][fwMap'[q].remote] = Seen(q)'
             /\ fwMap'[q].remote \in DOMAIN far'[i] \/ fwMap'[q].type = "value"
  <2>1. /\ fwMap[q].remote \in 1..issued[i]
        /\ fwMap[q].remote \in DOMAIN far[i] => far[i][fwMap[q].remote] = Seen(q)
        /\ fwMap[q].remote \in DOMAIN far[i] \/ fwMap[q].type = "value"
    BY <1>2, <1>4 DEF RefsOK
  <2>2. fwMap[q].type # "value" => n \notin Line(far[i], fwMap[q].remote)
    BY <1>2, <1>3, <1>4
  <2> QED BY <1>1, <1>2, <1>4, <2>1, <2>2
<1>5. ASSUME NEW p, NEW q, Known(p, i)', Known(q, i)', fwMap'[p].remote = fwMap'[q].remote
      PROVE  p = q
  <2>1. Known(p, i) /\ Known(q, i) /\ fwMap[p].remote = fwMap[q].remote
    BY <1>2, <1>5
  <2> QED BY <2>1 DEF RefsOK
<1>6. RefsOK(i)'
  BY <1>4, <1>5 DEF RefsOK
<1>7. ASSUME \A k \in DOMAIN far[i] : far[i][k].type = "value"
                                      \/ \E q : Known(q, i) /\ fwMap[q].remote = k,
             NEW k \in DOMAIN far'[i], far'[i][k].type # "value"
      PROVE  \E q : Known(q, i)' /\ fwMap'[q].remote = k
  <2>1. k \in DOMAIN far[i] /\ far[i][k].type # "value" /\ n \notin Line(far[i], k)
    BY <1>1, <1>7
  <2>2. PICK q : Known(q, i) /\ fwMap[q].remote = k
    BY <1>7, <2>1
  <2>3. fwMap[q].type # "value"
    <3>1. far[i][k] = Seen(q)
      BY <2>1, <2>2 DEF RefsOK
    <3> QED BY <2>1, <3>1 DEF Seen
  <2>4. r \notin Line(fwMap, q)
    BY <2>1, <2>2, <2>3, MappedLineIsFar DEF Known
  <2>5. q \in DOMAIN fwMap'
    BY <2>2, <2>4 DEF Removed, Known
  <2>6. Known(q, i)' /\ fwMap'[q].remote = k
    BY <2>2, <2>5 DEF Keeps, Known
  <2> QED BY <2>6
<1> QED BY <1>6, <1>7

LEMMA ServeCloses ==
  ASSUME NEW i, NEW type, NEW n, n \in DOMAIN far[i] => far[i][n].type = type
  PROVE  Serve(i, "close", type, n) =
           IF n \in DOMAIN far[i]
             THEN [far |-> Cut(far[i], n), answer |-> Reply("closed", n)]
             ELSE [far |-> far[i], answer |-> Refused]
<1>1. CASE n \notin DOMAIN far[i]
  BY <1>1 DEF Serve
<1>2. CASE n \in DOMAIN far[i]
  BY <1>2 DEF Serve
<1> QED BY <1>1, <1>2

LEMMA CloseIsServed ==
  ASSUME IInv, NEW t \in Threads, calling[t].at = "located", calling[t].op = "close",
         NEW i \in Ends, i = calling[t].index, Sound(i),
         NEW n, n = fwMap[calling[t].ref].remote
  PROVE  Asked(t) = IF n \in DOMAIN far[i]
                      THEN [far |-> Cut(far[i], n), answer |-> Reply("closed", n)]
                      ELSE [far |-> far[i], answer |-> Refused]
<1>0. PICK c : c = calling[t] /\ Uses(c)
  BY DEF Uses
<1>1. /\ c.ref \in DOMAIN fwMap /\ fwMap[c.ref].type = c.type /\ Known(c.ref, i)
      /\ Asked(t) = Serve(i, "close", c.type, n)
  BY <1>0, AskedIs
<1>2. n \in DOMAIN far[i] => far[i][n].type = c.type
  <2>1. n \in DOMAIN far[i] => far[i][n] = Seen(c.ref)
    BY <1>0, <1>1, SoundIsQuiet DEF RefsOK
  <2> QED BY <1>1, <2>1 DEF Seen
<1> QED BY <1>1, <1>2, ServeCloses

\* A reference that is no directory's leaves its directory mapped.
LEMMA DirectoryStays ==
  ASSUME IsTree(fwMap), NEW i, NEW r, Known(r, i), fwMap[r].type # "dir",
         fwMap' = fwMap \/ Removed(fwMap, fwMap', r)
  PROVE  \E q : Known(q, i)'
<1>1. PICK q \in Line(fwMap, r) \cap DOMAIN fwMap : fwMap[q].type = "dir" /\ fwMap[q].index = i
  BY LineIsOfOne DEF Known
<1>2. r \notin Line(fwMap, q)
  <2> DEFINE S == {q, <<>>}
  <2>1. <<>> \notin DOMAIN fwMap /\ fwMap[q].parent = <<>>
    BY <1>1, TreeMeans
  <2>2. \A x \in S : x \in DOMAIN fwMap => fwMap[x].parent \in S
    BY <2>1
  <2>3. Line(fwMap, q) \subseteq S
    <3>1. q \in S
      OBVIOUS
    <3> HIDE DEF S
    <3> QED BY <2>2, <3>1, LineWithin
  <2>4. r # q /\ r # <<>>
    BY <1>1, <2>1 DEF Known
  <2> QED BY <2>3, <2>4
<1>3. Known(q, i)'
  BY <1>1, <1>2 DEF Known, Removed
<1> QED BY <1>3

LEMMA CloseRefKeeps ==
  ASSUME IInv, NEW t \in Threads, CloseRef(t)
  PROVE  IInv'
<1>0. PICK c, i, n, s, a :
         /\ c = calling[t] /\ i = c.index /\ n = fwMap[c.ref].remote
         /\ s = Asked(t) /\ a = Read(i, s)
  OBVIOUS
<1>01. PICK d : d = IF a.type # "error" /\ c.type = "dir" THEN [c EXCEPT !.at = "counting"]
                                                          ELSE NotCalling
  OBVIOUS
<1>1. /\ c.at = "located" /\ gMessageTable[i] /\ c.op = "close" /\ InTime(i, s)
      /\ gMessageTable' = gMessageTable /\ gDSConnections' = gDSConnections
      /\ crashed' = crashed /\ spoilt' = spoilt /\ leaked' = leaked
      /\ a.type # "error" => RemoveRef(c.ref, RemovedAs(c.type))
      /\ a.type = "error" => fwMap' = fwMap
      /\ calling' = [calling EXCEPT ![t] = d]
  <2>1. /\ c.at = "located" /\ gMessageTable[i] /\ c.op = "close" /\ InTime(i, s)
        /\ gMessageTable' = gMessageTable /\ gDSConnections' = gDSConnections
        /\ crashed' = crashed /\ spoilt' = spoilt /\ leaked' = leaked
        /\ a.type # "error" =>
             /\ RemoveRef(c.ref, RemovedAs(c.type))
             /\ calling' = [calling EXCEPT ![t] = IF c.type = "dir"
                                                    THEN [@ EXCEPT !.at = "counting"]
                                                    ELSE NotCalling]
        /\ a.type = "error" => fwMap' = fwMap /\ calling' = [calling EXCEPT ![t] = NotCalling]
    BY <1>0 DEF CloseRef, Return, Sends
  <2>2. CASE a.type = "error"
    BY <1>01, <2>1, <2>2
  <2>3. CASE a.type # "error" /\ c.type # "dir"
    BY <1>01, <2>1, <2>3
  <2>4. CASE a.type # "error" /\ c.type = "dir"
    BY <1>0, <1>01, <2>1, <2>4
  <2> QED BY <2>1, <2>2, <2>3, <2>4
<1>2. Uses(calling[t])
  BY <1>0, <1>1 DEF Uses
<1>3. /\ c.ref \in DOMAIN fwMap /\ fwMap[c.ref].type = c.type /\ fwMap[c.ref].index = i
      /\ i \in Ends /\ Known(c.ref, i) /\ c.type \in Types
      /\ s = Serve(i, c.op, c.type, n)
  BY <1>0, <1>2, AskedIs
<1>4. DOMAIN s.far \subseteq DOMAIN far[i] \cup {issued[i] + 1}
  BY <1>3, ServeMakesOne
<1>5. /\ far'[i] = s.far /\ i \notin broken /\ broken' = broken
      /\ issued'[i] = IF DOMAIN s.far \subseteq DOMAIN far[i] THEN issued[i] ELSE issued[i] + 1
      /\ issued' \in [Ends -> Nat] /\ far' = [j \in Ends |-> far'[j]]
      /\ answers' = [j \in Ends |-> answers'[j]]
      /\ \A j \in Ends : DOMAIN far'[j] \subseteq 1..issued'[j]
      /\ \A j \in Ends : j # i =>
           far'[j] = far[j] /\ issued'[j] = issued[j] /\ answers'[j] = answers[j]
      /\ answers[i] = <<>> => answers'[i] = <<>>
  BY <1>1, <1>3, <1>4, InTimeMeans DEF IInv
<1>6. IF a.type # "error" /\ c.type # "value" THEN Removed(fwMap, fwMap', c.ref)
      ELSE fwMap' = fwMap
  <2>1. CASE a.type = "error"
    BY <1>1, <2>1
  <2>2. CASE a.type # "error" /\ c.type = "value"
    BY <1>1, <1>3, <2>2 DEF RemoveRef, RemovedAs, VerifyReference
  <2>3. CASE a.type # "error" /\ c.type # "value"
    <3>1. fwMap' = Cut(fwMap, c.ref)
      BY <1>1, <1>3, <2>3 DEF RemoveRef, RemovedAs, VerifyReference
    <3> QED BY <2>3, <3>1, CutRemoves
  <2> QED BY <2>1, <2>2, <2>3
<1>7. /\ IsTree(fwMap') /\ Keeps(fwMap, fwMap')
      /\ DOMAIN fwMap' \subseteq DOMAIN fwMap
      /\ \A r \in DOMAIN fwMap : r \notin DOMAIN fwMap' => fwMap[r].index = i
  <2>1. CASE fwMap' = fwMap
    BY <2>1, KeepsSelf DEF IInv
  <2>2. CASE Removed(fwMap, fwMap', c.ref)
    <3>1. IsTree(fwMap)
      BY DEF IInv
    <3> QED BY <1>3, <2>2, <3>1, RemovedKeeps
  <2> QED BY <1>6, <2>1, <2>2
<1>8. /\ calling'[t] = d /\ calling' = [u \in Threads |-> calling'[u]]
      /\ \A u \in Threads : u # t => calling'[u] = calling[u]
  BY <1>1, CallStep DEF IInv
<1>9. /\ d.at \in {"idle", "counting"} /\ ~Uses(d) /\ CallIn(fwMap', d)
      /\ d.at # "idle" => d.index = i /\ c.type = "dir" /\ a.type # "error"
      /\ a.type # "error" /\ c.type = "dir" => d.at = "counting" /\ d.index = i
  <2>1. CASE a.type # "error" /\ c.type = "dir"
    <3>1. CallIn(fwMap, c)
      BY <1>0 DEF IInv, CallsOK
    <3>2. d.at = "counting" /\ d.index = i
      BY <1>0, <1>01, <1>1, <2>1, <3>1 DEF CallIn
    <3> QED BY <1>3, <2>1, <3>2 DEF CallIn, Uses
  <2>2. CASE ~(a.type # "error" /\ c.type = "dir")
    BY <1>01, <2>2, IdleIsOK
  <2> QED BY <2>1, <2>2
<1>10. CallsOK'
  <2>1. ASSUME NEW u \in Threads, u # t, Uses(calling[u])
        PROVE  calling[u].ref \in DOMAIN fwMap'
    <3>1. c.ref \notin Line(fwMap, calling[u].ref)
      BY <1>0, <1>1, <1>2, <2>1 DEF IInv, CallsOK, ApartIn
    <3>2. calling[u].ref \in DOMAIN fwMap
      BY <2>1 DEF IInv, CallsOK, CallIn
    <3> QED BY <1>6, <3>1, <3>2 DEF Removed
  <2> QED BY <1>7, <1>8, <1>9, <2>1, CallsAfter DEF IInv
<1>11. Touches(t, i)
  BY <1>0, <1>1, <1>5, <1>7, <1>8, <1>9 DEF Touches
<1>12. Shape'
  BY <1>1, <1>5, <1>8 DEF IInv, Shape
<1>81. \A u \in Threads : u # t => calling'[u] = calling[u]
  BY <1>8
<1>13. ASSUME NEW u \in Threads
       PROVE  /\ Lost(u, i)' <=> Lost(u, i)
              /\ Holds(u, i)' => Holds(u, i) \/ (u = t /\ d.at = "counting")
  <2>1. CASE u = t
    <3>1. calling[t].at = "located" /\ calling'[t].at \in {"idle", "counting"}
          /\ calling'[t].at = d.at
      BY <1>0, <1>1, <1>8, <1>9
    <3> QED BY <2>1, <3>1 DEF Lost, Holds
  <2>2. CASE u # t
    <3>1. calling'[u] = calling[u]
      BY <1>81, <2>2
    <3>2. Lost(u, i)' <=> Lost(u, i)
      BY <3>1 DEF Lost
    <3>3. Holds(u, i)' <=> Holds(u, i)
      BY <3>1 DEF Holds
    <3> QED BY <3>2, <3>3
  <2> QED BY <2>1, <2>2
<1>14. Sound(i)' => Sound(i)
  BY <1>1, <1>13, SoundMeans DEF Sound, Lost
<1>15. ASSUME NEW q, Known(q, i)' PROVE Known(q, i) /\ fwMap'[q] = fwMap[q]
  BY <1>7, <1>15 DEF Known, Keeps
<1>16. ASSUME i \notin spoilt PROVE EndOK(i)'
  <2>1. EndOK(i)
    BY <1>3 DEF IInv, TheEnd
  <2>2. i \in broken' \/ answers'[i] # <<>> => \E u \in Threads : Lost(u, i)'
    BY <1>5, <1>13, <1>16, <2>1 DEF EndOK
  <2>3. i \in Remote => \A u \in Threads : ~Holds(u, i)
    BY <1>3, <1>16, <2>1 DEF EndOK
  <2>4. ASSUME i \in Remote, NEW u \in Threads, Holds(u, i)'
        PROVE  u = t /\ \A r : ~Known(r, i)'
    <3>1. u = t /\ c.type = "dir" /\ a.type # "error"
      BY <1>9, <1>13, <2>3, <2>4
    <3>2. ASSUME NEW r, Known(r, i)' PROVE FALSE
      <4>1. r \in DOMAIN fwMap /\ Known(r, i) /\ c.ref \notin Line(fwMap, r)
        BY <1>6, <1>15, <3>1, <3>2 DEF Known, Removed
      <4>2. PICK q \in Line(fwMap, r) \cap DOMAIN fwMap :
              fwMap[q].type = "dir" /\ fwMap[q].index = i
        BY <4>1, LineIsOfOne DEF IInv, Known
      <4>3. q = c.ref
        BY <1>3, <1>16, <2>1, <2>4, <3>1, <4>2 DEF EndOK, Known
      <4> QED BY <4>1, <4>2, <4>3
    <3> QED BY <3>1, <3>2
  <2>5. i \in Remote => \A r, q : /\ Known(r, i)' /\ fwMap'[r].type = "dir"
                                  /\ Known(q, i)' /\ fwMap'[q].type = "dir"
                                  => r = q
    BY <1>15, <1>16, <2>1 DEF EndOK
  <2>6. i \in Remote /\ i \notin leaked' =>
          gDSConnections'[i] = IF gMessageTable'[i] THEN 1 % kWord ELSE 0
    BY <1>1, <1>16, <2>1 DEF EndOK
  <2> QED BY <1>1, <2>2, <2>4, <2>5, <2>6 DEF EndOK
<1>17. ASSUME Sound(i) PROVE RefsOK(i)' /\ HeldOK(i)'
  <2>1. RefsOK(i) /\ HeldOK(i) /\ answers[i] = <<>>
    BY <1>3, <1>17, SoundIsQuiet
  <2>2. s = IF n \in DOMAIN far[i]
              THEN [far |-> Cut(far[i], n), answer |-> Reply("closed", n)]
              ELSE [far |-> far[i], answer |-> Refused]
    BY <1>0, <1>1, <1>3, <1>17, CloseIsServed
  <2>3. a = s.answer
    BY <1>0, <1>3, <2>1, ReadInTime DEF Read
  <2>4. CASE n \in DOMAIN far[i]
    <3>1. s.far = Cut(far[i], n) /\ s.answer = Reply("closed", n)
      BY <2>2, <2>4
    <3>2. a.type = "closed"
      BY <2>3, <3>1 DEF Reply
    <3>3. far'[i] = Cut(far[i], n) /\ issued'[i] = issued[i]
      <4>1. DOMAIN Cut(far[i], n) \subseteq DOMAIN far[i]
        BY DEF Cut
      <4> QED BY <1>5, <3>1, <4>1
    <3>4. IF fwMap[c.ref].type = "value" THEN fwMap' = fwMap ELSE Removed(fwMap, fwMap', c.ref)
      BY <1>3, <1>6, <3>2
    <3>5. /\ RefsOK(i)'
          /\ (\A k \in DOMAIN far[i] : far[i][k].type = "value"
                                       \/ \E q : Known(q, i) /\ fwMap[q].remote = k) =>
             \A k \in DOMAIN far'[i] : far'[i][k].type = "value"
                                       \/ \E q : Known(q, i)' /\ fwMap'[q].remote = k
      BY <1>0, <1>3, <1>7, <2>1, <3>3, <3>4, CutTogether DEF IInv
    <3>6. (\E q : Known(q, i)') \/ \E u \in Threads : Holds(u, i)'
      <4>1. CASE c.type = "dir"
        BY <1>8, <1>9, <3>2, <4>1 DEF Holds
      <4>2. CASE c.type # "dir"
        BY <1>3, <1>6, <4>2, DirectoryStays DEF IInv
      <4> QED BY <4>1, <4>2
    <3>7. HeldOK(i)'
      BY <1>1, <2>1, <3>5, <3>6 DEF HeldOK
    <3> QED BY <3>5, <3>7
  <2>5. CASE n \notin DOMAIN far[i]
    <3>1. s.far = far[i] /\ a = Refused
      BY <2>2, <2>3, <2>5
    <3>2. a.type = "error"
      BY <3>1 DEF Refused, Reply
    <3>3. fwMap' = fwMap /\ far'[i] = far[i] /\ issued'[i] = issued[i]
      BY <1>1, <1>5, <3>1, <3>2
    <3>4. \A q : (Known(q, i)' <=> Known(q, i)) /\ Seen(q)' = Seen(q)
      BY <3>3 DEF Known, Seen
    <3>5. RefsOK(i)'
      BY <2>1, <3>3, <3>4 DEF RefsOK
    <3>6. HeldOK(i)'
      BY <1>1, <1>3, <2>1, <3>3, <3>4 DEF HeldOK
    <3> QED BY <3>5, <3>6
  <2> QED BY <2>4, <2>5
<1>18. TheEnd(i)'
  BY <1>1, <1>14, <1>16, <1>17, SpoiltIsOK DEF TheEnd
<1> QED BY <1>1, <1>3, <1>7, <1>10, <1>11, <1>12, <1>18, StepKeepsIInv

-----------------------------------------------------------------------------
(***************************************************************************)
(* The theorems.                                                           *)
(***************************************************************************)
LEMMA InitIsOK == ConnectionsInit => IInv
<1> SUFFICES ASSUME ConnectionsInit PROVE IInv
  OBVIOUS
<1>1. DOMAIN None = {}
  BY DEF None
<1>2. Shape
  BY <1>1 DEF ConnectionsInit, Shape
<1>3. IsTree(fwMap)
  BY <1>1 DEF ConnectionsInit, IsTree
<1>4. \A t \in Threads : calling[t] = NotCalling
  BY DEF ConnectionsInit
<1>5. CallsOK
  BY <1>4, IdleIsOK DEF CallsOK, ApartIn
<1>6. ASSUME NEW i \in Ends PROVE TheEnd(i)
  <2>1. \A r : ~Known(r, i)
    BY <1>1 DEF ConnectionsInit, Known
  <2>2. \A t \in Threads : ~Holds(t, i)
    BY <1>4, IdleIsOK DEF Holds
  <2>3. /\ ~gMessageTable[i] /\ gDSConnections[i] = 0 /\ i \notin broken /\ answers[i] = <<>>
        /\ far[i] = None
    BY DEF ConnectionsInit
  <2>4. EndOK(i)
    BY <2>1, <2>2, <2>3 DEF EndOK
  <2>5. RefsOK(i)
    BY <2>1 DEF RefsOK
  <2>6. HeldOK(i)
    BY <1>1, <2>3 DEF HeldOK
  <2> QED BY <2>4, <2>5, <2>6 DEF TheEnd
<1> QED BY <1>2, <1>3, <1>5, <1>6 DEF IInv, ConnectionsInit

LEMMA NextKeeps == IInv /\ [ConnectionsNext]_connectionVars => IInv'
<1> SUFFICES ASSUME IInv, [ConnectionsNext]_connectionVars PROVE IInv'
  OBVIOUS
<1>1. CASE UNCHANGED connectionVars
  <2>1. Shape' /\ IsTree(fwMap')
    BY <1>1 DEF connectionVars, IInv, Shape
  <2>2. CallsOK'
    BY <1>1 DEF connectionVars, IInv, CallsOK, CallIn, ApartIn, Uses
  <2>3. ASSUME NEW j \in Ends PROVE TheEnd(j)'
    <3>1. TheEnd(j)
      BY DEF IInv
    <3> QED BY <1>1, <3>1 DEF connectionVars, TheEnd, EndOK, RefsOK, HeldOK, Sound, Known,
                              Holds, Lost, Seen
  <2> QED BY <1>1, <2>1, <2>2, <2>3 DEF connectionVars, IInv
<1>2. ASSUME NEW t \in Threads,
             \/ ConnectTo(t) \/ ConnectLocal(t)
             \/ OpenDir(t) \/ VersionMismatch(t) \/ OpenFails(t)
             \/ OpenBelow(t) \/ CloseRef(t) \/ CallFails(t)
             \/ Uncount(t) \/ CleanUpLost(t) \/ UseNothing(t)
      PROVE  IInv'
  BY <1>2, ConnectToKeeps, ConnectLocalKeeps, OpenDirKeeps, VersionMismatchKeeps,
     OpenFailsKeeps, OpenBelowKeeps, CloseRefKeeps, CallFailsKeeps, UncountKeeps,
     CleanUpLostKeeps, UseNothingKeeps
<1>3. ASSUME NEW t \in Threads, NEW r \in DOMAIN fwMap, NEW op, Locate(t, r, op)
      PROVE  IInv'
  BY <1>3, LocateKeeps
<1> QED BY <1>1, <1>2, <1>3 DEF ConnectionsNext

LEMMA SpecIsSound == ConnectionsSpec => []IInv
BY InitIsOK, NextKeeps, PTL DEF ConnectionsSpec

\* With any number of threads, connections and entries of the map, and whichever answers
\* are late or never come, a reference of a sound connection stands for what it was opened
\* as, below the same parent, at the daemon in its slot, and no call uses a connection that
\* is gone, unless that was spoilt (CDSRefMap, DSTCPEndpoint, CheckToCleanUpLostTCPConnection).
THEOREM ReferencesMeanWhatTheyDid == ConnectionsSpec => []RightEnd
<1>1. IInv => RightEnd
  <2> SUFFICES ASSUME IInv, NEW r \in DOMAIN fwMap, Sound(fwMap[r].index)
               PROVE  LET e == fwMap[r]
                      IN /\ gMessageTable[e.index]
                         /\ e.remote \in DOMAIN far[e.index] => far[e.index][e.remote] = Seen(r)
                         /\ e.remote \in DOMAIN far[e.index] \/ e.type = "value"
    BY DEF IInv, RightEnd
  <2>1. PICK i : i = fwMap[r].index /\ i \in Ends
    BY TreeMeans DEF IInv
  <2>2. Known(r, i) /\ EndOK(i) /\ RefsOK(i) /\ i \notin spoilt
    BY <2>1, SoundIsQuiet DEF Known
  <2>3. gMessageTable[i]
    BY <2>2 DEF EndOK
  <2> QED BY <2>1, <2>2, <2>3 DEF RefsOK
<1> QED BY <1>1, SpecIsSound, PTL

\* What a daemon holds for a sound connection can be given back with a mapped reference, and
\* a connection to another machine is there for a reference or for a call that opens or
\* closes one: the map and the counts leave nothing behind but where the map was full or a
\* daemon refused (dsOpenDirServiceProxy, dsCloseDirService, CDSRefMap::RemoveRef).
THEOREM NothingIsHeldInVain == ConnectionsSpec => []HeldForSomebody
<1>1. IInv => HeldForSomebody
  <2> SUFFICES ASSUME IInv, NEW i \in Ends, Sound(i), i \notin leaked
               PROVE  /\ \A n \in DOMAIN far[i] :
                           far[i][n].type = "value"
                           \/ \E r \in DOMAIN fwMap : fwMap[r].index = i /\ fwMap[r].remote = n
                      /\ i \in Remote /\ gMessageTable[i] =>
                           \/ Mapped(i)
                           \/ \E t \in Threads : calling[t].index = i
                                                 /\ calling[t].at \in {"opening", "counting"}
    BY DEF HeldForSomebody
  <2>1. HeldOK(i)
    BY SoundIsQuiet
  <2> QED BY <2>1 DEF HeldOK, Known, Holds, Mapped
<1> QED BY <1>1, SpecIsSound, PTL
=============================================================================
