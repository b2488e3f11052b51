--------------------------- MODULE MbrdCache_proofs ---------------------------
(* Proofs about the membership cache, for any directory and lookups without  *)
(* Kerberos principals and any number of entries: until an entry that left   *)
(* the list is hashed again, what is hashed is listed, the list is whole,    *)
(* reference counts are exact, and the hashes keep one entry for a key.      *)
EXTENDS MbrdCache, FiniteSetTheorems, WellFoundedInduction, TLAPS

-----------------------------------------------------------------------------
(***************************************************************************)
(* Numbers and finite sets.                                                *)
(***************************************************************************)
Below == {p \in Nat \X Nat : p[1] < p[2]}
LEMMA BelowIsWellFounded == IsWellFoundedOn(Below, Nat)
  BY NatLessThanWellFounded DEF OpToRel, Below

\* A set of numbers has a smallest one: what induction is done with here.
LEMMA Smallest ==
  ASSUME NEW S, S \subseteq Nat, S # {}
  PROVE  \E x \in S : \A y \in S : x <= y
<1>1. \E x \in S : \A y \in S : ~ (<<y, x>> \in Below)
  BY BelowIsWellFounded, WFMin, Zenon
<1>2. PICK x \in S : \A y \in S : ~ (<<y, x>> \in Below)
  BY <1>1
<1>3. ASSUME NEW y \in S PROVE x <= y
  <2>1. <<y, x>> \notin Below
    BY <1>2
  <2>2. x \in Nat /\ y \in Nat
    OBVIOUS
  <2>3. y < x => <<y, x>> \in Below
    BY <2>2 DEF Below
  <2> QED BY <2>1, <2>2, <2>3
<1> QED BY <1>3

LEMMA HashFinite == IsFiniteSet(Hash)
<1> DEFINE Names == {Over("name", {t}) : t \in Type}
           Others == {Over("guid", Type), Over("sid", Type), KerberosHash,
                      Over("id", {"user", "computer"}), Over("id", {"group"})}
<1>2. IsFiniteSet(Names)
  <2> DEFINE A == Over("name", {"user"})  B == Over("name", {"computer"})
             C == Over("name", {"group"})  D == Over("name", {"computer group"})
  <2>0. Names = {A, B, C, D}
    BY DEF Type
  <2> HIDE DEF A, B, C, D, Names
  <2>1. IsFiniteSet({}) BY FS_EmptySet
  <2>2. IsFiniteSet({} \cup {A}) BY <2>1, FS_AddElement
  <2>3. IsFiniteSet({} \cup {A} \cup {B}) BY <2>2, FS_AddElement
  <2>4. IsFiniteSet({} \cup {A} \cup {B} \cup {C}) BY <2>3, FS_AddElement
  <2>5. IsFiniteSet({} \cup {A} \cup {B} \cup {C} \cup {D}) BY <2>4, FS_AddElement
  <2>6. {} \cup {A} \cup {B} \cup {C} \cup {D} = {A, B, C, D}
    OBVIOUS
  <2> QED BY <2>0, <2>5, <2>6
<1>3. IsFiniteSet(Others)
  <2> DEFINE A == Over("guid", Type)  B == Over("sid", Type)  C == KerberosHash
             D == Over("id", {"user", "computer"})  E == Over("id", {"group"})
  <2> HIDE DEF A, B, C, D, E
  <2>1. IsFiniteSet({}) BY FS_EmptySet
  <2>2. IsFiniteSet({} \cup {A}) BY <2>1, FS_AddElement
  <2>3. IsFiniteSet({} \cup {A} \cup {B}) BY <2>2, FS_AddElement
  <2>4. IsFiniteSet({} \cup {A} \cup {B} \cup {C}) BY <2>3, FS_AddElement
  <2>5. IsFiniteSet({} \cup {A} \cup {B} \cup {C} \cup {D}) BY <2>4, FS_AddElement
  <2>6. IsFiniteSet({} \cup {A} \cup {B} \cup {C} \cup {D} \cup {E}) BY <2>5, FS_AddElement
  <2>7. {} \cup {A} \cup {B} \cup {C} \cup {D} \cup {E} = {A, B, C, D, E}
    OBVIOUS
  <2> QED BY <2>6, <2>7 DEF A, B, C, D, E
<1>4. Hash = Others \cup Names
  BY DEF Hash
<1> QED BY <1>2, <1>3, <1>4, FS_Union

\* How often an entry is in hashes is a number, which is 0 if it is in none.
LEMMA HashesTyped ==
  ASSUME NEW hashes, NEW e
  PROVE  /\ HashesOf(hashes, e) \in Nat
         /\ HashesOf(hashes, e) = 0 <=> \A h \in Hash : e \notin hashes[h]
<1> DEFINE S == {h \in Hash : e \in hashes[h]}
<1>1. IsFiniteSet(S)
  BY HashFinite, FS_Subset
<1>2. Cardinality(S) \in Nat /\ (Cardinality(S) = 0 <=> S = {})
  BY <1>1, FS_CardinalityType, FS_EmptySet
<1> QED BY <1>2 DEF HashesOf

-----------------------------------------------------------------------------
(***************************************************************************)
(* Chains.  An order of n entries, s, is a function on 1..n.               *)
(***************************************************************************)
At(n, s, i) == IF i \in 1..n THEN s[i] ELSE NULL
Elems(n, s) == {s[i] : i \in 1..n}

\* The links from first on lead through s.
IsChain(first, link, n, s) ==
  /\ n \in Nat /\ s \in [1..n -> Item]
  /\ \A i, j \in 1..n : s[i] = s[j] => i = j
  /\ first = At(n, s, 1)
  /\ \A i \in 1..n : link[s[i]] = At(n, s, i + 1)
\* The back links lead back.
IsBack(back, n, s) == \A i \in 1..n : back[s[i]] = At(n, s, i - 1)

LEMMA ItemFacts == NULL \notin Item /\ Item \subseteq Nat /\ IsFiniteSet(Item) /\ Cardinality(Item) = MaxItems
<1>1. MaxItems \in Nat
  BY CacheAssumption DEF CacheAssumption
<1>2. IsFiniteSet(Item) /\ Cardinality(Item) = MaxItems
  BY <1>1, FS_Interval DEF Item
<1> QED BY <1>1, <1>2 DEF Item, NULL

\* No chain is longer than there are entries.
LEMMA ChainFits ==
  ASSUME NEW first, NEW link, NEW n, NEW s, IsChain(first, link, n, s)
  PROVE  n <= MaxItems
<1>1. n \in Nat /\ s \in [1..n -> Item] /\ \A i, j \in 1..n : s[i] = s[j] => i = j
  BY DEF IsChain
<1>2. s \in Injection(1..n, Item)
  BY <1>1 DEF Injection, IsInjective
<1>3. IsFiniteSet(1..n) /\ Cardinality(1..n) = n
  BY <1>1, FS_Interval
<1>4. Cardinality(1..n) <= Cardinality(Item)
  BY <1>2, <1>3, ItemFacts, FS_Injection
<1> QED BY <1>3, <1>4, ItemFacts

\* The list from head to tail, and the chain that a reset has yet to release.
Linked(head, tail, fLink, fBackLink, rest, L, K) ==
  \E n, s, m, k :
    /\ IsChain(head, fLink, n, s) /\ IsBack(fBackLink, n, s)
    /\ tail = At(n, s, n)
    /\ IsChain(rest, fLink, m, k)
    /\ L = Elems(n, s) /\ K = Elems(m, k) /\ L \cap K = {}

LEMMA ChainFacts ==
  ASSUME NEW first, NEW link, NEW n, NEW s, IsChain(first, link, n, s)
  PROVE  /\ Elems(n, s) \subseteq Item
         /\ first \in Elems(n, s) \cup {NULL} /\ (first = NULL) = (Elems(n, s) = {})
         /\ At(n, s, n) \in Elems(n, s) \cup {NULL}
<1>1. n \in Nat /\ s \in [1..n -> Item] /\ first = At(n, s, 1)
  BY DEF IsChain
<1>2. CASE n = 0
  <2>1. 1..n = {}
    BY <1>2
  <2>2. Elems(n, s) = {} /\ first = NULL /\ At(n, s, n) = NULL
    BY <1>1, <2>1 DEF At, Elems
  <2> QED BY <2>2
<1>3. CASE n # 0
  <2>1. 1 \in 1..n /\ n \in 1..n
    BY <1>1, <1>3
  <2>2. first = s[1] /\ At(n, s, n) = s[n]
    BY <1>1, <2>1 DEF At
  <2>3. s[1] \in Item /\ s[1] # NULL
    BY <1>1, <2>1, ItemFacts
  <2> QED BY <1>1, <2>1, <2>2, <2>3 DEF Elems
<1> QED BY <1>2, <1>3

LEMMA LinkedFacts ==
  ASSUME NEW head, NEW tail, NEW fLink, NEW fBackLink, NEW rest, NEW L, NEW K,
         Linked(head, tail, fLink, fBackLink, rest, L, K)
  PROVE  /\ L \subseteq Item /\ K \subseteq Item /\ L \cap K = {}
         /\ head \in L \cup {NULL} /\ tail \in L \cup {NULL} /\ rest \in K \cup {NULL}
         /\ (head = NULL) = (L = {}) /\ (rest = NULL) = (K = {})
<1>1. PICK n, s, m, k :
        /\ IsChain(head, fLink, n, s) /\ tail = At(n, s, n)
        /\ IsChain(rest, fLink, m, k)
        /\ L = Elems(n, s) /\ K = Elems(m, k) /\ L \cap K = {}
  BY Zenon DEF Linked
<1> QED BY <1>1, ChainFacts

LEMMA NothingLinked ==
  ASSUME NEW fLink, NEW fBackLink
  PROVE  Linked(NULL, NULL, fLink, fBackLink, NULL, {}, {})
<1> DEFINE s == [i \in 1..0 |-> 1]
<1>1. IsChain(NULL, fLink, 0, s) /\ IsBack(fBackLink, 0, s) /\ Elems(0, s) = {}
      /\ At(0, s, 0) = NULL
  BY DEF IsChain, IsBack, Elems, At
<1> HIDE DEF s
<1>2. {} \cap {} = {}
  OBVIOUS
<1> QED BY <1>1, <1>2, Zenon DEF Linked

\* Links of what is in neither chain do not matter.
LEMMA ClearKeepsLinked ==
  ASSUME NEW head, NEW tail, NEW fLink \in [Item -> MaybeItem],
         NEW fBackLink \in [Item -> MaybeItem], NEW rest, NEW L, NEW K,
         Linked(head, tail, fLink, fBackLink, rest, L, K),
         NEW e, e \notin L \cup K
  PROVE  Linked(head, tail, [fLink EXCEPT ![e] = NULL], [fBackLink EXCEPT ![e] = NULL],
                rest, L, K)
<1> DEFINE fl == [fLink EXCEPT ![e] = NULL]
           bl == [fBackLink EXCEPT ![e] = NULL]
<1>1. PICK n, s, m, k :
        /\ IsChain(head, fLink, n, s) /\ IsBack(fBackLink, n, s)
        /\ tail = At(n, s, n)
        /\ IsChain(rest, fLink, m, k)
        /\ L = Elems(n, s) /\ K = Elems(m, k) /\ L \cap K = {}
  BY Zenon DEF Linked
<1>2. IsChain(head, fl, n, s)
  <2>1. \A i \in 1..n : s[i] # e /\ s[i] \in Item
    BY <1>1 DEF IsChain, Elems
  <2>2. \A i \in 1..n : fl[s[i]] = fLink[s[i]]
    BY <2>1
  <2> QED BY <1>1, <2>2 DEF IsChain
<1>3. IsBack(bl, n, s)
  <2>1. \A i \in 1..n : s[i] # e /\ s[i] \in Item
    BY <1>1 DEF IsChain, Elems
  <2>2. \A i \in 1..n : bl[s[i]] = fBackLink[s[i]]
    BY <2>1
  <2> QED BY <1>1, <2>2 DEF IsBack
<1>4. IsChain(rest, fl, m, k)
  <2>1. \A i \in 1..m : k[i] # e /\ k[i] \in Item
    BY <1>1 DEF IsChain, Elems
  <2>2. \A i \in 1..m : fl[k[i]] = fLink[k[i]]
    BY <2>1
  <2> QED BY <1>1, <2>2 DEF IsChain
<1> HIDE DEF fl, bl
<1>5. Linked(head, tail, fl, bl, rest, L, K)
  BY <1>1, <1>2, <1>3, <1>4, Zenon DEF Linked
<1> QED BY <1>5 DEF fl, bl

\* One more at the head of the list.
LEMMA AddKeepsLinked ==
  ASSUME NEW head, NEW tail, NEW fLink \in [Item -> MaybeItem],
         NEW fBackLink \in [Item -> MaybeItem], NEW rest, NEW L, NEW K,
         Linked(head, tail, fLink, fBackLink, rest, L, K),
         NEW e \in Item, e \notin L \cup K,
         NEW fl, fl = [fLink EXCEPT ![e] = head],
         NEW bl, bl = [x \in Item |-> CASE x = e -> NULL
                                        [] x # e /\ x = head -> e
                                        [] OTHER -> fBackLink[x]],
         NEW end, end = IF head = NULL THEN e ELSE tail
  PROVE  Linked(e, end, fl, bl, rest, L \cup {e}, K)
<1>1. PICK n, s, m, k :
        /\ IsChain(head, fLink, n, s) /\ IsBack(fBackLink, n, s)
        /\ tail = At(n, s, n)
        /\ IsChain(rest, fLink, m, k)
        /\ L = Elems(n, s) /\ K = Elems(m, k) /\ L \cap K = {}
  BY Zenon DEF Linked
<1> DEFINE N == n + 1
           z == [i \in 1..N |-> IF i = 1 THEN e ELSE s[i - 1]]
<1>2. /\ n \in Nat /\ s \in [1..n -> Item] /\ head = At(n, s, 1)
      /\ \A i, j \in 1..n : s[i] = s[j] => i = j
      /\ \A i \in 1..n : fLink[s[i]] = At(n, s, i + 1)
  BY <1>1 DEF IsChain
<1>3. \A i \in 1..n : s[i] \in Item /\ s[i] # e /\ s[i] # NULL
  BY <1>1, <1>2, ItemFacts DEF Elems
<1>4. N \in Nat /\ z \in [1..N -> Item] /\ z[1] = e
  BY <1>2, <1>3
<1>5. \A i \in 2..N : i - 1 \in 1..n /\ z[i] = s[i - 1]
  BY <1>2
<1>6. \A i \in 1..N : i = 1 \/ i \in 2..N
  BY <1>2
<1> HIDE DEF z
<1>7. At(N, z, 1) = e /\ At(N, z, 2) = head
  <2>1. CASE n = 0
    <3>1. 2 \notin 1..N /\ 1 \notin 1..n /\ 1 \in 1..N
      BY <2>1
    <3> QED BY <3>1, <1>4, <1>2 DEF At
  <2>2. CASE n # 0
    <3>1. 2 \in 1..N /\ 1 \in 1..n /\ 1 \in 1..N /\ 2 \in 2..N
      BY <2>2, <1>2
    <3> QED BY <3>1, <1>4, <1>5, <1>2 DEF At
  <2> QED BY <2>1, <2>2
<1>8. \A i \in 1..n : At(N, z, i + 1) = s[i]
  BY <1>2, <1>5 DEF At
<1>9. At(N, z, N + 1) = NULL
  BY <1>2 DEF At
<1>10. IsChain(e, fl, N, z)
  <2>1. \A i, j \in 1..N : z[i] = z[j] => i = j
    <3> SUFFICES ASSUME NEW i \in 1..N, NEW j \in 1..N, z[i] = z[j] PROVE i = j
      OBVIOUS
    <3>1. CASE i = 1 /\ j = 1
      BY <3>1
    <3>2. CASE i = 1 /\ j \in 2..N
      BY <3>2, <1>3, <1>4, <1>5
    <3>3. CASE j = 1 /\ i \in 2..N
      BY <3>3, <1>3, <1>4, <1>5
    <3>4. CASE i \in 2..N /\ j \in 2..N
      <4>1. s[i - 1] = s[j - 1] /\ i - 1 \in 1..n /\ j - 1 \in 1..n
        BY <3>4, <1>5
      <4>2. i - 1 = j - 1
        BY <4>1, <1>2
      <4> QED BY <4>2, <1>4
    <3> QED BY <3>1, <3>2, <3>3, <3>4, <1>6
  <2>2. ASSUME NEW i \in 1..N PROVE fl[z[i]] = At(N, z, i + 1)
    <3>1. CASE i = 1
      BY <3>1, <1>4, <1>7
    <3>2. CASE i \in 2..N
      <4>1. z[i] = s[i - 1] /\ i - 1 \in 1..n
        BY <3>2, <1>5
      <4>2. fl[z[i]] = fLink[s[i - 1]]
        BY <4>1, <1>3
      <4>3. fLink[s[i - 1]] = At(n, s, i)
        <5>1. (i - 1) + 1 = i
          BY <1>4
        <5> QED BY <4>1, <1>2, <5>1
      <4>4. CASE i \in 1..n
        BY <4>2, <4>3, <4>4, <1>8 DEF At
      <4>5. CASE i \notin 1..n
        <5>1. i = N
          BY <4>5, <1>4, <1>2
        <5> QED BY <4>2, <4>3, <4>5, <5>1, <1>9 DEF At
      <4> QED BY <4>4, <4>5
    <3> QED BY <3>1, <3>2, <1>6
  <2> QED BY <1>4, <1>7, <2>1, <2>2 DEF IsChain
<1>11. IsBack(bl, N, z)
  <2> SUFFICES ASSUME NEW i \in 1..N PROVE bl[z[i]] = At(N, z, i - 1)
    BY DEF IsBack
  <2>1. CASE i = 1
    <3>1. i - 1 \notin 1..N
      BY <2>1
    <3> QED BY <2>1, <3>1, <1>4 DEF At
  <2>2. CASE i = 2
    <3>1. 2 \in 2..N /\ 1 \in 1..n /\ 2 - 1 = 1
      BY <2>2, <1>2
    <3>2. z[i] = s[1] /\ head = s[1]
      BY <2>2, <3>1, <1>5, <1>2 DEF At
    <3>3. bl[z[i]] = e
      BY <3>1, <3>2, <1>3
    <3> QED BY <2>2, <3>1, <3>3, <1>7
  <2>3. CASE i \in 2..N /\ i # 2
    <3>1. i - 1 \in 1..n /\ i - 2 \in 1..n /\ i - 1 # 1 /\ (i - 2) + 1 = i - 1 /\ 1 \in 1..n
          /\ (i - 1) - 1 = i - 2
      BY <2>3, <1>2
    <3>2. z[i] = s[i - 1]
      BY <2>3, <1>5
    <3>3. z[i] # e /\ z[i] # head /\ z[i] \in Item
      BY <3>1, <3>2, <1>2, <1>3 DEF At
    <3>4. bl[z[i]] = fBackLink[s[i - 1]]
      BY <3>2, <3>3
    <3>5. fBackLink[s[i - 1]] = At(n, s, i - 2)
      BY <1>1, <3>1 DEF IsBack
    <3>6. At(N, z, i - 1) = s[i - 2]
      BY <1>8, <3>1
    <3> QED BY <3>1, <3>4, <3>5, <3>6 DEF At
  <2> QED BY <2>1, <2>2, <2>3, <1>6
<1>12. At(N, z, N) = end
  <2>1. CASE n = 0
    <3>1. N = 1 /\ 1 \notin 1..n
      BY <2>1
    <3> QED BY <3>1, <1>7, <1>2 DEF At
  <2>2. CASE n # 0
    <3>1. n \in 1..n /\ 1 \in 1..n
      BY <2>2, <1>2
    <3>2. At(N, z, N) = s[n] /\ tail = s[n] /\ head = s[1]
      BY <3>1, <1>8, <1>1, <1>2 DEF At
    <3> QED BY <3>1, <3>2, <1>3
  <2> QED BY <2>1, <2>2
<1>13. L \cup {e} = Elems(N, z)
  <2>1. ASSUME NEW x \in L \cup {e} PROVE x \in Elems(N, z)
    <3>1. CASE x = e
      <4>1. 1 \in 1..N
        BY <1>2
      <4> QED BY <3>1, <4>1, <1>4 DEF Elems
    <3>2. CASE x \in L
      <4>1. PICK i \in 1..n : x = s[i]
        BY <3>2, <1>1 DEF Elems
      <4>2. i + 1 \in 1..N /\ i + 1 \in 2..N /\ (i + 1) - 1 = i
        BY <1>2
      <4> QED BY <4>1, <4>2, <1>5 DEF Elems
    <3> QED BY <3>1, <3>2
  <2>2. ASSUME NEW x \in Elems(N, z) PROVE x \in L \cup {e}
    <3>1. PICK i \in 1..N : x = z[i]
      BY <2>2 DEF Elems
    <3> QED BY <3>1, <1>1, <1>4, <1>5, <1>6 DEF Elems
  <2> QED BY <2>1, <2>2
<1>14. IsChain(rest, fl, m, k)
  <2>1. \A i \in 1..m : k[i] # e /\ k[i] \in Item
    BY <1>1 DEF IsChain, Elems
  <2>2. \A i \in 1..m : fl[k[i]] = fLink[k[i]]
    BY <2>1
  <2> QED BY <1>1, <2>2 DEF IsChain
<1>15. (L \cup {e}) \cap K = {}
  BY <1>1
<1> HIDE DEF N
<1> QED BY <1>1, <1>10, <1>11, <1>12, <1>13, <1>14, <1>15, Zenon DEF Linked

\* One fewer anywhere in the list: the entry before leads past it.
Past(link, back, e) == [x \in Item |-> IF x = back[e] THEN link[e] ELSE link[x]]
IfNull(link, other, end) == IF link = NULL THEN other ELSE end
LEMMA RemoveKeepsLinked ==
  ASSUME NEW head, NEW tail, NEW fLink \in [Item -> MaybeItem],
         NEW fBackLink \in [Item -> MaybeItem], NEW rest, NEW L, NEW K,
         Linked(head, tail, fLink, fBackLink, rest, L, K),
         NEW e \in L,
         NEW fl, fl = Past(fLink, fBackLink, e), NEW bl, bl = Past(fBackLink, fLink, e),
         NEW start, start = IfNull(fBackLink[e], fLink[e], head),
         NEW end, end = IfNull(fLink[e], fBackLink[e], tail)
  PROVE  Linked(start, end, fl, bl, rest, L \ {e}, K)
<1> USE DEF Past, IfNull
<1>1. PICK n, s, m, k :
        /\ IsChain(head, fLink, n, s) /\ IsBack(fBackLink, n, s)
        /\ tail = At(n, s, n)
        /\ IsChain(rest, fLink, m, k)
        /\ L = Elems(n, s) /\ K = Elems(m, k) /\ L \cap K = {}
  BY Zenon DEF Linked
<1>2. /\ n \in Nat /\ s \in [1..n -> Item] /\ head = At(n, s, 1)
      /\ \A i, j \in 1..n : s[i] = s[j] => i = j
      /\ \A i \in 1..n : fLink[s[i]] = At(n, s, i + 1)
      /\ \A i \in 1..n : fBackLink[s[i]] = At(n, s, i - 1)
  BY <1>1 DEF IsChain, IsBack
<1>3. PICK j \in 1..n : e = s[j]
  BY <1>1 DEF Elems
<1> DEFINE N == n - 1
           up(i) == IF i < j THEN i ELSE i + 1
           z == [i \in 1..N |-> s[up(i)]]
<1>4. /\ N \in Nat
      /\ \A i \in 1..N : up(i) \in 1..n /\ up(i) # j
      /\ \A i \in 1..n : i # j => \E x \in 1..N : up(x) = i
  <2>1. ASSUME NEW i \in 1..n, i # j PROVE \E x \in 1..N : up(x) = i
    <3>1. CASE i < j
      <4>1. i \in 1..N /\ up(i) = i
        BY <3>1, <1>2
      <4> QED BY <4>1
    <3>2. CASE i > j
      <4>1. i - 1 \in 1..N /\ up(i - 1) = i
        BY <3>2, <1>2
      <4> QED BY <4>1
    <3> QED BY <2>1, <3>1, <3>2, <1>2
  <2> QED BY <2>1, <1>2
<1>5. z \in [1..N -> Item] /\ \A i \in 1..N : z[i] = s[up(i)]
  BY <1>2, <1>4
<1>6. fLink[e] = At(n, s, j + 1) /\ fBackLink[e] = At(n, s, j - 1)
  BY <1>2, <1>3
<1>7. /\ \A i \in 1..n : s[i] \in Item /\ s[i] # NULL
      /\ \A i \in 1..n : s[i] = fLink[e] <=> i = j + 1
      /\ \A i \in 1..n : s[i] = fBackLink[e] <=> i = j - 1
  <2>1. \A i \in 1..n : s[i] \in Item /\ s[i] # NULL
    BY <1>2, ItemFacts
  <2>2. ASSUME NEW i \in 1..n PROVE s[i] = fLink[e] <=> i = j + 1
    BY <2>1, <1>2, <1>6 DEF At
  <2>3. ASSUME NEW i \in 1..n PROVE s[i] = fBackLink[e] <=> i = j - 1
    BY <2>1, <1>2, <1>6 DEF At
  <2> QED BY <2>1, <2>2, <2>3
<1> HIDE DEF z
\* What follows, and what comes before, the entries that stay.
<1>8. ASSUME NEW i \in 1..N
      PROVE  At(N, z, i + 1) = IF up(i) = j - 1 THEN At(n, s, j + 1) ELSE At(n, s, up(i) + 1)
  <2>1. CASE i + 1 \in 1..N
    <3>1. At(N, z, i + 1) = s[up(i + 1)]
      BY <2>1, <1>5 DEF At
    <3>2. up(i + 1) \in 1..n
      BY <2>1, <1>4
    <3>3. up(i + 1) = IF up(i) = j - 1 THEN j + 1 ELSE up(i) + 1
      BY <1>2
    <3> QED BY <3>1, <3>2, <3>3 DEF At
  <2>2. CASE i + 1 \notin 1..N
    <3>1. i = N /\ At(N, z, i + 1) = NULL
      BY <2>2, <1>4 DEF At
    <3>2. CASE up(i) = j - 1
      <4>1. j + 1 \notin 1..n
        BY <3>1, <3>2, <1>2
      <4> QED BY <3>1, <3>2, <4>1 DEF At
    <3>3. CASE up(i) # j - 1
      <4>1. up(i) + 1 \notin 1..n
        BY <3>1, <3>3, <1>2
      <4> QED BY <3>1, <3>3, <4>1 DEF At
    <3> QED BY <3>2, <3>3
  <2> QED BY <2>1, <2>2
<1>9. ASSUME NEW i \in 1..N
      PROVE  At(N, z, i - 1) = IF up(i) = j + 1 THEN At(n, s, j - 1) ELSE At(n, s, up(i) - 1)
  <2>1. CASE i - 1 \in 1..N
    <3>1. At(N, z, i - 1) = s[up(i - 1)]
      BY <2>1, <1>5 DEF At
    <3>2. up(i - 1) \in 1..n
      BY <2>1, <1>4
    <3>3. up(i - 1) = IF up(i) = j + 1 THEN j - 1 ELSE up(i) - 1
      BY <1>2
    <3> QED BY <3>1, <3>2, <3>3 DEF At
  <2>2. CASE i - 1 \notin 1..N
    <3>1. i = 1 /\ At(N, z, i - 1) = NULL
      BY <2>2, <1>4 DEF At
    <3>2. CASE up(i) = j + 1
      <4>1. j - 1 \notin 1..n
        BY <3>1, <3>2, <1>2
      <4> QED BY <3>1, <3>2, <4>1 DEF At
    <3>3. CASE up(i) # j + 1
      <4>1. up(i) - 1 \notin 1..n
        BY <3>1, <3>3, <1>2
      <4> QED BY <3>1, <3>3, <4>1 DEF At
    <3> QED BY <3>2, <3>3
  <2> QED BY <2>1, <2>2
<1>10. At(N, z, 1) = IF j = 1 THEN At(n, s, 2) ELSE At(n, s, 1)
  <2>1. CASE N = 0
    <3>1. j = 1 /\ 1 \notin 1..N /\ 2 \notin 1..n
      BY <2>1, <1>2
    <3> QED BY <3>1 DEF At
  <2>2. CASE N # 0
    <3>1. 1 \in 1..N /\ up(1) \in 1..n /\ up(1) = IF j = 1 THEN 2 ELSE 1
      BY <2>2, <1>2
    <3> QED BY <3>1, <1>5 DEF At
  <2> QED BY <2>1, <2>2
<1>11. At(N, z, N) = IF j = n THEN At(n, s, n - 1) ELSE At(n, s, n)
  <2>1. CASE N = 0
    <3>1. j = n /\ N \notin 1..N /\ n - 1 \notin 1..n
      BY <2>1, <1>2
    <3> QED BY <3>1 DEF At
  <2>2. CASE N # 0
    <3>1. N \in 1..N /\ up(N) \in 1..n /\ up(N) = IF j = n THEN n - 1 ELSE n
      BY <2>2, <1>2
    <3> QED BY <3>1, <1>5 DEF At
  <2> QED BY <2>1, <2>2
<1>12. IsChain(start, fl, N, z)
  <2>1. \A i, x \in 1..N : z[i] = z[x] => i = x
    <3> SUFFICES ASSUME NEW i \in 1..N, NEW x \in 1..N, z[i] = z[x] PROVE i = x
      OBVIOUS
    <3>1. up(i) = up(x)
      BY <1>2, <1>4, <1>5
    <3> QED BY <3>1, <1>2
  <2>2. ASSUME NEW i \in 1..N PROVE fl[z[i]] = At(N, z, i + 1)
    <3>1. up(i) \in 1..n /\ z[i] = s[up(i)] /\ z[i] \in Item
      BY <1>4, <1>5
    <3>2. fl[z[i]] = IF up(i) = j - 1 THEN fLink[e] ELSE At(n, s, up(i) + 1)
      <4> DEFINE u == up(i)
      <4> HIDE DEF u
      <4>1. u \in 1..n /\ z[i] = s[u] /\ s[u] \in Item
        BY <3>1 DEF u
      <4>2. fl[s[u]] = IF u = j - 1 THEN fLink[e] ELSE At(n, s, u + 1)
        BY <4>1, <1>7, <1>2
      <4> QED BY <4>1, <4>2 DEF u
    <3> QED BY <3>2, <1>6, <1>8
  <2>3. At(N, z, 1) = start
    <3>1. CASE j = 1
      <4>1. j - 1 \notin 1..n /\ j + 1 = 2
        BY <3>1
      <4> QED BY <3>1, <4>1, <1>10, <1>6 DEF At
    <3>2. CASE j # 1
      <4>1. j - 1 \in 1..n
        BY <3>2, <1>2
      <4> QED BY <3>2, <4>1, <1>10, <1>6, <1>7, <1>2 DEF At
    <3> QED BY <3>1, <3>2
  <2> QED BY <1>4, <1>5, <2>1, <2>2, <2>3 DEF IsChain
<1>13. IsBack(bl, N, z)
  <2> SUFFICES ASSUME NEW i \in 1..N PROVE bl[z[i]] = At(N, z, i - 1)
    BY DEF IsBack
  <2> DEFINE u == up(i)
  <2>1. u \in 1..n /\ z[i] = s[u] /\ s[u] \in Item
    BY <1>4, <1>5
  <2>2. At(N, z, i - 1) = IF u = j + 1 THEN At(n, s, j - 1) ELSE At(n, s, u - 1)
    BY <1>9
  <2> HIDE DEF u
  <2>3. bl[s[u]] = IF u = j + 1 THEN fBackLink[e] ELSE At(n, s, u - 1)
    BY <2>1, <1>7, <1>2
  <2> QED BY <2>1, <2>2, <2>3, <1>6
<1>14. At(N, z, N) = end
  <2>1. CASE j = n
    <3>1. j + 1 \notin 1..n
      BY <2>1
    <3> QED BY <2>1, <3>1, <1>11, <1>6 DEF At
  <2>2. CASE j # n
    <3>1. j + 1 \in 1..n
      BY <2>2, <1>2
    <3> QED BY <2>2, <3>1, <1>1, <1>11, <1>6, <1>7 DEF At
  <2> QED BY <2>1, <2>2
<1>15. L \ {e} = Elems(N, z)
  <2>1. ASSUME NEW x \in L \ {e} PROVE x \in Elems(N, z)
    <3>1. PICK i \in 1..n : x = s[i]
      BY <1>1 DEF Elems
    <3>2. i # j
      BY <3>1, <1>3
    <3>3. PICK y \in 1..N : up(y) = i
      BY <3>2, <1>4
    <3> QED BY <3>1, <3>3, <1>5 DEF Elems
  <2>2. ASSUME NEW x \in Elems(N, z) PROVE x \in L \ {e}
    <3>1. PICK i \in 1..N : x = z[i]
      BY <2>2 DEF Elems
    <3> DEFINE u == up(i)
    <3>2. u \in 1..n /\ u # j /\ x = s[u]
      BY <3>1, <1>4, <1>5
    <3> HIDE DEF u
    <3> QED BY <3>2, <1>1, <1>2, <1>3 DEF Elems
  <2> QED BY <2>1, <2>2
<1>16. IsChain(rest, fl, m, k)
  <2>1. \A i \in 1..m : k[i] # fBackLink[e] /\ k[i] \in Item
    <3>1. fBackLink[e] \in L \cup {NULL}
      BY <1>1, <1>2, <1>6 DEF At, Elems
    <3>2. \A i \in 1..m : k[i] \in K /\ k[i] \in Item
      BY <1>1 DEF IsChain, Elems
    <3> QED BY <3>1, <3>2, <1>1, ItemFacts
  <2>2. \A i \in 1..m : fl[k[i]] = fLink[k[i]]
    BY <2>1
  <2> QED BY <1>1, <2>2 DEF IsChain
<1>17. (L \ {e}) \cap K = {}
  BY <1>1
<1> HIDE DEF N
<1> QED BY <1>1, <1>12, <1>13, <1>14, <1>15, <1>16, <1>17, Zenon DEF Linked

\* The list becomes what is to be released.
LEMMA ResetKeepsLinked ==
  ASSUME NEW head, NEW tail, NEW fLink, NEW fBackLink, NEW rest, NEW L,
         Linked(head, tail, fLink, fBackLink, rest, L, {})
  PROVE  Linked(NULL, NULL, fLink, fBackLink, head, {}, L)
<1>1. PICK n, s : IsChain(head, fLink, n, s) /\ L = Elems(n, s)
  BY Zenon DEF Linked
<1> DEFINE z == [i \in 1..0 |-> 1]
<1>2. IsChain(NULL, fLink, 0, z) /\ IsBack(fBackLink, 0, z) /\ Elems(0, z) = {}
      /\ At(0, z, 0) = NULL
  BY DEF IsChain, IsBack, Elems, At
<1> HIDE DEF z
<1>3. {} \cap L = {}
  OBVIOUS
<1> QED BY <1>1, <1>2, <1>3, Zenon DEF Linked

\* The first of the rest is released.
LEMMA NextKeepsLinked ==
  ASSUME NEW head, NEW tail, NEW fLink \in [Item -> MaybeItem],
         NEW fBackLink, NEW rest, NEW L, NEW K,
         Linked(head, tail, fLink, fBackLink, rest, L, K), rest # NULL
  PROVE  /\ rest \in K
         /\ Linked(head, tail, fLink, fBackLink, fLink[rest], L, K \ {rest})
<1>1. PICK n, s, m, k :
        /\ IsChain(head, fLink, n, s) /\ IsBack(fBackLink, n, s)
        /\ tail = At(n, s, n)
        /\ IsChain(rest, fLink, m, k)
        /\ L = Elems(n, s) /\ K = Elems(m, k) /\ L \cap K = {}
  BY Zenon DEF Linked
<1>2. /\ m \in Nat /\ k \in [1..m -> Item] /\ rest = At(m, k, 1)
      /\ \A i, j \in 1..m : k[i] = k[j] => i = j
      /\ \A i \in 1..m : fLink[k[i]] = At(m, k, i + 1)
  BY <1>1 DEF IsChain
<1>3. 1 \in 1..m /\ rest = k[1]
  BY <1>2 DEF At
<1> DEFINE M == m - 1
           z == [i \in 1..M |-> k[i + 1]]
<1>4. /\ M \in Nat /\ z \in [1..M -> Item]
      /\ \A i \in 1..M : z[i] = k[i + 1] /\ i + 1 \in 1..m
  BY <1>2, <1>3
<1> HIDE DEF z
<1>5. \A i \in 1..m : At(M, z, i) = At(m, k, i + 1)
  <2> SUFFICES ASSUME NEW i \in 1..m PROVE At(M, z, i) = At(m, k, i + 1)
    OBVIOUS
  <2>1. CASE i \in 1..M
    BY <2>1, <1>4 DEF At
  <2>2. CASE i \notin 1..M
    <3>1. i + 1 \notin 1..m
      BY <2>2, <1>2
    <3> QED BY <2>2, <3>1 DEF At
  <2> QED BY <2>1, <2>2
<1>6. IsChain(fLink[rest], fLink, M, z)
  <2>1. \A i, j \in 1..M : z[i] = z[j] => i = j
    <3> SUFFICES ASSUME NEW i \in 1..M, NEW j \in 1..M, z[i] = z[j] PROVE i = j
      OBVIOUS
    <3>1. i + 1 = j + 1
      BY <1>2, <1>4
    <3> QED BY <3>1
  <2>2. fLink[rest] = At(M, z, 1)
    BY <1>2, <1>3, <1>5
  <2>3. ASSUME NEW i \in 1..M PROVE fLink[z[i]] = At(M, z, i + 1)
    <3>1. i + 1 \in 1..m /\ z[i] = k[i + 1]
      BY <1>4
    <3> DEFINE q == i + 1
    <3>2. q \in 1..m /\ z[i] = k[q]
      BY <3>1
    <3> HIDE DEF q
    <3>3. fLink[k[q]] = At(m, k, q + 1) /\ At(M, z, q) = At(m, k, q + 1)
      BY <3>2, <1>2, <1>5
    <3> QED BY <3>2, <3>3 DEF q
  <2> QED BY <1>4, <2>1, <2>2, <2>3 DEF IsChain
<1>7. K \ {rest} = Elems(M, z)
  <2>1. ASSUME NEW x \in K \ {rest} PROVE x \in Elems(M, z)
    <3>1. PICK i \in 1..m : x = k[i]
      BY <1>1 DEF Elems
    <3>2. i - 1 \in 1..M /\ (i - 1) + 1 = i
      BY <3>1, <1>2, <1>3
    <3>3. z[i - 1] = k[i]
      BY <3>2, <1>4
    <3> QED BY <3>1, <3>2, <3>3 DEF Elems
  <2>2. ASSUME NEW x \in Elems(M, z) PROVE x \in K \ {rest}
    <3>1. PICK i \in 1..M : x = z[i]
      BY <2>2 DEF Elems
    <3>2. i + 1 \in 1..m /\ x = k[i + 1] /\ i + 1 # 1
      BY <3>1, <1>4
    <3> QED BY <3>2, <1>1, <1>2, <1>3 DEF Elems
  <2> QED BY <2>1, <2>2
<1>8. L \cap (K \ {rest}) = {} /\ rest \in K
  BY <1>1, <1>3 DEF Elems
<1> HIDE DEF M
<1> QED BY <1>1, <1>6, <1>7, <1>8, Zenon DEF Linked

\* What the walk along the links meets.
LEMMA NthMeans ==
  ASSUME NEW c, NEW first, NEW n, NEW s, IsChain(first, c.fLink, n, s)
  PROVE  \A x \in 0..MaxItems : Nth(c, first)[x] = At(n, s, x + 1)
<1> DEFINE F(g) == [x \in 0..MaxItems |->
                      IF x = 0 THEN first
                      ELSE IF g[x - 1] = NULL THEN NULL ELSE c.fLink[g[x - 1]]]
           nth == CHOOSE g : g = F(g)
           W == [x \in 0..MaxItems |-> At(n, s, x + 1)]
<1>1. /\ n \in Nat /\ s \in [1..n -> Item] /\ first = At(n, s, 1)
      /\ \A i \in 1..n : c.fLink[s[i]] = At(n, s, i + 1) /\ s[i] # NULL
  BY ItemFacts DEF IsChain
<1>2. MaxItems \in Nat
  BY CacheAssumption DEF CacheAssumption
<1>3. ASSUME NEW x \in 1..MaxItems
      PROVE  At(n, s, x + 1) = IF At(n, s, x) = NULL THEN NULL ELSE c.fLink[At(n, s, x)]
  <2>1. CASE x \in 1..n
    BY <2>1, <1>1 DEF At
  <2>2. CASE x \notin 1..n
    <3>1. x + 1 \notin 1..n
      BY <2>2, <1>1
    <3> QED BY <2>2, <3>1 DEF At
  <2> QED BY <2>1, <2>2
<1>4. W = F(W)
  <2>1. ASSUME NEW x \in 0..MaxItems
        PROVE  W[x] = IF x = 0 THEN first
                      ELSE IF W[x - 1] = NULL THEN NULL ELSE c.fLink[W[x - 1]]
    <3>1. CASE x = 0
      BY <3>1, <1>1
    <3>2. CASE x # 0
      <4>1. x \in 1..MaxItems /\ x - 1 \in 0..MaxItems /\ (x - 1) + 1 = x
        BY <3>2, <1>2
      <4>2. W[x - 1] = At(n, s, x) /\ W[x] = At(n, s, x + 1)
        BY <4>1
      <4> QED BY <3>2, <4>1, <4>2, <1>3
    <3> QED BY <3>1, <3>2
  <2> QED BY <2>1
<1>5. nth = F(nth)
  <2> HIDE DEF F, W
  <2> QED BY <1>4, Zenon
<1>6. Nth(c, first) = nth
  BY DEF Nth
<1> HIDE DEF nth
<1>7. \A x \in 0..MaxItems : nth[x] = At(n, s, x + 1)
  <2> DEFINE S == {x \in 0..MaxItems : nth[x] # At(n, s, x + 1)}
  <2> SUFFICES ASSUME S # {} PROVE FALSE
    OBVIOUS
  <2>1. S \subseteq Nat
    BY <1>2
  <2>2. PICK x \in S : \A y \in S : x <= y
    BY <2>1, Smallest
  <2>3. nth[x] = IF x = 0 THEN first
                 ELSE IF nth[x - 1] = NULL THEN NULL ELSE c.fLink[nth[x - 1]]
    BY <1>5
  <2>4. CASE x = 0
    BY <2>3, <2>4, <1>1
  <2>5. CASE x # 0
    <3>1. x \in 1..MaxItems /\ x - 1 \in 0..MaxItems /\ (x - 1) + 1 = x /\ ~(x <= x - 1)
      BY <2>5, <1>2
    <3>2. nth[x - 1] = At(n, s, x)
      BY <2>2, <3>1
    <3> QED BY <2>3, <2>5, <3>1, <3>2, <1>3
  <2> QED BY <2>4, <2>5
<1> QED BY <1>6, <1>7

LEMMA ChainMeans ==
  ASSUME NEW c, NEW first, NEW n, NEW s, IsChain(first, c.fLink, n, s)
  PROVE  Chain(c, first) = Elems(n, s)
<1>0. n <= MaxItems
  BY ChainFits, Zenon
<1>1. n \in Nat /\ s \in [1..n -> Item] /\ n <= MaxItems /\ MaxItems \in Nat
  BY <1>0, CacheAssumption DEF CacheAssumption, IsChain
<1> DEFINE nth == Nth(c, first)
<1>2. \A x \in 0..MaxItems : nth[x] = At(n, s, x + 1)
  BY NthMeans
<1> HIDE DEF nth
<1>3. Chain(c, first) = {nth[x] : x \in 0..MaxItems} \ {NULL}
  BY DEF Chain, nth
<1>4. ASSUME NEW y \in Chain(c, first) PROVE y \in Elems(n, s)
  <2>1. PICK x \in 0..MaxItems : y = nth[x] /\ y # NULL
    BY <1>3, <1>4
  <2> QED BY <2>1, <1>2 DEF At, Elems
<1>5. ASSUME NEW y \in Elems(n, s) PROVE y \in Chain(c, first)
  <2>1. PICK i \in 1..n : y = s[i]
    BY <1>5 DEF Elems
  <2>2. i - 1 \in 0..MaxItems /\ (i - 1) + 1 = i
    BY <1>1
  <2>3. nth[i - 1] = y
    BY <2>1, <2>2, <1>2 DEF At
  <2>4. y # NULL
    BY <2>1, <1>1, ItemFacts
  <2> QED BY <2>2, <2>3, <2>4, <1>3
<1> QED BY <1>4, <1>5

LEMMA LinkedMeans ==
  ASSUME NEW c, NEW rest, NEW L, NEW K,
         Linked(c.head, c.tail, c.fLink, c.fBackLink, rest, L, K)
  PROVE  L = Chain(c, c.head) /\ K = Chain(c, rest)
<1>1. PICK n, s, m, k :
        /\ IsChain(c.head, c.fLink, n, s) /\ IsChain(rest, c.fLink, m, k)
        /\ L = Elems(n, s) /\ K = Elems(m, k)
  BY Zenon DEF Linked
<1> QED BY <1>1, ChainMeans

\* What the property says of the list.
LEMMA LinkedIsWhole ==
  ASSUME NEW rest, NEW L, NEW K,
         Linked(cache.head, cache.tail, cache.fLink, cache.fBackLink, rest, L, K)
  PROVE  ListIsWhole
<1>1. PICK n, s :
        /\ IsChain(cache.head, cache.fLink, n, s) /\ IsBack(cache.fBackLink, n, s)
        /\ cache.tail = At(n, s, n) /\ L = Elems(n, s)
  BY Zenon DEF Linked
<1>2. /\ n \in Nat /\ s \in [1..n -> Item] /\ cache.head = At(n, s, 1)
      /\ \A i, j \in 1..n : s[i] = s[j] => i = j
      /\ \A i \in 1..n : cache.fLink[s[i]] = At(n, s, i + 1)
      /\ \A i \in 1..n : cache.fBackLink[s[i]] = At(n, s, i - 1)
      /\ \A i \in 1..n : s[i] # NULL
  BY <1>1, ItemFacts DEF IsChain, IsBack
<1>3. n <= MaxItems /\ MaxItems \in Nat
  <2>1. n <= MaxItems
    BY <1>1, ChainFits, Zenon
  <2> QED BY <2>1, CacheAssumption DEF CacheAssumption
<1> DEFINE at == Nth(cache, cache.head)
<1>4. \A x \in 0..MaxItems : at[x] = At(n, s, x + 1)
  <2>1. IsChain(cache.head, cache.fLink, n, s)
    BY <1>1
  <2> QED BY <2>1, NthMeans
<1> HIDE DEF at
<1>5. Listed = Elems(n, s)
  BY <1>1, ChainMeans DEF Listed
<1>6. at[MaxItems] = NULL
  BY <1>2, <1>3, <1>4 DEF At
<1>7. \A e \in Listed : cache.fLink[e] = NULL <=> e = cache.tail
  <2> SUFFICES ASSUME NEW e \in Elems(n, s) PROVE cache.fLink[e] = NULL <=> e = cache.tail
    BY <1>5
  <2>1. PICK i \in 1..n : e = s[i]
    BY DEF Elems
  <2>2. n \in 1..n /\ cache.tail = s[n]
    BY <2>1, <1>1, <1>2 DEF At
  <2>3. e = cache.tail <=> i = n
    BY <2>1, <2>2, <1>2
  <2>4. cache.fLink[e] = NULL <=> i + 1 \notin 1..n
    BY <2>1, <1>2 DEF At
  <2> QED BY <2>1, <2>3, <2>4, <1>2
<1>8. (cache.tail = NULL) = (cache.head = NULL)
  BY <1>1, <1>2 DEF At
<1>9. ASSUME NEW x \in 1..MaxItems, at[x] # NULL PROVE cache.fBackLink[at[x]] = at[x - 1]
  <2>1. x - 1 \in 0..MaxItems /\ x \in 0..MaxItems /\ (x - 1) + 1 = x /\ (x + 1) - 1 = x
    BY <1>3
  <2>2. at[x - 1] = At(n, s, x) /\ at[x] = At(n, s, x + 1)
    BY <2>1, <1>4
  <2>3. x + 1 \in 1..n /\ at[x] = s[x + 1]
    BY <2>2, <1>9 DEF At
  <2>4. cache.fBackLink[s[x + 1]] = At(n, s, (x + 1) - 1)
    BY <2>3, <1>2
  <2> QED BY <2>1, <2>2, <2>3, <2>4
<1>10. cache.head # NULL => cache.fBackLink[cache.head] = NULL
  <2> HAVE cache.head # NULL
  <2>1. 1 \in 1..n /\ cache.head = s[1]
    BY <1>2 DEF At
  <2>2. 1 - 1 \notin 1..n
    BY <1>2
  <2> QED BY <2>1, <2>2, <1>2 DEF At
<1> QED BY <1>6, <1>7, <1>8, <1>9, <1>10 DEF ListIsWhole, at

-----------------------------------------------------------------------------
(***************************************************************************)
(* A whole cache: its list is L, rest leads through K, and each entry is   *)
(* retained once for every hash, for either chain, and ext times besides.  *)
(***************************************************************************)
IsCache(c) ==
  /\ c = [hash |-> c.hash, head |-> c.head, tail |-> c.tail, fLink |-> c.fLink,
          fBackLink |-> c.fBackLink, attr |-> c.attr, retain |-> c.retain]
  /\ c.hash \in [Hash -> SUBSET Item]
  /\ c.fLink \in [Item -> MaybeItem] /\ c.fBackLink \in [Item -> MaybeItem]
  /\ c.retain \in [Item -> Nat]
OneIf(b) == IF b THEN 1 ELSE 0
Counted(c, ext, U) ==
  \A e \in Item : c.retain[e] = HashesOf(c.hash, e) + OneIf(e \in U) + ext[e]
Whole(c, rest, ext, L, K) ==
  /\ IsCache(c)
  /\ ext \in [Item -> Nat]
  /\ Linked(c.head, c.tail, c.fLink, c.fBackLink, rest, L, K)
  /\ Counted(c, ext, L \cup K)

More(ext, e) == [ext EXCEPT ![e] = @ + 1]
Less(ext, e) == [ext EXCEPT ![e] = @ - 1]

LEMMA MoreLess ==
  ASSUME NEW ext \in [Item -> Nat], NEW e \in Item
  PROVE  /\ More(ext, e) \in [Item -> Nat] /\ More(ext, e)[e] >= 1
         /\ Less(More(ext, e), e) = ext
         /\ \A x \in Item : More(ext, e)[x] = ext[x] + OneIf(x = e)
         /\ ext[e] >= 1 => /\ Less(ext, e) \in [Item -> Nat]
                           /\ \A x \in Item : ext[x] = Less(ext, e)[x] + OneIf(x = e)
<1>1. Less(More(ext, e), e) = ext
  <2>1. (ext[e] + 1) - 1 = ext[e]
    OBVIOUS
  <2>2. More(ext, e) \in [Item -> Nat] /\ More(ext, e)[e] = ext[e] + 1
        /\ \A x \in Item : x # e => More(ext, e)[x] = ext[x]
    BY DEF More
  <2> DEFINE m == More(ext, e)
  <2>3. Less(m, e) = [x \in Item |-> IF x = e THEN m[e] - 1 ELSE m[x]]
    BY <2>2 DEF Less
  <2> HIDE DEF m
  <2>4. \A x \in Item : Less(m, e)[x] = ext[x]
    BY <2>1, <2>2, <2>3 DEF m
  <2> QED BY <2>3, <2>4 DEF m
<1> QED BY <1>1 DEF More, Less, OneIf

\* What a whole cache says of an entry.
LEMMA WholeFacts ==
  ASSUME NEW c, NEW rest, NEW ext, NEW L, NEW K, Whole(c, rest, ext, L, K)
  PROVE  /\ L \subseteq Item /\ K \subseteq Item /\ L \cap K = {}
         /\ \A e \in L \cup K : c.retain[e] >= 1
         /\ \A e \in Item : c.retain[e] = 0 =>
              e \notin L \cup K /\ ext[e] = 0 /\ \A h \in Hash : e \notin c.hash[h]
<1>0. Linked(c.head, c.tail, c.fLink, c.fBackLink, rest, L, K)
  BY DEF Whole
<1>1. L \subseteq Item /\ K \subseteq Item /\ L \cap K = {}
  BY <1>0, LinkedFacts
<1>2. ASSUME NEW e \in Item
      PROVE  /\ e \in L \cup K => c.retain[e] >= 1
             /\ c.retain[e] = 0 => e \notin L \cup K /\ ext[e] = 0
                                   /\ HashesOf(c.hash, e) = 0
  <2>1. c.retain[e] = HashesOf(c.hash, e) + OneIf(e \in L \cup K) + ext[e]
    BY DEF Whole, Counted
  <2>2. HashesOf(c.hash, e) \in Nat /\ ext[e] \in Nat
    BY HashesTyped DEF Whole
  <2> QED BY <2>1, <2>2 DEF OneIf
<1>3. \A e \in Item : HashesOf(c.hash, e) = 0 => \A h \in Hash : e \notin c.hash[h]
  BY HashesTyped
<1> QED BY <1>1, <1>2, <1>3

\* The attributes do not matter.
LEMMA AttrKeepsWhole ==
  ASSUME NEW c, NEW rest, NEW ext, NEW L, NEW K, Whole(c, rest, ext, L, K), NEW attr
  PROVE  /\ Whole([c EXCEPT !.attr = attr], rest, ext, L, K)
         /\ [c EXCEPT !.attr = attr].hash = c.hash
         /\ [c EXCEPT !.attr = attr].attr = attr
         /\ [c EXCEPT !.attr = attr].retain = c.retain
<1> DEFINE d == [c EXCEPT !.attr = attr]
<1>1. /\ d = [hash |-> c.hash, head |-> c.head, tail |-> c.tail, fLink |-> c.fLink,
              fBackLink |-> c.fBackLink, attr |-> attr, retain |-> c.retain]
  BY DEF Whole, IsCache
<1> HIDE DEF d
<1>2. /\ d.hash = c.hash /\ d.head = c.head /\ d.tail = c.tail /\ d.fLink = c.fLink
      /\ d.fBackLink = c.fBackLink /\ d.attr = attr /\ d.retain = c.retain
  BY <1>1
<1>3. IsCache(d)
  BY <1>1, <1>2 DEF Whole, IsCache
<1>4. Counted(d, ext, L \cup K)
  BY <1>2 DEF Whole, Counted
<1>5. Linked(d.head, d.tail, d.fLink, d.fBackLink, rest, L, K)
  BY <1>2 DEF Whole
<1> QED BY <1>2, <1>3, <1>4, <1>5 DEF Whole, d

LEMMA RetainKeepsWhole ==
  ASSUME NEW c, NEW rest, NEW ext, NEW L, NEW K, Whole(c, rest, ext, L, K), NEW e \in Item
  PROVE  /\ Whole(Retain(c, e), rest, More(ext, e), L, K)
         /\ Retain(c, e).hash = c.hash /\ Retain(c, e).attr = c.attr
<1> DEFINE d == Retain(c, e)
           r == [c.retain EXCEPT ![e] = @ + 1]
<1>1. d = [hash |-> c.hash, head |-> c.head, tail |-> c.tail, fLink |-> c.fLink,
           fBackLink |-> c.fBackLink, attr |-> c.attr, retain |-> r]
  BY DEF Whole, IsCache, Retain
<1>2. r \in [Item -> Nat] /\ \A x \in Item : r[x] = c.retain[x] + OneIf(x = e)
  BY DEF Whole, IsCache, OneIf
<1> HIDE DEF d, r
<1>3. /\ d.hash = c.hash /\ d.head = c.head /\ d.tail = c.tail /\ d.fLink = c.fLink
      /\ d.fBackLink = c.fBackLink /\ d.attr = c.attr /\ d.retain = r
  BY <1>1
<1>4. IsCache(d)
  BY <1>1, <1>2, <1>3 DEF Whole, IsCache
<1>5. ext \in [Item -> Nat] /\ More(ext, e) \in [Item -> Nat]
      /\ \A x \in Item : More(ext, e)[x] = ext[x] + OneIf(x = e)
  BY MoreLess DEF Whole
<1>6. Counted(d, More(ext, e), L \cup K)
  <2> SUFFICES ASSUME NEW x \in Item
               PROVE  d.retain[x] = HashesOf(d.hash, x) + OneIf(x \in L \cup K)
                                    + More(ext, e)[x]
    BY DEF Counted
  <2>1. c.retain[x] = HashesOf(c.hash, x) + OneIf(x \in L \cup K) + ext[x]
    BY DEF Whole, Counted
  <2>2. HashesOf(c.hash, x) \in Nat /\ ext[x] \in Nat
    BY HashesTyped, <1>5
  <2> QED BY <2>1, <2>2, <1>2, <1>3, <1>5 DEF OneIf
<1>7. Linked(d.head, d.tail, d.fLink, d.fBackLink, rest, L, K)
  BY <1>3 DEF Whole
<1> QED BY <1>3, <1>4, <1>5, <1>6, <1>7 DEF Whole, d

\* A release, of what is retained besides.  The last one frees the entry.
Freed(attr, e) == [attr EXCEPT ![e] = NoAttr]
LEMMA ReleaseKeepsWhole ==
  ASSUME NEW c, NEW rest, NEW ext, NEW L, NEW K, Whole(c, rest, ext, L, K),
         NEW e \in Item, ext[e] >= 1
  PROVE  /\ Whole(Release(c, e), rest, Less(ext, e), L, K)
         /\ Release(c, e).hash = c.hash
         /\ \/ Release(c, e).attr = c.attr
            \/ /\ Release(c, e).attr = Freed(c.attr, e)
               /\ \A h \in Hash : e \notin c.hash[h]
<1> DEFINE d == Release(c, e)
           r == [c.retain EXCEPT ![e] = @ - 1]
<1>1. /\ ext \in [Item -> Nat] /\ Less(ext, e) \in [Item -> Nat]
      /\ \A x \in Item : ext[x] = Less(ext, e)[x] + OneIf(x = e)
  BY MoreLess DEF Whole
<1>2. \A x \in Item : /\ c.retain[x] = HashesOf(c.hash, x) + OneIf(x \in L \cup K) + ext[x]
                      /\ HashesOf(c.hash, x) \in Nat /\ ext[x] \in Nat
                      /\ Less(ext, e)[x] \in Nat /\ c.retain[x] \in Nat
  BY <1>1, HashesTyped DEF Whole, IsCache, Counted
<1>3. c.retain[e] >= 1
  BY <1>2 DEF OneIf
<1>4. r \in [Item -> Nat] /\ \A x \in Item : c.retain[x] = r[x] + OneIf(x = e)
  BY <1>3 DEF Whole, IsCache, OneIf
<1>5. \A x \in Item : r[x] = HashesOf(c.hash, x) + OneIf(x \in L \cup K) + Less(ext, e)[x]
  <2> SUFFICES ASSUME NEW x \in Item
               PROVE  r[x] = HashesOf(c.hash, x) + OneIf(x \in L \cup K) + Less(ext, e)[x]
    OBVIOUS
  <2>1. r[x] \in Nat
    BY <1>4
  <2> QED BY <2>1, <1>1, <1>2, <1>4 DEF OneIf
<1>6. CASE c.retain[e] # 1
  <2>1. d = [hash |-> c.hash, head |-> c.head, tail |-> c.tail, fLink |-> c.fLink,
             fBackLink |-> c.fBackLink, attr |-> c.attr, retain |-> r]
    BY <1>6 DEF Whole, IsCache, Release
  <2> HIDE DEF d, r
  <2>2. /\ d.hash = c.hash /\ d.head = c.head /\ d.tail = c.tail /\ d.fLink = c.fLink
        /\ d.fBackLink = c.fBackLink /\ d.attr = c.attr /\ d.retain = r
    BY <2>1
  <2>3. IsCache(d)
    BY <2>1, <2>2, <1>4 DEF Whole, IsCache
  <2>4. Counted(d, Less(ext, e), L \cup K)
    BY <2>2, <1>5 DEF Counted
  <2>5. Linked(d.head, d.tail, d.fLink, d.fBackLink, rest, L, K)
    BY <2>2 DEF Whole
  <2> QED BY <2>2, <2>3, <2>4, <2>5, <1>1 DEF Whole, d
<1>7. CASE c.retain[e] = 1
  <2> DEFINE fl == [c.fLink EXCEPT ![e] = NULL]
             bl == [c.fBackLink EXCEPT ![e] = NULL]
             a == [c.attr EXCEPT ![e] = NoAttr]
  <2>0. r = [c.retain EXCEPT ![e] = 0]
    BY <1>7
  <2>1. d = [hash |-> c.hash, head |-> c.head, tail |-> c.tail, fLink |-> fl,
             fBackLink |-> bl, attr |-> a, retain |-> r]
    BY <2>0, <1>7 DEF Whole, IsCache, Release
  <2>2. HashesOf(c.hash, e) = 0 /\ e \notin L \cup K
    BY <1>2, <1>7 DEF OneIf
  <2>3. Linked(c.head, c.tail, fl, bl, rest, L, K)
    BY <2>2, ClearKeepsLinked DEF Whole, IsCache
  <2>4. fl \in [Item -> MaybeItem] /\ bl \in [Item -> MaybeItem]
    BY DEF Whole, IsCache, MaybeItem
  <2> HIDE DEF d, r, fl, bl, a
  <2>5. /\ d.hash = c.hash /\ d.head = c.head /\ d.tail = c.tail /\ d.fLink = fl
        /\ d.fBackLink = bl /\ d.attr = a /\ d.retain = r
    BY <2>1
  <2>6. IsCache(d)
    BY <2>1, <2>4, <2>5, <1>4 DEF Whole, IsCache
  <2>7. Counted(d, Less(ext, e), L \cup K)
    BY <2>5, <1>5 DEF Counted
  <2>8. Linked(d.head, d.tail, d.fLink, d.fBackLink, rest, L, K)
    BY <2>3, <2>5
  <2>9. \A h \in Hash : e \notin c.hash[h]
    BY <2>2, HashesTyped
  <2> QED BY <2>5, <2>6, <2>7, <2>8, <2>9, <1>1 DEF Whole, d, a, Freed
<1> QED BY <1>6, <1>7

\* Whatever the hashes become.
LEMMA HashesKeepWhole ==
  ASSUME NEW c, NEW rest, NEW ext, NEW L, NEW K, Whole(c, rest, ext, L, K),
         NEW hashes \in [Hash -> SUBSET Item]
  PROVE  /\ Whole(WithHashes(c, hashes), rest, ext, L, K)
         /\ WithHashes(c, hashes).hash = hashes /\ WithHashes(c, hashes).attr = c.attr
         /\ WithHashes(c, hashes) = [c EXCEPT !.hash = hashes,
                                              !.retain = WithHashes(c, hashes).retain]
<1> DEFINE d == WithHashes(c, hashes)
           r == [e \in Item |-> c.retain[e] + HashesOf(hashes, e) - HashesOf(c.hash, e)]
<1>1. d = [hash |-> hashes, head |-> c.head, tail |-> c.tail, fLink |-> c.fLink,
           fBackLink |-> c.fBackLink, attr |-> c.attr, retain |-> r]
  <2>1. d = [c EXCEPT !.hash = hashes, !.retain = r]
    BY DEF WithHashes
  <2> HIDE DEF d, r
  <2> QED BY <2>1 DEF Whole, IsCache
<1>2. ASSUME NEW e \in Item
      PROVE  r[e] = HashesOf(hashes, e) + OneIf(e \in L \cup K) + ext[e] /\ r[e] \in Nat
  <2>1. /\ c.retain[e] = HashesOf(c.hash, e) + OneIf(e \in L \cup K) + ext[e]
        /\ ext[e] \in Nat
    BY DEF Whole, Counted
  <2>2. HashesOf(c.hash, e) \in Nat /\ HashesOf(hashes, e) \in Nat
    BY HashesTyped
  <2> QED BY <2>1, <2>2 DEF OneIf
<1>3. r \in [Item -> Nat]
  BY <1>2
<1> HIDE DEF d, r
<1>4. /\ d.hash = hashes /\ d.head = c.head /\ d.tail = c.tail /\ d.fLink = c.fLink
      /\ d.fBackLink = c.fBackLink /\ d.attr = c.attr /\ d.retain = r
  BY <1>1
<1>5. IsCache(d)
  BY <1>1, <1>3, <1>4 DEF Whole, IsCache
<1>6. Counted(d, ext, L \cup K)
  BY <1>2, <1>4 DEF Counted
<1>7. Linked(d.head, d.tail, d.fLink, d.fBackLink, rest, L, K)
  BY <1>4 DEF Whole
<1>8. d = [c EXCEPT !.hash = hashes, !.retain = d.retain]
  BY <1>1, <1>4 DEF Whole, IsCache
<1> QED BY <1>4, <1>5, <1>6, <1>7, <1>8 DEF Whole, d

LEMMA AddToListKeepsWhole ==
  ASSUME NEW c, NEW rest, NEW ext, NEW L, NEW K, Whole(c, rest, ext, L, K),
         NEW e \in Item, e \notin L \cup K
  PROVE  /\ Whole(AddToHeadOfList(c, e), rest, ext, L \cup {e}, K)
         /\ AddToHeadOfList(c, e).hash = c.hash /\ AddToHeadOfList(c, e).attr = c.attr
<1> DEFINE d == AddToHeadOfList(c, e)
           r == [c.retain EXCEPT ![e] = @ + 1]
           tl == IF c.head = NULL THEN e ELSE c.tail
           fl == [c.fLink EXCEPT ![e] = c.head]
           bl == [x \in Item |-> CASE x = e -> NULL
                                   [] x # e /\ x = c.head -> e
                                   [] OTHER -> c.fBackLink[x]]
<1>1. d = [hash |-> c.hash, head |-> e, tail |-> tl, fLink |-> fl,
           fBackLink |-> bl, attr |-> c.attr, retain |-> r]
  <2>1. d = [c EXCEPT !.retain = r, !.head = e, !.tail = tl, !.fLink = fl, !.fBackLink = bl]
    BY DEF AddToHeadOfList
  <2> HIDE DEF d, r, tl, fl, bl
  <2> QED BY <2>1 DEF Whole, IsCache
<1>2. r \in [Item -> Nat] /\ \A x \in Item : r[x] = c.retain[x] + OneIf(x = e)
  BY DEF Whole, IsCache, OneIf
<1>3. c.head \in MaybeItem
  <2>1. Linked(c.head, c.tail, c.fLink, c.fBackLink, rest, L, K)
    BY DEF Whole
  <2> QED BY <2>1, LinkedFacts DEF MaybeItem
<1>4. fl \in [Item -> MaybeItem]
  BY <1>3 DEF Whole, IsCache
<1>5. bl \in [Item -> MaybeItem]
  <2> SUFFICES ASSUME NEW x \in Item PROVE bl[x] \in MaybeItem
    OBVIOUS
  <2>1. CASE x = e
    BY <2>1 DEF MaybeItem
  <2>2. CASE x # e /\ x = c.head
    BY <2>2 DEF MaybeItem
  <2>3. CASE x # e /\ x # c.head
    BY <2>3 DEF Whole, IsCache
  <2> QED BY <2>1, <2>2, <2>3
<1>6. Linked(e, tl, fl, bl, rest, L \cup {e}, K)
  <2>1. c.fLink \in [Item -> MaybeItem] /\ c.fBackLink \in [Item -> MaybeItem]
        /\ Linked(c.head, c.tail, c.fLink, c.fBackLink, rest, L, K)
    BY DEF Whole, IsCache
  <2>2. PICK f, b, t : f = fl /\ b = bl /\ t = tl
    OBVIOUS
  <2>3. Linked(e, t, f, b, rest, L \cup {e}, K)
    BY <2>1, <2>2, AddKeepsLinked
  <2> QED BY <2>2, <2>3
<1> HIDE DEF d, r, tl, fl, bl
<1>7. /\ d.hash = c.hash /\ d.head = e /\ d.tail = tl /\ d.fLink = fl
      /\ d.fBackLink = bl /\ d.attr = c.attr /\ d.retain = r
  BY <1>1
<1>8. IsCache(d)
  BY <1>1, <1>2, <1>4, <1>5, <1>7 DEF Whole, IsCache
<1>9. Counted(d, ext, (L \cup {e}) \cup K)
  <2> SUFFICES ASSUME NEW x \in Item
               PROVE  d.retain[x] = HashesOf(d.hash, x) + OneIf(x \in (L \cup {e}) \cup K)
                                    + ext[x]
    BY DEF Counted
  <2>1. c.retain[x] = HashesOf(c.hash, x) + OneIf(x \in L \cup K) + ext[x]
    BY DEF Whole, Counted
  <2>2. HashesOf(c.hash, x) \in Nat /\ ext[x] \in Nat
    BY HashesTyped DEF Whole
  <2> QED BY <2>1, <2>2, <1>2, <1>7 DEF OneIf
<1>10. Linked(d.head, d.tail, d.fLink, d.fBackLink, rest, L \cup {e}, K)
  BY <1>6, <1>7
<1> QED BY <1>7, <1>8, <1>9, <1>10 DEF Whole, d

LEMMA RemoveFromListKeepsWhole ==
  ASSUME NEW c, NEW rest, NEW ext, NEW L, NEW K, Whole(c, rest, ext, L, K), NEW e \in L
  PROVE  /\ Whole(RemoveFromList(c, e), rest, ext, L \ {e}, K)
         /\ RemoveFromList(c, e).hash = c.hash
         /\ \/ RemoveFromList(c, e).attr = c.attr
            \/ /\ RemoveFromList(c, e).attr = Freed(c.attr, e)
               /\ \A h \in Hash : e \notin c.hash[h]
<1> DEFINE next == c.fLink[e]
           prev == c.fBackLink[e]
           end == IF next = NULL THEN prev ELSE c.tail
           start == IF prev = NULL THEN next ELSE c.head
           fl == [x \in Item |-> IF x = prev THEN next ELSE c.fLink[x]]
           bl == [x \in Item |-> IF x = next THEN prev ELSE c.fBackLink[x]]
           u == Unlinked(c, e, end)
<1>1. u = [hash |-> c.hash, head |-> start, tail |-> end, fLink |-> fl,
           fBackLink |-> bl, attr |-> c.attr, retain |-> c.retain]
  <2>1. u = [c EXCEPT !.tail = end, !.head = start, !.fBackLink = bl, !.fLink = fl]
    BY DEF Unlinked
  <2> HIDE DEF u, start, end, fl, bl
  <2> QED BY <2>1 DEF Whole, IsCache
<1>2. e \in Item /\ L \cap K = {}
  BY WholeFacts
<1>3. next \in MaybeItem /\ prev \in MaybeItem
  BY <1>2 DEF Whole, IsCache
<1>4. fl \in [Item -> MaybeItem] /\ bl \in [Item -> MaybeItem]
  BY <1>3 DEF Whole, IsCache
<1>5. Linked(start, end, fl, bl, rest, L \ {e}, K)
  <2>1. c.fLink \in [Item -> MaybeItem] /\ c.fBackLink \in [Item -> MaybeItem]
        /\ Linked(c.head, c.tail, c.fLink, c.fBackLink, rest, L, K)
    BY DEF Whole, IsCache
  <2>2. /\ fl = Past(c.fLink, c.fBackLink, e) /\ bl = Past(c.fBackLink, c.fLink, e)
        /\ start = IfNull(c.fBackLink[e], c.fLink[e], c.head)
        /\ end = IfNull(c.fLink[e], c.fBackLink[e], c.tail)
    BY DEF Past, IfNull
  <2> HIDE DEF fl, bl, start, end
  <2>3. PICK f, b, hd, tl, f1, b1, h1, t1 :
          /\ f = c.fLink /\ b = c.fBackLink /\ hd = c.head /\ tl = c.tail
          /\ f1 = fl /\ b1 = bl /\ h1 = start /\ t1 = end
    OBVIOUS
  <2>4. f \in [Item -> MaybeItem] /\ b \in [Item -> MaybeItem]
        /\ Linked(hd, tl, f, b, rest, L, K)
    BY <2>1, <2>3
  <2>5. f1 = Past(f, b, e) /\ b1 = Past(b, f, e)
        /\ h1 = IfNull(b[e], f[e], hd) /\ t1 = IfNull(f[e], b[e], tl)
    BY <2>2, <2>3
  <2>6. Linked(h1, t1, f1, b1, rest, L \ {e}, K)
    BY <2>4, <2>5, RemoveKeepsLinked
  <2> QED BY <2>3, <2>6
<1>6. RemoveFromList(c, e) = Release(u, e)
  BY DEF RemoveFromList
<1> HIDE DEF u, start, end, fl, bl
<1>7. /\ u.hash = c.hash /\ u.head = start /\ u.tail = end /\ u.fLink = fl
      /\ u.fBackLink = bl /\ u.attr = c.attr /\ u.retain = c.retain
  BY <1>1
<1>8. IsCache(u)
  BY <1>1, <1>4, <1>7 DEF Whole, IsCache
<1>9. ext \in [Item -> Nat] /\ More(ext, e) \in [Item -> Nat] /\ More(ext, e)[e] >= 1
      /\ Less(More(ext, e), e) = ext
      /\ \A x \in Item : More(ext, e)[x] = ext[x] + OneIf(x = e)
  BY <1>2, MoreLess DEF Whole
<1>10. Counted(u, More(ext, e), (L \ {e}) \cup K)
  <2> SUFFICES ASSUME NEW x \in Item
               PROVE  u.retain[x] = HashesOf(u.hash, x) + OneIf(x \in (L \ {e}) \cup K)
                                    + More(ext, e)[x]
    BY DEF Counted
  <2>1. c.retain[x] = HashesOf(c.hash, x) + OneIf(x \in L \cup K) + ext[x]
    BY DEF Whole, Counted
  <2>2. HashesOf(c.hash, x) \in Nat /\ ext[x] \in Nat
    BY HashesTyped, <1>9
  <2>3. OneIf(x \in L \cup K) = OneIf(x \in (L \ {e}) \cup K) + OneIf(x = e)
    BY <1>2 DEF OneIf
  <2>4. OneIf(x \in (L \ {e}) \cup K) \in Nat /\ OneIf(x = e) \in Nat
    BY DEF OneIf
  <2> QED BY <2>1, <2>2, <2>3, <2>4, <1>7, <1>9
<1>11. Linked(u.head, u.tail, u.fLink, u.fBackLink, rest, L \ {e}, K)
  BY <1>5, <1>7
<1>12. Whole(u, rest, More(ext, e), L \ {e}, K)
  BY <1>8, <1>9, <1>10, <1>11 DEF Whole
<1>13. PICK m : m = More(ext, e) /\ m[e] >= 1 /\ Whole(u, rest, m, L \ {e}, K)
  BY <1>9, <1>12
<1>14. /\ Whole(Release(u, e), rest, Less(m, e), L \ {e}, K)
       /\ Release(u, e).hash = u.hash
       /\ \/ Release(u, e).attr = u.attr
          \/ /\ Release(u, e).attr = Freed(u.attr, e)
             /\ \A h \in Hash : e \notin u.hash[h]
  BY <1>2, <1>13, ReleaseKeepsWhole
<1> QED BY <1>6, <1>7, <1>9, <1>13, <1>14

Enters(c, e, h) ==
  LET a == c.attr[e]
  IN /\ BelongsIn(h, a) /\ e \notin c.hash[h]
     /\ \A x \in {x \in c.hash[h] : c.attr[x][h.field] = a[h.field]} :
          Replaces(h, a, c.attr[x])
Added(c, e) ==
  [h \in Hash |-> IF Enters(c, e, h)
                    THEN (c.hash[h] \ {x \in c.hash[h] :
                                         c.attr[x][h.field] = c.attr[e][h.field]}) \cup {e}
                    ELSE c.hash[h]]
Removed(c, e) ==
  [h \in Hash |-> IF h # KerberosHash /\ BelongsIn(h, c.attr[e])
                    THEN c.hash[h] \ {e} ELSE c.hash[h]]

LEMMA AddToHashesKeepsWhole ==
  ASSUME NEW c, NEW rest, NEW ext, NEW L, NEW K, Whole(c, rest, ext, L, K), NEW e \in Item
  PROVE  /\ Whole(AddToHashes(c, e), rest, ext, L, K)
         /\ AddToHashes(c, e).hash = Added(c, e) /\ AddToHashes(c, e).attr = c.attr
<1> DEFINE hashes == Added(c, e)
<1>1. c.hash \in [Hash -> SUBSET Item]
  BY DEF Whole, IsCache
<1>2. hashes \in [Hash -> SUBSET Item]
  BY <1>1 DEF Added
<1>3. AddToHashes(c, e) = WithHashes(c, hashes)
  BY DEF AddToHashes, Added, Enters
<1> HIDE DEF hashes
<1>4. /\ Whole(WithHashes(c, hashes), rest, ext, L, K)
      /\ WithHashes(c, hashes).hash = hashes /\ WithHashes(c, hashes).attr = c.attr
  BY <1>2, HashesKeepWhole
<1> QED BY <1>3, <1>4 DEF hashes

LEMMA RemoveFromHashesKeepsWhole ==
  ASSUME NEW c, NEW rest, NEW ext, NEW L, NEW K, Whole(c, rest, ext, L, K), NEW e \in Item
  PROVE  /\ Whole(RemoveFromHashes(c, e), rest, ext, L, K)
         /\ RemoveFromHashes(c, e).hash = Removed(c, e)
         /\ RemoveFromHashes(c, e).attr = c.attr
<1> DEFINE hashes == Removed(c, e)
<1>1. c.hash \in [Hash -> SUBSET Item]
  BY DEF Whole, IsCache
<1>2. hashes \in [Hash -> SUBSET Item]
  BY <1>1 DEF Removed
<1>3. RemoveFromHashes(c, e) = WithHashes(c, hashes)
  BY DEF RemoveFromHashes, Removed
<1> HIDE DEF hashes
<1>4. /\ Whole(WithHashes(c, hashes), rest, ext, L, K)
      /\ WithHashes(c, hashes).hash = hashes /\ WithHashes(c, hashes).attr = c.attr
  BY <1>2, HashesKeepWhole
<1> QED BY <1>3, <1>4 DEF hashes

\* What is in the hashes: nothing that is not in the list (Sound, below).
HashedIn(c) == UNION {c.hash[h] : h \in Hash}
LEMMA InHashes ==
  ASSUME NEW c, NEW x
  PROVE  x \in HashedIn(c) <=> \E h \in Hash : x \in c.hash[h]
  BY DEF HashedIn
LEMMA AddedIn ==
  ASSUME NEW c, NEW e, NEW d, d.hash = Added(c, e)
  PROVE  HashedIn(d) \subseteq HashedIn(c) \cup {e}
<1> SUFFICES ASSUME NEW x \in HashedIn(d), x # e PROVE x \in HashedIn(c)
  OBVIOUS
<1>1. PICK h \in Hash : x \in d.hash[h]
  BY InHashes
<1>2. x \in c.hash[h]
  BY <1>1 DEF Added
<1> QED BY <1>2, InHashes
LEMMA RemovedIn ==
  ASSUME NEW c, NEW e, NEW d, d.hash = Removed(c, e), \A h \in Hash : e \notin d.hash[h]
  PROVE  HashedIn(d) \subseteq HashedIn(c) \ {e}
<1> SUFFICES ASSUME NEW x \in HashedIn(d) PROVE x \in HashedIn(c) /\ x # e
  OBVIOUS
<1>1. PICK h \in Hash : x \in d.hash[h]
  BY InHashes
<1>2. x \in c.hash[h] /\ x # e
  BY <1>1 DEF Removed
<1> QED BY <1>2, InHashes

\* An entry that is in neither chain goes into the list, if into any hash.
LEMMA AddEntryKeepsWhole ==
  ASSUME NEW c, NEW rest, NEW ext, NEW L, NEW K, Whole(c, rest, ext, L, K),
         NEW e \in Item, e \notin L \cup K
  PROVE  \E M : /\ Whole(AddEntry(c, e), rest, ext, M, K)
                /\ M = L \/ M = L \cup {e}
                /\ AddEntry(c, e).hash = Added(c, e) /\ AddEntry(c, e).attr = c.attr
                /\ HashedIn(c) \subseteq L => HashedIn(AddEntry(c, e)) \subseteq M
<1> DEFINE d == AddToHashes(c, e)
<1>1. Whole(d, rest, ext, L, K) /\ d.hash = Added(c, e) /\ d.attr = c.attr
  BY AddToHashesKeepsWhole
<1>2. AddEntry(c, e) = IF d.retain[e] # c.retain[e] THEN AddToHeadOfList(d, e) ELSE d
  BY DEF AddEntry
<1> HIDE DEF d
<1>3. CASE d.retain[e] # c.retain[e]
  <2>1. /\ Whole(AddToHeadOfList(d, e), rest, ext, L \cup {e}, K)
        /\ AddToHeadOfList(d, e).hash = d.hash /\ AddToHeadOfList(d, e).attr = d.attr
    BY <1>1, AddToListKeepsWhole
  <2>2. HashedIn(d) \subseteq HashedIn(c) \cup {e}
    BY <1>1, AddedIn
  <2>3. HashedIn(AddToHeadOfList(d, e)) = HashedIn(d)
    BY <2>1 DEF HashedIn
  <2> HIDE DEF HashedIn
  <2> QED BY <1>1, <1>2, <1>3, <2>1, <2>2, <2>3
<1>4. CASE d.retain[e] = c.retain[e]
  <2>1. ASSUME HashedIn(c) \subseteq L PROVE HashedIn(d) \subseteq L
    <3>1. \A h \in Hash : e \notin c.hash[h]
      BY <2>1, InHashes
    <3>2. HashesOf(c.hash, e) = 0
      BY <3>1, HashesTyped
    <3>3. /\ c.retain[e] = HashesOf(c.hash, e) + OneIf(e \in L \cup K) + ext[e]
          /\ d.retain[e] = HashesOf(d.hash, e) + OneIf(e \in L \cup K) + ext[e]
      BY <1>1 DEF Whole, Counted
    <3>4. HashesOf(d.hash, e) \in Nat /\ ext[e] \in Nat /\ OneIf(e \in L \cup K) \in Nat
      BY HashesTyped DEF Whole, OneIf
    <3>5. HashesOf(d.hash, e) = 0
      BY <1>4, <3>2, <3>3, <3>4
    <3>6. e \notin HashedIn(d)
      BY <3>5, HashesTyped, InHashes
    <3>7. HashedIn(d) \subseteq HashedIn(c) \cup {e}
      BY <1>1, AddedIn
    <3> QED BY <2>1, <3>6, <3>7
  <2> QED BY <1>1, <1>2, <1>4, <2>1
<1> QED BY <1>3, <1>4

LEMMA RemoveEntryKeepsWhole ==
  ASSUME NEW c, NEW rest, NEW ext, NEW L, NEW K, Whole(c, rest, ext, L, K), NEW e \in L
  PROVE  /\ Whole(RemoveEntry(c, e), rest, ext, L \ {e}, K)
         /\ RemoveEntry(c, e).hash = Removed(c, e)
         /\ \/ RemoveEntry(c, e).attr = c.attr
            \/ /\ RemoveEntry(c, e).attr = Freed(c.attr, e)
               /\ \A h \in Hash : e \notin Removed(c, e)[h]
<1> DEFINE d == RemoveFromHashes(c, e)
<1>1. e \in Item
  BY WholeFacts
<1>2. Whole(d, rest, ext, L, K) /\ d.hash = Removed(c, e) /\ d.attr = c.attr
  BY <1>1, RemoveFromHashesKeepsWhole
<1>3. RemoveEntry(c, e) = RemoveFromList(d, e)
  BY DEF RemoveEntry
<1> HIDE DEF d
<1>4. /\ Whole(RemoveFromList(d, e), rest, ext, L \ {e}, K)
      /\ RemoveFromList(d, e).hash = d.hash
      /\ \/ RemoveFromList(d, e).attr = d.attr
         \/ /\ RemoveFromList(d, e).attr = Freed(d.attr, e)
            /\ \A h \in Hash : e \notin d.hash[h]
  BY <1>2, RemoveFromListKeepsWhole
<1> QED BY <1>2, <1>3, <1>4

-----------------------------------------------------------------------------
(***************************************************************************)
(* Hashes that keep one entry for a key, and each under its current key.   *)
(* No entry has a Kerberos principal: nothing ever takes one from the hash *)
(* of those, so what has left the list would stay there.                   *)
(***************************************************************************)
IsAttr(a) ==
  /\ a = [types |-> a.types, guid |-> a.guid, sid |-> a.sid, id |-> a.id,
          name |-> a.name, kerberos |-> a.kerberos, node |-> a.node,
          negative |-> a.negative, foundBy |-> a.foundBy, scheduled |-> a.scheduled,
          available |-> a.available]
  /\ a.kerberos = None
IsAttrs(attr) == attr = [e \in Item |-> attr[e]] /\ \A e \in Item : IsAttr(attr[e])
Keyed(c) ==
  /\ c.hash \in [Hash -> SUBSET Item]
  /\ IsAttrs(c.attr)
  /\ \A h \in Hash : \A x, y \in c.hash[h] :
       /\ BelongsIn(h, c.attr[x])
       /\ c.attr[x][h.field] = c.attr[y][h.field] => x = y

\* ... and hash only what is in the list L.
Sound(c, L) == Keyed(c) /\ HashedIn(c) \subseteq L

\* A record with one field changed has the other keys.
KeepsKeys(b, d, changed) ==
  IsAttr(d) /\ d.types = b.types /\ \A f \in Field \ {changed} : d[f] = b[f]
LEMMA OneFieldKeepsKeys ==
  ASSUME NEW b, IsAttr(b), NEW v
  PROVE  /\ KeepsKeys(b, [b EXCEPT !.guid = v], "guid")
         /\ KeepsKeys(b, [b EXCEPT !.id = v], "id")
         /\ KeepsKeys(b, [b EXCEPT !.foundBy = v], "foundBy")
         /\ KeepsKeys(b, [b EXCEPT !.scheduled = v], "scheduled")
         /\ KeepsKeys(b, [b EXCEPT !.available = v], "available")
         /\ KeepsKeys(b, [b EXCEPT !.negative = v], "negative")
<1>1. KeepsKeys(b, [b EXCEPT !.guid = v], "guid")
  BY DEF IsAttr, Field, KeepsKeys
<1>2. KeepsKeys(b, [b EXCEPT !.id = v], "id")
  BY DEF IsAttr, Field, KeepsKeys
<1>3. KeepsKeys(b, [b EXCEPT !.foundBy = v], "foundBy")
  BY DEF IsAttr, Field, KeepsKeys
<1>4. KeepsKeys(b, [b EXCEPT !.scheduled = v], "scheduled")
  BY DEF IsAttr, Field, KeepsKeys
<1>5. KeepsKeys(b, [b EXCEPT !.available = v], "available")
  BY DEF IsAttr, Field, KeepsKeys
<1>6. KeepsKeys(b, [b EXCEPT !.negative = v], "negative")
  BY DEF IsAttr, Field, KeepsKeys
<1> QED BY <1>1, <1>2, <1>3, <1>4, <1>5, <1>6

LEMMA NoAttrIsAttr == IsAttr(NoAttr)
  BY DEF IsAttr, NoAttr

LEMMA HashFields == \A h \in Hash : h.field \in Field
<1> SUFFICES ASSUME NEW h \in Hash PROVE h.field \in Field
  OBVIOUS
<1>1. \A f, types : Over(f, types).field = f
  BY DEF Over
<1>2. CASE h \in {Over("guid", Type), Over("sid", Type), KerberosHash,
                  Over("id", {"user", "computer"}), Over("id", {"group"})}
  BY <1>1, <1>2 DEF KerberosHash, Field
<1>3. CASE h \in {Over("name", {t}) : t \in Type}
  <2>1. PICK t \in Type : h = Over("name", {t})
    BY <1>3
  <2> QED BY <1>1, <2>1 DEF Field
<1> QED BY <1>2, <1>3 DEF Hash

LEMMA AttrKeepsKeyed ==
  ASSUME NEW c, Keyed(c), NEW d, d.hash = c.hash,
         IsAttrs(d.attr),
         \A h \in Hash : \A x \in c.hash[h] :
           d.attr[x][h.field] = c.attr[x][h.field] /\ d.attr[x].types = c.attr[x].types
  PROVE  Keyed(d)
<1>1. ASSUME NEW h \in Hash, NEW x \in c.hash[h], NEW y \in c.hash[h]
      PROVE  /\ BelongsIn(h, d.attr[x])
             /\ d.attr[x][h.field] = d.attr[y][h.field] => x = y
  <2>1. /\ d.attr[x][h.field] = c.attr[x][h.field] /\ d.attr[x].types = c.attr[x].types
        /\ d.attr[y][h.field] = c.attr[y][h.field]
    OBVIOUS
  <2>2. /\ BelongsIn(h, c.attr[x])
        /\ c.attr[x][h.field] = c.attr[y][h.field] => x = y
    BY DEF Keyed
  <2> QED BY <2>1, <2>2 DEF BelongsIn
<1>2. c.hash \in [Hash -> SUBSET Item]
  BY DEF Keyed
<1> QED BY <1>1, <1>2 DEF Keyed

\* The attributes of an entry that is in no hash.
LEMMA UnhashedKeepsKeyed ==
  ASSUME NEW c, Keyed(c), NEW e \in Item, \A h \in Hash : e \notin c.hash[h],
         NEW a, IsAttr(a), NEW d, d.hash = c.hash, d.attr = [c.attr EXCEPT ![e] = a]
  PROVE  Keyed(d)
<1>1. c.attr = [x \in Item |-> c.attr[x]] /\ \A x \in Item : IsAttr(c.attr[x])
  BY DEF Keyed, IsAttrs
<1>2. d.attr = [x \in Item |-> d.attr[x]]
  BY <1>1
<1>3. \A x \in Item : d.attr[x] = IF x = e THEN a ELSE c.attr[x]
  BY <1>1
<1>4. IsAttrs(d.attr)
  BY <1>1, <1>2, <1>3 DEF IsAttrs
<1>5. \A h \in Hash : \A x \in c.hash[h] :
         d.attr[x][h.field] = c.attr[x][h.field] /\ d.attr[x].types = c.attr[x].types
  <2> SUFFICES ASSUME NEW h \in Hash, NEW x \in c.hash[h] PROVE d.attr[x] = c.attr[x]
    OBVIOUS
  <2>1. x \in Item /\ x # e
    BY DEF Keyed
  <2> QED BY <2>1, <1>3
<1> QED BY <1>4, <1>5, AttrKeepsKeyed

LEMMA AddedIsKeyed ==
  ASSUME NEW c, Keyed(c), NEW e \in Item, NEW d, d.hash = Added(c, e), d.attr = c.attr
  PROVE  Keyed(d)
<1>1. /\ c.hash \in [Hash -> SUBSET Item] /\ IsAttrs(c.attr)
      /\ \A x \in Item : IsAttr(c.attr[x])
  BY DEF Keyed, IsAttrs
<1>2. d.hash \in [Hash -> SUBSET Item]
  BY <1>1 DEF Added
<1>3. ASSUME NEW h \in Hash, NEW x \in d.hash[h], NEW y \in d.hash[h]
      PROVE  /\ BelongsIn(h, c.attr[x])
             /\ c.attr[x][h.field] = c.attr[y][h.field] => x = y
  <2> DEFINE Same == {z \in c.hash[h] : c.attr[z][h.field] = c.attr[e][h.field]}
  <2>1. \A z, v \in c.hash[h] : /\ BelongsIn(h, c.attr[z])
                                /\ c.attr[z][h.field] = c.attr[v][h.field] => z = v
    BY DEF Keyed
  <2>2. d.hash[h] = IF Enters(c, e, h) THEN (c.hash[h] \ Same) \cup {e} ELSE c.hash[h]
    BY DEF Added
  <2>3. CASE ~Enters(c, e, h)
    BY <2>1, <2>2, <2>3
  <2>4. CASE Enters(c, e, h)
    <3>1. BelongsIn(h, c.attr[e])
      BY <2>4 DEF Enters
    <3>2. \A z \in c.hash[h] \ Same : c.attr[z][h.field] # c.attr[e][h.field]
      OBVIOUS
    <3> HIDE DEF Same
    <3>3. x = e \/ x \in c.hash[h] \ Same
      BY <2>2, <2>4
    <3>4. y = e \/ y \in c.hash[h] \ Same
      BY <2>2, <2>4
    <3> QED BY <2>1, <3>1, <3>2, <3>3, <3>4
  <2> QED BY <2>3, <2>4
<1> QED BY <1>1, <1>2, <1>3 DEF Keyed

LEMMA RemovedIsKeyed ==
  ASSUME NEW c, Keyed(c), NEW e \in Item, NEW d, d.hash = Removed(c, e),
         \/ d.attr = c.attr
         \/ /\ d.attr = Freed(c.attr, e)
            /\ \A h \in Hash : e \notin Removed(c, e)[h]
  PROVE  Keyed(d) /\ \A h \in Hash : e \notin d.hash[h]
<1>1. /\ c.hash \in [Hash -> SUBSET Item] /\ IsAttrs(c.attr)
      /\ \A x \in Item : IsAttr(c.attr[x])
      /\ \A h \in Hash : \A z, v \in c.hash[h] :
           /\ BelongsIn(h, c.attr[z])
           /\ c.attr[z][h.field] = c.attr[v][h.field] => z = v
  BY DEF Keyed, IsAttrs
<1>2. d.hash \in [Hash -> SUBSET Item] /\ \A h \in Hash : d.hash[h] \subseteq c.hash[h]
  BY <1>1 DEF Removed
<1>3. \A h \in Hash : e \notin d.hash[h]
  <2> SUFFICES ASSUME NEW h \in Hash, e \in c.hash[h] PROVE e \notin d.hash[h]
    BY <1>2
  <2>1. BelongsIn(h, c.attr[e]) /\ IsAttr(c.attr[e])
    BY <1>1
  <2>2. h # KerberosHash
    BY <2>1 DEF BelongsIn, IsAttr, KerberosHash, Over
  <2> QED BY <2>1, <2>2 DEF Removed
<1>4. CASE d.attr = c.attr
  BY <1>1, <1>2, <1>3, <1>4 DEF Keyed
<1>5. CASE d.attr = Freed(c.attr, e)
  <2> DEFINE b == [hash |-> d.hash, attr |-> c.attr]
  <2>1. b.hash = d.hash /\ b.attr = c.attr
    OBVIOUS
  <2> HIDE DEF b
  <2>2. Keyed(b)
    BY <2>1, <1>1, <1>2 DEF Keyed
  <2> QED BY <2>1, <2>2, <1>3, <1>5, NoAttrIsAttr, UnhashedKeepsKeyed DEF Freed
<1> QED BY <1>4, <1>5

\* Between two caches, the second with the list M: an entry found by a key stays
\* where that key leads, or makes room for another found by it.
Stays(c, d, M, h, x) ==
  /\ x \in M /\ x \notin d.hash[h]
  /\ ~d.attr[x].negative
  /\ d.attr[x][h.field] = c.attr[x][h.field]
  /\ h.field \in c.attr[x].foundBy
  => \E y \in d.hash[h] : /\ h.field \in d.attr[y].foundBy
                          /\ d.attr[y][h.field] = c.attr[x][h.field]
Loyal(c, d, M) == \A h \in Hash : \A x \in c.hash[h] : Stays(c, d, M, h, x)

LEMMA SameHashesAreLoyal ==
  ASSUME NEW c, NEW d, NEW M, d.hash = c.hash
  PROVE  Loyal(c, d, M)
  BY DEF Loyal, Stays

\* An entry that enters a hash is found by its key there, or what it replaces is
\* negative.
LEMMA AddedIsLoyal ==
  ASSUME NEW c, NEW e, NEW d, d.hash = Added(c, e), d.attr = c.attr, NEW M
  PROVE  Loyal(c, d, M)
<1> SUFFICES ASSUME NEW h \in Hash, NEW x \in c.hash[h], x \notin d.hash[h],
                    ~c.attr[x].negative
             PROVE  \E y \in d.hash[h] : /\ h.field \in c.attr[y].foundBy
                                         /\ c.attr[y][h.field] = c.attr[x][h.field]
  BY DEF Loyal, Stays
<1> DEFINE Same == {z \in c.hash[h] : c.attr[z][h.field] = c.attr[e][h.field]}
<1>1. d.hash[h] = IF Enters(c, e, h) THEN (c.hash[h] \ Same) \cup {e} ELSE c.hash[h]
  BY DEF Added
<1>2. Enters(c, e, h) /\ x \in Same /\ e \in d.hash[h]
  BY <1>1
<1>3. Replaces(h, c.attr[e], c.attr[x])
  BY <1>2 DEF Enters
<1>4. h.field \in c.attr[e].foundBy
  BY <1>3 DEF Replaces
<1> QED BY <1>2, <1>4

\* From an earlier cache, where the hashes had one entry more.
LEMMA LoyalBut ==
  ASSUME NEW c, NEW b, NEW d, NEW M, NEW e, Loyal(b, d, M),
         \A h \in Hash : \A x \in c.hash[h] : x # e =>
            /\ x \in b.hash[h]
            /\ b.attr[x][h.field] = c.attr[x][h.field]
            /\ b.attr[x].foundBy = c.attr[x].foundBy,
         \A h \in Hash : e \in c.hash[h] => Stays(c, d, M, h, e)
  PROVE  Loyal(c, d, M)
<1> SUFFICES ASSUME NEW h \in Hash, NEW x \in c.hash[h] PROVE Stays(c, d, M, h, x)
  BY DEF Loyal
<1>1. CASE x = e
  BY <1>1
<1>2. CASE x # e
  <2>1. Stays(b, d, M, h, x)
    BY <1>2 DEF Loyal
  <2> QED BY <1>2, <2>1 DEF Stays
<1> QED BY <1>1, <1>2

\* To a later cache, where an entry has been released.
LEMMA ReleasedIsLoyal ==
  ASSUME NEW c, Keyed(c), NEW b, NEW d, NEW M, Loyal(c, b, M), NEW e,
         b.attr = [x \in Item |-> b.attr[x]], b.hash \in [Hash -> SUBSET Item],
         d.hash = b.hash,
         \/ d.attr = b.attr
         \/ /\ d.attr = Freed(b.attr, e)
            /\ \A h \in Hash : e \notin b.hash[h]
  PROVE  Loyal(c, d, M)
<1>1. CASE d.attr = b.attr
  <2> SUFFICES ASSUME NEW h \in Hash, NEW x \in c.hash[h] PROVE Stays(c, d, M, h, x)
    BY DEF Loyal
  <2>1. Stays(c, b, M, h, x)
    BY DEF Loyal
  <2> QED BY <1>1, <2>1 DEF Stays
<1>2. CASE /\ d.attr = Freed(b.attr, e)
           /\ \A h \in Hash : e \notin b.hash[h]
  <2> SUFFICES ASSUME NEW h \in Hash, NEW x \in c.hash[h] PROVE Stays(c, d, M, h, x)
    BY DEF Loyal
  <2>1. \A y \in Item : d.attr[y] = IF y = e THEN NoAttr ELSE b.attr[y]
    BY <1>2 DEF Freed
  <2>2. x \in Item /\ c.attr[x][h.field] # None
    BY DEF Keyed, BelongsIn
  <2>3. Stays(c, b, M, h, x)
    BY DEF Loyal
  <2>4. CASE x = e
    <3>1. NoAttr[h.field] = None
      BY HashFields DEF NoAttr, Field
    <3> QED BY <2>1, <2>2, <2>4, <3>1 DEF Stays
  <2>5. CASE x # e
    <3>1. d.attr[x] = b.attr[x]
      BY <2>1, <2>2, <2>5
    <3>2. \A y \in b.hash[h] : d.attr[y] = b.attr[y]
      BY <1>2, <2>1
    <3> QED BY <2>3, <3>1, <3>2 DEF Stays
  <2> QED BY <2>4, <2>5
<1> QED BY <1>1, <1>2

\* An entry that is removed, and gone from the list, before another is added.
LEMMA RemovedIsLoyal ==
  ASSUME NEW c, Keyed(c), NEW e \in Item, NEW b, b.hash = Removed(c, e),
         \/ b.attr = c.attr
         \/ b.attr = Freed(c.attr, e),
         NEW d, NEW M, e \notin M, Loyal(b, d, M)
  PROVE  Loyal(c, d, M)
<1>1. ASSUME NEW h \in Hash, NEW x \in c.hash[h], x # e
      PROVE  x \in b.hash[h] /\ b.attr[x] = c.attr[x]
  <2>1. x \in Item /\ c.attr = [y \in Item |-> c.attr[y]]
    BY DEF Keyed, IsAttrs
  <2> QED BY <1>1, <2>1 DEF Removed, Freed
<1>2. \A h \in Hash : Stays(c, d, M, h, e)
  BY DEF Stays
<1>3. \A h \in Hash : \A x \in c.hash[h] : x # e =>
            /\ x \in b.hash[h]
            /\ b.attr[x][h.field] = c.attr[x][h.field]
            /\ b.attr[x].foundBy = c.attr[x].foundBy
  BY <1>1
<1> QED BY <1>2, <1>3, LoyalBut

\* An entry that is removed, gets other attributes and enters again.
LEMMA MergedIsLoyal ==
  ASSUME NEW c, Keyed(c), NEW e \in Item, NEW b, b.hash = Removed(c, e),
         NEW m, b.attr = [c.attr EXCEPT ![e] = m],
         m.types = c.attr[e].types \/ m.negative,
         NEW d, d.hash = Added(b, e), d.attr = b.attr, NEW M
  PROVE  Loyal(c, d, M)
<1>1. /\ c.attr = [x \in Item |-> c.attr[x]] /\ c.hash \in [Hash -> SUBSET Item]
      /\ \A h \in Hash : \A z, v \in c.hash[h] :
           /\ BelongsIn(h, c.attr[z])
           /\ c.attr[z][h.field] = c.attr[v][h.field] => z = v
  BY DEF Keyed, IsAttrs
<1>2. \A x \in Item : b.attr[x] = IF x = e THEN m ELSE c.attr[x]
  BY <1>1
<1>3. \A h \in Hash : b.hash[h] \subseteq c.hash[h] /\ c.hash[h] \ {e} \subseteq b.hash[h]
  BY DEF Removed
<1>4. Loyal(b, d, M)
  BY AddedIsLoyal
<1>5. \A h \in Hash : \A x \in c.hash[h] : x # e =>
            /\ x \in b.hash[h]
            /\ b.attr[x][h.field] = c.attr[x][h.field]
            /\ b.attr[x].foundBy = c.attr[x].foundBy
  BY <1>1, <1>2, <1>3
<1>6. ASSUME NEW h \in Hash, e \in c.hash[h] PROVE Stays(c, d, M, h, e)
  <2> SUFFICES ASSUME ~m.negative, m[h.field] = c.attr[e][h.field], e \notin d.hash[h]
               PROVE  FALSE
    BY <1>2 DEF Stays
  <2>1. BelongsIn(h, m)
    BY <1>1, <1>6 DEF BelongsIn
  <2>2. e \notin b.hash[h]
    <3>1. h # KerberosHash
      <4>1. IsAttr(c.attr[e]) /\ BelongsIn(h, c.attr[e])
        BY <1>1, <1>6 DEF Keyed, IsAttrs
      <4> QED BY <4>1 DEF BelongsIn, IsAttr, KerberosHash, Over
    <3> QED BY <1>1, <1>6, <3>1 DEF Removed
  <2>3. ASSUME NEW x \in b.hash[h], b.attr[x][h.field] = b.attr[e][h.field] PROVE FALSE
    <3>1. x \in c.hash[h] /\ x # e /\ x \in Item
      BY <1>1, <1>3, <2>2, <2>3
    <3> QED BY <1>1, <1>2, <1>6, <2>3, <3>1
  <2>4. Enters(b, e, h)
    BY <1>2, <2>1, <2>2, <2>3 DEF Enters
  <2> QED BY <2>4 DEF Added
<1> QED BY <1>4, <1>5, <1>6, LoyalBut

-----------------------------------------------------------------------------
(***************************************************************************)
(* AddOrUpdate: the cache stays whole, and the entry it returns is         *)
(* retained once more.                                                     *)
(***************************************************************************)
LEMMA TwoMore ==
  ASSUME NEW ext \in [Item -> Nat], NEW x \in Item, NEW y \in Item, x # y,
         NEW z, z = More(More(ext, x), y)
  PROVE  /\ z \in [Item -> Nat] /\ z[x] >= 1 /\ z[y] >= 1
         /\ Less(z, x) = More(ext, y) /\ Less(z, y) = More(ext, x)
<1>1. z \in [Item -> Nat]
      /\ \A i \in Item : z[i] = IF i \in {x, y} THEN ext[i] + 1 ELSE ext[i]
  BY DEF More
<1>2. ASSUME NEW i \in Item, NEW j \in Item, (i = x /\ j = y) \/ (i = y /\ j = x)
      PROVE  Less(z, i) = More(ext, j)
  <2>1. (ext[i] + 1) - 1 = ext[i] /\ i # j
    BY <1>2
  <2>2. \A v \in Item : Less(z, i)[v] = More(ext, j)[v]
    BY <1>1, <1>2, <2>1 DEF Less, More
  <2>3. /\ Less(z, i) = [v \in Item |-> Less(z, i)[v]]
        /\ More(ext, j) = [v \in Item |-> More(ext, j)[v]]
    BY <1>1 DEF Less, More
  <2> QED BY <2>2, <2>3
<1>3. Less(z, x) = More(ext, y) /\ Less(z, y) = More(ext, x)
  BY <1>2
<1> QED BY <1>1, <1>3

\* What a release does to hashes that keep one entry for a key.
LEMMA ReleasedIsKeyed ==
  ASSUME NEW c, Keyed(c), NEW e \in Item, NEW d, d.hash = c.hash,
         \/ d.attr = c.attr
         \/ /\ d.attr = Freed(c.attr, e)
            /\ \A h \in Hash : e \notin c.hash[h]
  PROVE  Keyed(d)
<1>1. CASE d.attr = c.attr
  BY <1>1 DEF Keyed
<1>2. CASE /\ d.attr = Freed(c.attr, e)
           /\ \A h \in Hash : e \notin c.hash[h]
  BY <1>2, NoAttrIsAttr, UnhashedKeepsKeyed DEF Freed
<1> QED BY <1>1, <1>2

LEMMA ReleaseKeepsBoth ==
  ASSUME NEW c, NEW rest, NEW ext, NEW L, NEW K, Whole(c, rest, ext, L, K),
         NEW e \in Item, ext[e] >= 1
  PROVE  /\ Whole(Release(c, e), rest, Less(ext, e), L, K)
         /\ Sound(c, L) => /\ Sound(Release(c, e), L)
                           /\ \A b : Keyed(b) /\ Loyal(b, c, L)
                                      => Loyal(b, Release(c, e), L)
<1> DEFINE d == Release(c, e)
<1>1. /\ Whole(d, rest, Less(ext, e), L, K) /\ d.hash = c.hash
      /\ \/ d.attr = c.attr
         \/ /\ d.attr = Freed(c.attr, e)
            /\ \A h \in Hash : e \notin c.hash[h]
  BY ReleaseKeepsWhole
<1> HIDE DEF d
<1>2. Keyed(c) => Keyed(d)
  BY <1>1, ReleasedIsKeyed
<1>4. HashedIn(d) = HashedIn(c)
  BY <1>1 DEF HashedIn
<1>3. ASSUME Keyed(c), NEW b, Keyed(b), Loyal(b, c, L) PROVE Loyal(b, d, L)
  <2>1. c.attr = [x \in Item |-> c.attr[x]] /\ c.hash \in [Hash -> SUBSET Item]
    BY <1>3 DEF Keyed, IsAttrs
  <2> QED BY <1>1, <1>3, <2>1, ReleasedIsLoyal
<1> QED BY <1>1, <1>2, <1>3, <1>4 DEF d, Sound

\* An entry takes the place of another in the list.
LEMMA ReplaceKeepsWhole ==
  ASSUME NEW c, NEW rest, NEW ext, NEW L, NEW K, Whole(c, rest, ext, L, K),
         NEW x \in L, NEW e \in Item, e \notin L \cup K
  PROVE  LET d == AddEntry(RemoveEntry(c, x), e)
         IN \E M : /\ Whole(d, rest, ext, M, K)
                   /\ Sound(c, L) => Sound(d, M) /\ Loyal(c, d, M)
<1> DEFINE b == RemoveEntry(c, x)
           d == AddEntry(b, e)
<1>1. x \in Item
  BY WholeFacts
<1>2. /\ Whole(b, rest, ext, L \ {x}, K) /\ b.hash = Removed(c, x)
      /\ \/ b.attr = c.attr
         \/ /\ b.attr = Freed(c.attr, x)
            /\ \A h \in Hash : x \notin Removed(c, x)[h]
  BY RemoveEntryKeepsWhole
<1> HIDE DEF b
<1>3. Sound(c, L) => Sound(b, L \ {x})
  <2> SUFFICES ASSUME Sound(c, L) PROVE Sound(b, L \ {x})
    OBVIOUS
  <2>1. Keyed(b) /\ \A h \in Hash : x \notin b.hash[h]
    BY <1>1, <1>2, RemovedIsKeyed DEF Sound
  <2>2. HashedIn(b) \subseteq HashedIn(c) \ {x}
    BY <1>2, <2>1, RemovedIn
  <2> QED BY <2>1, <2>2 DEF Sound
<1>4. e \notin (L \ {x}) \cup K
  OBVIOUS
<1>5. PICK M : /\ Whole(d, rest, ext, M, K) /\ d.hash = Added(b, e) /\ d.attr = b.attr
               /\ M = L \ {x} \/ M = (L \ {x}) \cup {e}
               /\ HashedIn(b) \subseteq L \ {x} => HashedIn(d) \subseteq M
  BY <1>2, <1>4, AddEntryKeepsWhole
<1> HIDE DEF d
<1>6. Keyed(b) => Keyed(d)
  BY <1>5, AddedIsKeyed
<1>7. x \notin M
  BY <1>5
<1>8. Loyal(b, d, M)
  BY <1>5, AddedIsLoyal
<1>9. Keyed(c) => Loyal(c, d, M)
  BY <1>1, <1>2, <1>7, <1>8, RemovedIsLoyal
<1> QED BY <1>3, <1>5, <1>6, <1>9 DEF d, b, Sound

\* Only one entry's attributes differ, and it has the types of another.
OneMerged(c, d, e, s) ==
  \E m : m.types = c.attr[s].types /\ d.attr = [c.attr EXCEPT ![e] = m]

LEMMA MergeIsKeyed ==
  ASSUME NEW c, IsCache(c), Keyed(c), NEW e \in Item, NEW s \in Item,
         \A h \in Hash : e \notin c.hash[h]
  PROVE  /\ Keyed(Merge(c, e, s)) /\ Merge(c, e, s).hash = c.hash
         /\ OneMerged(c, Merge(c, e, s), e, s)
<1> DEFINE a == c.attr[e]
           b == c.attr[s]
           G == MergedKey("guid", a, b)
           I == MergedKey("id", a, b)
           F == b.foundBy \cup a.foundBy
           S == b.scheduled \cup a.scheduled
           N == b.negative \/ a.negative
           m == [b EXCEPT !.guid = G, !.id = I, !.foundBy = F, !.scheduled = S,
                          !.negative = N]
           attr == [c.attr EXCEPT ![e] = m]
           d == Merge(c, e, s)
<1>1. IsAttr(b)
  BY DEF Keyed, IsAttrs
<1>2. d = [c EXCEPT !.attr = attr]
  BY DEF Merge
<1> HIDE DEF G, I, F, S, N
<1>3. m = [[[[[b EXCEPT !.guid = G] EXCEPT !.id = I] EXCEPT !.foundBy = F]
              EXCEPT !.scheduled = S] EXCEPT !.negative = N]
  <2> HIDE DEF b
  <2> QED OBVIOUS
<1>4. IsAttr(m) /\ m.types = b.types
  <2> DEFINE g == [b EXCEPT !.guid = G]
             i == [g EXCEPT !.id = I]
             b1 == [i EXCEPT !.foundBy = F]
             b2 == [b1 EXCEPT !.scheduled = S]
             b3 == [b2 EXCEPT !.negative = N]
  <2> HIDE DEF b
  <2>4. IsAttr(g) /\ g.types = b.types
    BY <1>1, OneFieldKeepsKeys DEF KeepsKeys
  <2> HIDE DEF g
  <2>5. IsAttr(i) /\ i.types = g.types
    BY <2>4, OneFieldKeepsKeys DEF KeepsKeys
  <2> HIDE DEF i
  <2>1. IsAttr(b1) /\ b1.types = i.types
    BY <2>5, OneFieldKeepsKeys DEF KeepsKeys
  <2> HIDE DEF b1
  <2>2. IsAttr(b2) /\ b2.types = b1.types
    BY <2>1, OneFieldKeepsKeys DEF KeepsKeys
  <2> HIDE DEF b2
  <2>3. IsAttr(b3) /\ b3.types = b2.types
    BY <2>2, OneFieldKeepsKeys DEF KeepsKeys
  <2> USE DEF g, i, b1, b2
  <2> QED BY <1>3, <2>1, <2>2, <2>3, <2>4, <2>5
<1> HIDE DEF m, d
<1>5. d.hash = c.hash /\ d.attr = [c.attr EXCEPT ![e] = m]
  BY <1>2 DEF IsCache
<1>6. Keyed(d)
  BY <1>4, <1>5, UnhashedKeepsKeyed
<1> HIDE DEF attr
<1>7. OneMerged(c, d, e, s)
  BY <1>4, <1>5 DEF OneMerged
<1> QED BY <1>5, <1>6, <1>7 DEF d

\* The update of what is in the list by an entry that is not.
LEMMA UpdateKeepsWhole ==
  ASSUME NEW c, NEW rest, NEW base \in [Item -> Nat], NEW L, NEW K, NEW x \in L,
         NEW s \in Item, s \notin L \cup K,
         Whole(c, rest, More(More(base, s), x), L, K)
  PROVE  LET u == UpdateExistingRecord(c, x, s)
         IN \E M : /\ u.entry \in Item /\ Whole(u.cache, rest, More(base, u.entry), M, K)
                   /\ Sound(c, L) => Sound(u.cache, M) /\ Loyal(c, u.cache, M)
<1> DEFINE u == UpdateExistingRecord(c, x, s)
           a == c.attr[x]
           b == c.attr[s]
<1>1. x \in Item /\ x # s
  BY WholeFacts
<1>2. PICK z : z = More(More(base, s), x)
  OBVIOUS
<1>3. /\ z \in [Item -> Nat] /\ z[x] >= 1 /\ z[s] >= 1
      /\ Less(z, s) = More(base, x) /\ Less(z, x) = More(base, s)
  BY <1>1, <1>2, TwoMore
<1>4. Whole(c, rest, z, L, K)
  BY <1>2
<1>5. SUFFICES \E M : /\ u.entry \in Item
                      /\ Whole(u.cache, rest, More(base, u.entry), M, K)
                      /\ Sound(c, L) => Sound(u.cache, M) /\ Loyal(c, u.cache, M)
  OBVIOUS
<1>6. CASE b.negative /\ (a.negative \/ ~a.available)
  <2>1. u = Answer(Release(c, s), x)
    BY <1>6 DEF UpdateExistingRecord
  <2>2. u.cache = Release(c, s) /\ u.entry = x
    BY <2>1 DEF Answer
  <2>3. /\ Whole(Release(c, s), rest, Less(z, s), L, K)
        /\ Sound(c, L) => Sound(Release(c, s), L) /\ Loyal(c, Release(c, s), L)
    <3>1. /\ Whole(Release(c, s), rest, Less(z, s), L, K)
          /\ Sound(c, L) => /\ Sound(Release(c, s), L)
                            /\ \A v : Keyed(v) /\ Loyal(v, c, L)
                                       => Loyal(v, Release(c, s), L)
      BY <1>3, <1>4, ReleaseKeepsBoth
    <3>2. Loyal(c, c, L)
      BY SameHashesAreLoyal
    <3> QED BY <3>1, <3>2 DEF Sound
  <2> HIDE DEF u
  <2> QED BY <1>1, <1>3, <2>2, <2>3
<1>7. CASE ~(b.negative /\ (a.negative \/ ~a.available)) /\ SameRecord(a, b)
  <2> DEFINE c1 == RemoveFromHashes(c, x)
             c2 == Merge(c1, x, s)
             c3 == AddToHashes(c2, x)
             c4 == Release(c3, s)
  <2>1. u = Answer(c4, x)
    BY <1>7 DEF UpdateExistingRecord
  <2>2. u.cache = c4 /\ u.entry = x
    BY <2>1 DEF Answer
  <2> HIDE DEF u
  <2>3. Whole(c1, rest, z, L, K) /\ c1.hash = Removed(c, x) /\ c1.attr = c.attr
    BY <1>1, <1>4, RemoveFromHashesKeepsWhole
  <2> HIDE DEF c1
  <2>4. Keyed(c) => Keyed(c1) /\ \A h \in Hash : x \notin c1.hash[h]
    BY <1>1, <2>3, RemovedIsKeyed
  <2>5. IsCache(c1)
    BY <2>3 DEF Whole
  <2>6. Keyed(c) => Keyed(c2) /\ c2.hash = c1.hash /\ OneMerged(c1, c2, x, s)
    <3> SUFFICES ASSUME Keyed(c)
                 PROVE  Keyed(c2) /\ c2.hash = c1.hash /\ OneMerged(c1, c2, x, s)
      OBVIOUS
    <3>1. Keyed(c1) /\ \A h \in Hash : x \notin c1.hash[h]
      BY <2>4
    <3> QED BY <1>1, <2>5, <3>1, MergeIsKeyed
  <2>7. PICK attr : c2 = [c1 EXCEPT !.attr = attr]
    BY DEF Merge
  <2> HIDE DEF c2
  <2>8. Whole(c2, rest, z, L, K)
    BY <2>3, <2>7, AttrKeepsWhole
  <2>9. Whole(c3, rest, z, L, K) /\ c3.hash = Added(c2, x) /\ c3.attr = c2.attr
    BY <1>1, <2>8, AddToHashesKeepsWhole
  <2> HIDE DEF c3
  <2>10. Sound(c, L) => Sound(c3, L)
    <3> SUFFICES ASSUME Sound(c, L) PROVE Sound(c3, L)
      OBVIOUS
    <3>1. Keyed(c3)
      BY <1>1, <2>6, <2>9, AddedIsKeyed DEF Sound
    <3>2. HashedIn(c3) \subseteq HashedIn(c2) \cup {x}
      BY <2>9, AddedIn
    <3>3. HashedIn(c2) = HashedIn(c1)
      BY <2>6 DEF Sound, HashedIn
    <3>4. HashedIn(c1) \subseteq HashedIn(c) \ {x}
      BY <2>3, <2>4, RemovedIn DEF Sound
    <3> QED BY <3>1, <3>2, <3>3, <3>4 DEF Sound
  <2>11. /\ Whole(c4, rest, Less(z, s), L, K)
         /\ Sound(c3, L) => /\ Sound(c4, L)
                            /\ \A v : Keyed(v) /\ Loyal(v, c3, L) => Loyal(v, c4, L)
    BY <1>3, <2>9, ReleaseKeepsBoth
  <2> HIDE DEF c4
  <2>12. a.types = b.types
    BY <1>7 DEF SameRecord
  <2>13. ASSUME Keyed(c) PROVE Loyal(c, c3, L)
    <3>1. PICK m : m.types = c.attr[s].types /\ c2.attr = [c.attr EXCEPT ![x] = m]
      BY <2>3, <2>6, <2>13 DEF OneMerged
    <3>2. c2.hash = Removed(c, x)
      BY <2>3, <2>6, <2>13
    <3>3. m.types = c.attr[x].types
      BY <2>12, <3>1
    <3> QED BY <1>1, <2>9, <2>13, <3>1, <3>2, <3>3, MergedIsLoyal
  <2> QED BY <1>1, <1>3, <2>2, <2>10, <2>11, <2>13 DEF Sound
<1>8. CASE ~(b.negative /\ (a.negative \/ ~a.available)) /\ ~SameRecord(a, b)
  <2> DEFINE c1 == AddEntry(RemoveEntry(c, x), s)
             c2 == Release(c1, x)
  <2>1. u = Answer(c2, s)
    BY <1>8 DEF UpdateExistingRecord
  <2>2. u.cache = c2 /\ u.entry = s
    BY <2>1 DEF Answer
  <2> HIDE DEF u
  <2>3. PICK M : Whole(c1, rest, z, M, K) /\ (Sound(c, L) => Sound(c1, M) /\ Loyal(c, c1, M))
    BY <1>4, ReplaceKeepsWhole
  <2> HIDE DEF c1
  <2>4. /\ Whole(c2, rest, Less(z, x), M, K)
        /\ Sound(c1, M) => /\ Sound(c2, M)
                           /\ \A v : Keyed(v) /\ Loyal(v, c1, M) => Loyal(v, c2, M)
    BY <1>1, <1>3, <2>3, ReleaseKeepsBoth
  <2> HIDE DEF c2
  <2> QED BY <1>3, <2>2, <2>3, <2>4 DEF Sound
<1> QED BY <1>6, <1>7, <1>8

LEMMA ExistingIsHashed ==
  ASSUME NEW c, NEW a, NEW x \in Existing(c, a)
  PROVE  \E h \in Hash : x \in c.hash[h]
<1>1. PICK f \in {f \in Field \ {"sid"} : a.foundBy = {f}} :
        x \in Entries(c, f, FirstType(a.types), a[f])
  BY DEF Existing
<1>2. PICK h \in {h \in Hash : h.field = f /\ h.types \cap FirstType(a.types) # {}} :
        x \in {e \in c.hash[h] : c.attr[e][f] = a[f]}
  BY <1>1 DEF Entries
<1> QED BY <1>2

\* A new entry: it is returned, or what it updates.
LEMMA AddOrUpdateKeepsWhole ==
  ASSUME NEW c, NEW rest, NEW ext, NEW L, NEW K, Whole(c, rest, ext, L, K),
         HashedIn(c) \subseteq L, NEW e \in Unused(c), NEW attributes
  PROVE  LET u == AddOrUpdate(c, e, attributes)
         IN \E M : /\ u.entry \in Item /\ Whole(u.cache, rest, More(ext, u.entry), M, K)
                   /\ IsAttr(attributes) /\ Keyed(c)
                        => Sound(u.cache, M) /\ Loyal(c, u.cache, M)
<1> DEFINE u == AddOrUpdate(c, e, attributes)
           a == CompatGUID(attributes)
           new == [c EXCEPT !.attr[e] = a, !.retain[e] = 1]
           attr == [c.attr EXCEPT ![e] = a]
           r == Retain(c, e)
           found == Existing(c, a)
<1>1. e \in Item /\ c.retain[e] = 0
  BY DEF Unused
<1>2. e \notin L \cup K /\ \A h \in Hash : e \notin c.hash[h]
  BY <1>1, WholeFacts
<1>3. ext \in [Item -> Nat]
  BY DEF Whole
<1>4. new = [r EXCEPT !.attr = attr]
  <2> DEFINE one == [c.retain EXCEPT ![e] = 1]
  <2>1. one = [c.retain EXCEPT ![e] = @ + 1]
    BY <1>1
  <2>2. new = [c EXCEPT !.attr = attr, !.retain = one]
    OBVIOUS
  <2>3. r = [c EXCEPT !.retain = one]
    BY <2>1 DEF Retain
  <2> HIDE DEF new, attr, one, r
  <2> QED BY <2>2, <2>3 DEF Whole, IsCache
<1>5. Whole(r, rest, More(ext, e), L, K) /\ r.hash = c.hash /\ r.attr = c.attr
  BY <1>1, RetainKeepsWhole
<1>6. /\ Whole(new, rest, More(ext, e), L, K) /\ new.hash = c.hash
      /\ new.attr = attr
  <2> HIDE DEF new, r, attr
  <2> QED BY <1>4, <1>5, AttrKeepsWhole
<1>h. HashedIn(new) \subseteq L
  BY <1>6 DEF HashedIn
<1>7. ASSUME IsAttr(attributes), Keyed(c) PROVE Keyed(new)
  <2>1. IsAttr(a)
    BY <1>7, OneFieldKeepsKeys DEF KeepsKeys, CompatGUID
  <2> HIDE DEF new, a
  <2> QED BY <1>1, <1>2, <1>6, <1>7, <2>1, UnhashedKeepsKeyed
<1>l. ASSUME Keyed(c), NEW d, NEW M, Loyal(new, d, M) PROVE Loyal(c, d, M)
  <2>1. \A x \in Item : x # e => new.attr[x] = c.attr[x]
    <3>1. c.attr = [x \in Item |-> c.attr[x]]
      BY <1>l DEF Keyed, IsAttrs
    <3> HIDE DEF new
    <3> QED BY <1>6, <3>1
  <2> HIDE DEF new
  <2>2. ASSUME NEW h \in Hash, NEW x \in c.hash[h], x # e
        PROVE  /\ x \in new.hash[h]
               /\ new.attr[x][h.field] = c.attr[x][h.field]
               /\ new.attr[x].foundBy = c.attr[x].foundBy
    <3>1. x \in Item
      BY <1>l DEF Keyed
    <3> QED BY <1>6, <2>1, <2>2, <3>1
  <2>3. \A h \in Hash : e \in c.hash[h] => Stays(c, d, M, h, e)
    BY <1>2
  <2> QED BY <1>l, <2>2, <2>3, LoyalBut
<1>8. CASE found = {}
  <2>1. u = Answer(AddEntry(new, e), e)
    BY <1>8 DEF AddOrUpdate
  <2>2. u.cache = AddEntry(new, e) /\ u.entry = e
    BY <2>1 DEF Answer
  <2> HIDE DEF u, new, found, attr, a
  <2>3. PICK M : /\ Whole(AddEntry(new, e), rest, More(ext, e), M, K)
                 /\ AddEntry(new, e).hash = Added(new, e) /\ AddEntry(new, e).attr = new.attr
                 /\ HashedIn(AddEntry(new, e)) \subseteq M
    BY <1>1, <1>2, <1>6, <1>h, AddEntryKeepsWhole
  <2>4. Keyed(new) => Keyed(AddEntry(new, e))
    BY <1>1, <2>3, AddedIsKeyed
  <2>5. Loyal(new, AddEntry(new, e), M)
    BY <2>3, AddedIsLoyal
  <2>6. Keyed(c) => Loyal(c, AddEntry(new, e), M)
    BY <1>l, <2>5
  <2> QED BY <1>1, <1>7, <2>2, <2>3, <2>4, <2>6 DEF u, Sound
<1>9. CASE found # {}
  <2> DEFINE x == CHOOSE x \in found : TRUE
  <2>1. x \in found
    BY <1>9
  <2>2. u = IF c.attr[x].types = a.types
              THEN UpdateExistingRecord(Retain(new, x), x, e)
              ELSE Answer(AddEntry(RemoveEntry(
                            [new EXCEPT !.attr[x].available = TRUE], x), e), e)
    BY <1>9 DEF AddOrUpdate
  <2> HIDE DEF x, u
  <2>3. x \in L /\ x \in Item /\ x # e
    <3>1. PICK h \in Hash : x \in c.hash[h]
      BY <2>1, ExistingIsHashed
    <3>2. x \in L
      BY <3>1 DEF HashedIn
    <3> QED BY <3>2, <1>2, WholeFacts
  <2> HIDE DEF found
  <2>4. CASE c.attr[x].types = a.types
    <3> DEFINE d == Retain(new, x)
    <3>1. u = UpdateExistingRecord(d, x, e)
      BY <2>2, <2>4
    <3> HIDE DEF new, attr
    <3>2. Whole(d, rest, More(More(ext, e), x), L, K) /\ d.hash = new.hash /\ d.attr = new.attr
      BY <1>6, <2>3, RetainKeepsWhole
    <3> HIDE DEF d
    <3>3. Keyed(new) => Sound(d, L)
      BY <1>h, <3>2 DEF Sound, Keyed, HashedIn
    <3>4. PICK M : /\ u.entry \in Item /\ Whole(u.cache, rest, More(ext, u.entry), M, K)
                   /\ Sound(d, L) => Sound(u.cache, M) /\ Loyal(d, u.cache, M)
      BY <1>1, <1>2, <1>3, <2>3, <3>1, <3>2, UpdateKeepsWhole
    <3>5. ASSUME Loyal(d, u.cache, M) PROVE Loyal(new, u.cache, M)
      BY <3>2, <3>5 DEF Loyal, Stays
    <3>6. Keyed(c) /\ Loyal(new, u.cache, M) => Loyal(c, u.cache, M)
      BY <1>l
    <3> QED BY <1>7, <3>3, <3>4, <3>5, <3>6 DEF u
  <2>5. CASE c.attr[x].types # a.types
    <3> DEFINE d == [new EXCEPT !.attr[x].available = TRUE]
               dattr == [new.attr EXCEPT ![x].available = TRUE]
               f == AddEntry(RemoveEntry(d, x), e)
    <3>1. u = Answer(f, e)
      BY <2>2, <2>5
    <3>2. d = [new EXCEPT !.attr = dattr]
      OBVIOUS
    <3> HIDE DEF new, attr, d, dattr
    <3>3. Whole(d, rest, More(ext, e), L, K) /\ d.hash = new.hash /\ d.attr = dattr
      BY <1>6, <3>2, AttrKeepsWhole
    <3>4. ASSUME Keyed(new) PROVE Keyed(d)
      <4>1. new.attr = [i \in Item |-> new.attr[i]] /\ \A i \in Item : IsAttr(new.attr[i])
        BY <3>4 DEF Keyed, IsAttrs
      <4> DEFINE v == [new.attr[x] EXCEPT !.available = TRUE]
      <4>2. dattr = [new.attr EXCEPT ![x] = v]
        BY DEF dattr
      <4>3. KeepsKeys(new.attr[x], v, "available")
        BY <2>3, <4>1, OneFieldKeepsKeys
      <4> HIDE DEF v
      <4>4. dattr = [i \in Item |-> dattr[i]]
            /\ \A i \in Item : dattr[i] = IF i = x THEN v ELSE new.attr[i]
        BY <4>1, <4>2
      <4>5. IsAttrs(dattr)
        BY <4>1, <4>3, <4>4 DEF IsAttrs, KeepsKeys
      <4>6. \A h \in Hash : h.field \in Field \ {"available"}
        BY HashFields DEF Field
      <4>7. \A h \in Hash : \A i \in new.hash[h] :
               dattr[i][h.field] = new.attr[i][h.field] /\ dattr[i].types = new.attr[i].types
        <5> SUFFICES ASSUME NEW h \in Hash, NEW i \in new.hash[h]
                     PROVE  /\ dattr[i][h.field] = new.attr[i][h.field]
                            /\ dattr[i].types = new.attr[i].types
          OBVIOUS
        <5>1. i \in Item
          BY <3>4 DEF Keyed
        <5> QED BY <5>1, <4>3, <4>4, <4>6 DEF KeepsKeys
      <4> QED BY <3>3, <3>4, <4>5, <4>7, AttrKeepsKeyed
    <3>5. PICK M : /\ Whole(f, rest, More(ext, e), M, K)
                   /\ Sound(d, L) => Sound(f, M) /\ Loyal(d, f, M)
      BY <1>1, <1>2, <2>3, <3>3, ReplaceKeepsWhole
    <3>7. ASSUME Keyed(new), Loyal(d, f, M) PROVE Loyal(new, f, M)
      <4>1. new.attr = [i \in Item |-> new.attr[i]]
            /\ \A i \in Item : IsAttr(new.attr[i])
        BY <3>7 DEF Keyed, IsAttrs
      <4> DEFINE v == [new.attr[x] EXCEPT !.available = TRUE]
      <4>2. dattr = [new.attr EXCEPT ![x] = v]
        BY DEF dattr
      <4>3. KeepsKeys(new.attr[x], v, "available")
        BY <2>3, <4>1, OneFieldKeepsKeys
      <4>4. v.foundBy = new.attr[x].foundBy
        BY <2>3, <4>1 DEF IsAttr
      <4> HIDE DEF v, f
      <4>5. \A i \in Item : dattr[i] = IF i = x THEN v ELSE new.attr[i]
        BY <4>1, <4>2
      <4>6. \A h \in Hash : h.field \in Field \ {"available"}
        BY HashFields DEF Field
      <4>7. ASSUME NEW h \in Hash, NEW i \in new.hash[h]
            PROVE  /\ dattr[i][h.field] = new.attr[i][h.field]
                   /\ dattr[i].foundBy = new.attr[i].foundBy
        <5>1. i \in Item
          BY <3>7 DEF Keyed
        <5> QED BY <5>1, <4>3, <4>4, <4>5, <4>6 DEF KeepsKeys
      <4>8. \A h \in Hash : e \notin new.hash[h]
        BY <1>2, <1>6
      <4>9. \A h \in Hash : e \in new.hash[h] => Stays(new, f, M, h, e)
        BY <4>8
      <4>10. \A h \in Hash : \A i \in new.hash[h] : i # e =>
               /\ i \in d.hash[h]
               /\ d.attr[i][h.field] = new.attr[i][h.field]
               /\ d.attr[i].foundBy = new.attr[i].foundBy
        BY <3>3, <4>7
      <4> QED BY <3>7, <4>9, <4>10, LoyalBut
    <3>6. u.cache = f /\ u.entry = e
      <4> HIDE DEF f
      <4> QED BY <3>1 DEF Answer
    <3> HIDE DEF f
    <3>8. Keyed(c) /\ Loyal(new, f, M) => Loyal(c, f, M)
      BY <1>l
    <3>9. HashedIn(d) \subseteq L
      BY <1>h, <3>3 DEF HashedIn
    <3> QED BY <1>1, <1>7, <3>4, <3>5, <3>6, <3>7, <3>8, <3>9 DEF u, Sound
  <2> QED BY <2>4, <2>5
<1> QED BY <1>8, <1>9

-----------------------------------------------------------------------------
(***************************************************************************)
(* Sweeps: all entries of a set leave the list, one after another.         *)
(***************************************************************************)
SweepStep(c, S, n, v) ==
  LET at == Nth(c, c.head) IN IF at[n - 1] \in S THEN RemoveEntry(v, at[n - 1]) ELSE v
SweepSteps(c, S, m, g) == [n \in 0..m |-> IF n = 0 THEN c ELSE SweepStep(c, S, n, g[n - 1])]

LEMMA SweepStepsExist ==
  ASSUME NEW c, NEW S, NEW m \in Nat
  PROVE  \E g : g = SweepSteps(c, S, m, g)
<1> DEFINE Bad == {n \in Nat : ~ \E g : g = SweepSteps(c, S, n, g)}
<1> SUFFICES ASSUME Bad # {} PROVE FALSE
  OBVIOUS
<1>1. PICK n \in Bad : \A y \in Bad : n <= y
  BY Smallest
<1>2. CASE n = 0
  <2> DEFINE g == [i \in 0..0 |-> c]
  <2>1. g = SweepSteps(c, S, 0, g)
    BY DEF SweepSteps
  <2> QED BY <1>1, <1>2, <2>1
<1>3. CASE n # 0
  <2>1. n \in Nat /\ n - 1 \in Nat /\ n - 1 \notin Bad
    BY <1>1, <1>3
  <2>2. PICK g : g = SweepSteps(c, S, n - 1, g)
    BY <2>1
  <2> DEFINE f == [i \in 0..n |-> IF i = n THEN SweepStep(c, S, n, g[n - 1]) ELSE g[i]]
  <2>3. \A i \in 0..(n - 1) : g[i] = IF i = 0 THEN c ELSE SweepStep(c, S, i, g[i - 1])
    BY <2>2 DEF SweepSteps
  <2>4. ASSUME NEW i \in 0..n
        PROVE  f[i] = IF i = 0 THEN c ELSE SweepStep(c, S, i, f[i - 1])
    <3>1. CASE i = n
      <4>1. f[i] = SweepStep(c, S, n, g[n - 1]) /\ f[n - 1] = g[n - 1]
        BY <2>1, <3>1
      <4> QED BY <1>3, <3>1, <4>1
    <3>2. CASE i # n /\ i = 0
      BY <2>1, <2>3, <3>2
    <3>3. CASE i # n /\ i # 0
      <4>1. i \in 0..(n - 1) /\ i - 1 \in 0..n /\ i - 1 # n
        BY <2>1, <3>3
      <4>2. f[i] = g[i] /\ f[i - 1] = g[i - 1]
        BY <3>3, <4>1
      <4> QED BY <2>3, <3>3, <4>1, <4>2
    <3> QED BY <3>1, <3>2, <3>3
  <2>5. f = [i \in 0..n |-> f[i]]
    OBVIOUS
  <2> HIDE DEF f
  <2>6. f = SweepSteps(c, S, n, f)
    BY <2>4, <2>5 DEF SweepSteps
  <2> QED BY <1>1, <2>6
<1> QED BY <1>2, <1>3

HashesKept(c, d, M) == \A h \in Hash : c.hash[h] \cap M \subseteq d.hash[h]

LEMMA RemoveAllKeepsWhole ==
  ASSUME NEW c, NEW rest, NEW ext, NEW L, NEW K, Whole(c, rest, ext, L, K),
         NEW S, S \subseteq L
  PROVE  \E M : /\ Whole(RemoveAll(c, S), rest, ext, M, K)
                /\ Sound(c, L) => Sound(RemoveAll(c, S), M)
                /\ Loyal(c, RemoveAll(c, S), M)
<1>1. PICK n, s : IsChain(c.head, c.fLink, n, s) /\ L = Elems(n, s)
  <2>1. Linked(c.head, c.tail, c.fLink, c.fBackLink, rest, L, K)
    BY DEF Whole
  <2> QED BY <2>1, Zenon DEF Linked
<1>2. /\ n \in Nat /\ s \in [1..n -> Item]
      /\ \A i, j \in 1..n : s[i] = s[j] => i = j
  BY <1>1 DEF IsChain
<1>3. MaxItems \in Nat
  BY CacheAssumption DEF CacheAssumption
<1> DEFINE at == Nth(c, c.head)
           after == CHOOSE g : g = SweepSteps(c, S, MaxItems, g)
<1>4. \A x \in 0..MaxItems : at[x] = At(n, s, x + 1)
  BY <1>1, NthMeans
<1>5. after = SweepSteps(c, S, MaxItems, after)
  BY <1>3, SweepStepsExist, Zenon
<1>6. RemoveAll(c, S) = after[MaxItems]
  BY DEF RemoveAll, SweepSteps, SweepStep
<1> HIDE DEF after, at
<1>7. after[0] = c
  BY <1>3, <1>5 DEF SweepSteps
<1>8. ASSUME NEW m \in 1..MaxItems
      PROVE  after[m] = IF at[m - 1] \in S THEN RemoveEntry(after[m - 1], at[m - 1])
                                           ELSE after[m - 1]
  <2>1. m \in 0..MaxItems /\ m # 0
    BY <1>3
  <2>2. after[m] = SweepStep(c, S, m, after[m - 1])
    BY <1>5, <2>1 DEF SweepSteps
  <2> QED BY <2>2 DEF SweepStep, at
<1> DEFINE Left(m) == {s[i] : i \in {i \in 1..n : i > m \/ s[i] \notin S}}
           Bad == {m \in 0..MaxItems : ~ (/\ Whole(after[m], rest, ext, Left(m), K)
                                          /\ Sound(c, L) => Sound(after[m], Left(m))
                                          /\ HashesKept(c, after[m], Left(m)))}
<1>9. Bad = {}
  <2> SUFFICES ASSUME Bad # {} PROVE FALSE
    OBVIOUS
  <2>1. Bad \subseteq Nat
    BY <1>3
  <2>2. PICK m \in Bad : \A y \in Bad : m <= y
    BY <2>1, Smallest
  <2>3. m \in 0..MaxItems /\ ~ (/\ Whole(after[m], rest, ext, Left(m), K)
                                /\ Sound(c, L) => Sound(after[m], Left(m))
                                /\ HashesKept(c, after[m], Left(m)))
    BY <2>2
  <2>4. CASE m = 0
    <3>1. Left(0) = L
      <4>1. \A i \in 1..n : i > 0
        BY <1>2
      <4>2. {i \in 1..n : i > 0 \/ s[i] \notin S} = 1..n
        BY <4>1
      <4> QED BY <4>2, <1>1 DEF Elems
    <3> HIDE DEF Left
    <3>2. HashesKept(c, after[0], L)
      BY <1>7 DEF HashesKept
    <3> QED BY <1>7, <2>3, <2>4, <3>1, <3>2
  <2>5. CASE m # 0
    <3>1. m \in 1..MaxItems /\ m - 1 \in 0..MaxItems /\ ~(m <= m - 1) /\ (m - 1) + 1 = m
      BY <1>3, <2>3, <2>5
    <3>2. /\ Whole(after[m - 1], rest, ext, Left(m - 1), K)
          /\ Sound(c, L) => Sound(after[m - 1], Left(m - 1))
          /\ HashesKept(c, after[m - 1], Left(m - 1))
      BY <2>2, <3>1
    <3>3. at[m - 1] = At(n, s, m)
      BY <1>4, <3>1
    <3>4. CASE at[m - 1] \in S
      <4> DEFINE x == at[m - 1]
                 b == after[m - 1]
                 d == RemoveEntry(b, x)
      <4>1. m \in 1..n /\ x = s[m] /\ x \in Item /\ x \in S
        <5>1. x \in Item
          BY <3>4, <1>1, <1>2 DEF Elems
        <5> QED BY <5>1, <3>3, <3>4, ItemFacts DEF At
      <4>2. after[m] = d
        BY <1>8, <3>1, <3>4
      <4> HIDE DEF x
      <4>3. x \in Left(m - 1)
        <5>1. m > m - 1
          BY <3>1
        <5> QED BY <4>1, <5>1
      <4>4. Left(m) = Left(m - 1) \ {x}
        <5>1. ASSUME NEW y \in Left(m) PROVE y \in Left(m - 1) \ {x}
          <6>1. PICK i \in 1..n : y = s[i] /\ (i > m \/ s[i] \notin S)
            BY <5>1
          <6>2. i > m - 1 \/ s[i] \notin S
            BY <6>1, <3>1
          <6>3. y # x
            BY <6>1, <4>1, <1>2
          <6> QED BY <6>1, <6>2, <6>3
        <5>2. ASSUME NEW y \in Left(m - 1) \ {x} PROVE y \in Left(m)
          <6>1. PICK i \in 1..n : y = s[i] /\ (i > m - 1 \/ s[i] \notin S)
            BY <5>2
          <6>2. i # m
            BY <6>1, <4>1, <5>2
          <6>3. i > m \/ s[i] \notin S
            BY <6>1, <6>2, <3>1, <1>2
          <6> QED BY <6>1, <6>3
        <5> QED BY <5>1, <5>2
      <4> HIDE DEF Left, Bad, b, d
      <4>5. /\ Whole(d, rest, ext, Left(m - 1) \ {x}, K) /\ d.hash = Removed(b, x)
            /\ \/ d.attr = b.attr
               \/ /\ d.attr = Freed(b.attr, x)
                  /\ \A h \in Hash : x \notin Removed(b, x)[h]
        <5>1. PICK l, v : l = Left(m - 1) /\ v = b
          OBVIOUS
        <5>2. Whole(v, rest, ext, l, K) /\ x \in l /\ d = RemoveEntry(v, x)
          BY <3>2, <4>3, <5>1 DEF b, d
        <5>3. /\ Whole(d, rest, ext, l \ {x}, K) /\ d.hash = Removed(v, x)
              /\ \/ d.attr = v.attr
                 \/ /\ d.attr = Freed(v.attr, x)
                    /\ \A h \in Hash : x \notin Removed(v, x)[h]
          BY <5>2, RemoveEntryKeepsWhole
        <5> QED BY <5>1, <5>3
      <4>6. Sound(b, Left(m - 1)) => Sound(d, Left(m))
        <5> SUFFICES ASSUME Sound(b, Left(m - 1)) PROVE Sound(d, Left(m))
          OBVIOUS
        <5>1. Keyed(b) /\ HashedIn(b) \subseteq Left(m - 1)
          BY DEF Sound
        <5>2. Keyed(d) /\ \A h \in Hash : x \notin d.hash[h]
          BY <4>1, <4>5, <5>1, RemovedIsKeyed
        <5>3. HashedIn(d) \subseteq HashedIn(b) \ {x}
          BY <4>5, <5>2, RemovedIn
        <5> QED BY <4>4, <5>1, <5>2, <5>3 DEF Sound
      <4>7. HashesKept(c, d, Left(m))
        <5> SUFFICES ASSUME NEW h \in Hash, NEW y \in c.hash[h] \cap Left(m)
                     PROVE  y \in d.hash[h]
          BY DEF HashesKept
        <5>1. y \in Left(m - 1) /\ y # x
          BY <4>4
        <5>2. y \in b.hash[h]
          BY <3>2, <5>1 DEF HashesKept, b
        <5> QED BY <4>5, <5>1, <5>2 DEF Removed
      <4> QED BY <2>3, <3>2, <4>2, <4>4, <4>5, <4>6, <4>7 DEF b
    <3>5. CASE at[m - 1] \notin S
      <4>1. after[m] = after[m - 1]
        BY <1>8, <3>1, <3>5
      <4>2. Left(m) = Left(m - 1)
        <5>1. ASSUME NEW i \in 1..n
              PROVE  (i > m \/ s[i] \notin S) <=> (i > m - 1 \/ s[i] \notin S)
          <6>1. CASE i = m
            BY <6>1, <3>3, <3>5 DEF At
          <6>2. CASE i # m
            BY <6>2, <3>1, <1>2
          <6> QED BY <6>1, <6>2
        <5>2. {i \in 1..n : i > m \/ s[i] \notin S} = {i \in 1..n : i > m - 1 \/ s[i] \notin S}
          BY <5>1
        <5> QED BY <5>2
      <4> HIDE DEF Left, Bad
      <4> QED BY <2>3, <3>2, <4>1, <4>2
    <3> QED BY <3>4, <3>5
  <2> QED BY <2>4, <2>5
<1> HIDE DEF Left
<1>10. /\ Whole(after[MaxItems], rest, ext, Left(MaxItems), K)
       /\ Sound(c, L) => Sound(after[MaxItems], Left(MaxItems))
       /\ HashesKept(c, after[MaxItems], Left(MaxItems))
  BY <1>3, <1>9
<1>11. HashesKept(c, RemoveAll(c, S), Left(MaxItems))
  BY <1>6, <1>10
<1>12. Loyal(c, RemoveAll(c, S), Left(MaxItems))
  BY <1>11 DEF Loyal, Stays, HashesKept
<1> QED BY <1>6, <1>10, <1>12

-----------------------------------------------------------------------------
(***************************************************************************)
(* The invariant: besides the hashes and the chains, an entry is retained  *)
(* by the clients that have it and by its second searches.                 *)
(***************************************************************************)
Holders(res, e) == {c \in Clients : res[c] = e}
Ext(res, s) == [e \in Item |-> Cardinality(Holders(res, e)) + Len(s[e])]

Again == [lookup : Lookups, noNegative : BOOLEAN]
ControlOK ==
  /\ gLookupQueue \in Clients \cup {"reset", Free}
  /\ searches \in [Item -> Seq(Again)]
  /\ pc \in [Clients -> {"idle", "find", "answer", "answered"}]
  /\ lookup \in [Clients -> Lookups \cup {NoLookup}]
  /\ result \in [Clients -> MaybeItem]
  /\ \A c \in Clients : pc[c] \in {"answer", "answered"} <=> result[c] # NULL
  /\ \A c \in Clients : pc[c] \in {"find", "answer"} => gLookupQueue = c
  /\ gLookupQueue # "reset" => resetting = NULL

\* No directory and no lookup knows Kerberos principals.
NoPrincipals ==
  /\ \A r \in Records : "kerberos" \in DOMAIN r => r.kerberos = None
  /\ \A l \in Lookups : l.field # "kerberos"

IInv ==
  /\ ControlOK
  /\ \E L, K : /\ Whole(cache, resetting, Ext(result, searches), L, K)
               /\ Sound(cache, L)

LEMMA HoldersFacts ==
  ASSUME NEW res, NEW e
  PROVE  IsFiniteSet(Holders(res, e)) /\ Cardinality(Holders(res, e)) \in Nat
<1>1. IsFiniteSet(Clients)
  BY CacheAssumption DEF CacheAssumption
<1>2. IsFiniteSet(Holders(res, e))
  BY <1>1, FS_Subset DEF Holders
<1> QED BY <1>2, FS_CardinalityType

LEMMA ExtTyped ==
  ASSUME NEW res, NEW s \in [Item -> Seq(Again)]
  PROVE  Ext(res, s) \in [Item -> Nat]
<1>1. \A e \in Item : Len(s[e]) \in Nat
  OBVIOUS
<1> QED BY <1>1, HoldersFacts DEF Ext

Given(res, c, e) == [res EXCEPT ![c] = e]

\* A client gets an entry.
LEMMA HolderMore ==
  ASSUME NEW res \in [Clients -> MaybeItem], NEW s \in [Item -> Seq(Again)],
         NEW c \in Clients, res[c] = NULL, NEW e \in Item
  PROVE  Ext(Given(res, c, e), s) = More(Ext(res, s), e)
<1> DEFINE new == Given(res, c, e)
<1>1. new \in [Clients -> MaybeItem] /\ new[c] = e
      /\ \A x \in Clients : x # c => new[x] = res[x]
  BY DEF MaybeItem, Given
<1> HIDE DEF new
<1>2. e # NULL
  BY ItemFacts
<1>3. Cardinality(Holders(new, e)) = Cardinality(Holders(res, e)) + 1
  <2>1. Holders(new, e) = Holders(res, e) \cup {c} /\ c \notin Holders(res, e)
    BY <1>1, <1>2 DEF Holders
  <2> QED BY <2>1, HoldersFacts, FS_AddElement
<1>4. \A x \in Item : x # e => Holders(new, x) = Holders(res, x)
  <2> SUFFICES ASSUME NEW x \in Item, x # e PROVE Holders(new, x) = Holders(res, x)
    OBVIOUS
  <2>1. x # NULL
    BY ItemFacts
  <2> QED BY <1>1, <2>1 DEF Holders
<1>5. ASSUME NEW x \in Item
      PROVE  Ext(new, s)[x] = IF x = e THEN Ext(res, s)[x] + 1 ELSE Ext(res, s)[x]
  <2>1. Cardinality(Holders(res, x)) \in Nat /\ Len(s[x]) \in Nat
    BY HoldersFacts
  <2>2. /\ Ext(new, s)[x] = Cardinality(Holders(new, x)) + Len(s[x])
        /\ Ext(res, s)[x] = Cardinality(Holders(res, x)) + Len(s[x])
    BY DEF Ext
  <2> QED BY <2>1, <2>2, <1>3, <1>4
<1>6. Ext(new, s) = [x \in Item |-> Ext(new, s)[x]]
  BY DEF Ext
<1>7. More(Ext(res, s), e) =
        [x \in Item |-> IF x = e THEN Ext(res, s)[x] + 1 ELSE Ext(res, s)[x]]
  BY DEF More, Ext
<1> QED BY <1>5, <1>6, <1>7 DEF new

\* A client gives it back.
LEMMA HolderLess ==
  ASSUME NEW res \in [Clients -> MaybeItem], NEW s \in [Item -> Seq(Again)],
         NEW c \in Clients, NEW e \in Item, res[c] = e
  PROVE  /\ Ext(res, s)[e] >= 1
         /\ Ext(Given(res, c, NULL), s) = Less(Ext(res, s), e)
<1> DEFINE new == Given(res, c, NULL)
<1>1. new \in [Clients -> MaybeItem] /\ new[c] = NULL /\ Given(new, c, e) = res
  BY DEF MaybeItem, Given
<1> HIDE DEF new
<1>2. Ext(res, s) = More(Ext(new, s), e)
  <2>1. new \in [Clients -> MaybeItem] /\ new[c] = NULL
    BY <1>1
  <2>2. Ext(Given(new, c, e), s) = More(Ext(new, s), e)
    BY <2>1, HolderMore
  <2> QED BY <1>1, <2>2
<1>3. Ext(new, s) \in [Item -> Nat]
  BY ExtTyped
<1>4. More(Ext(new, s), e)[e] >= 1 /\ Less(More(Ext(new, s), e), e) = Ext(new, s)
  BY <1>3, MoreLess
<1> QED BY <1>2, <1>4 DEF new

Searching(s, e, a) == [s EXCEPT ![e] = Append(@, a)]
Searched(s, e) == [s EXCEPT ![e] = Tail(@)]

\* A second search begins, or ends.
LEMMA SearchMore ==
  ASSUME NEW res, NEW s \in [Item -> Seq(Again)], NEW e \in Item, NEW a \in Again
  PROVE  Ext(res, Searching(s, e, a)) = More(Ext(res, s), e)
<1> DEFINE new == Searching(s, e, a)
<1>1. \A x \in Item : s[x] \in Seq(Again) /\ Len(s[x]) \in Nat
  OBVIOUS
<1>2. \A x \in Item : Len(new[x]) = IF x = e THEN Len(s[x]) + 1 ELSE Len(s[x])
  BY <1>1 DEF Searching
<1> HIDE DEF new
<1>3. ASSUME NEW x \in Item
      PROVE  Ext(res, new)[x] = IF x = e THEN Ext(res, s)[x] + 1 ELSE Ext(res, s)[x]
  <2>1. Cardinality(Holders(res, x)) \in Nat /\ Len(s[x]) \in Nat
    BY <1>1, HoldersFacts
  <2>2. /\ Ext(res, new)[x] = Cardinality(Holders(res, x)) + Len(new[x])
        /\ Ext(res, s)[x] = Cardinality(Holders(res, x)) + Len(s[x])
    BY DEF Ext
  <2> QED BY <2>1, <2>2, <1>2
<1>4. Ext(res, new) = [x \in Item |-> Ext(res, new)[x]]
  BY DEF Ext
<1>5. More(Ext(res, s), e) =
        [x \in Item |-> IF x = e THEN Ext(res, s)[x] + 1 ELSE Ext(res, s)[x]]
  BY DEF More, Ext
<1> QED BY <1>3, <1>4, <1>5 DEF new

LEMMA SearchLess ==
  ASSUME NEW res, NEW s \in [Item -> Seq(Again)], NEW e \in Item, s[e] # << >>
  PROVE  /\ Ext(res, s)[e] >= 1
         /\ Searched(s, e) \in [Item -> Seq(Again)]
         /\ Head(s[e]) \in Again
         /\ Ext(res, Searched(s, e)) = Less(Ext(res, s), e)
<1> DEFINE new == Searched(s, e)
<1>1. \A x \in Item : s[x] \in Seq(Again) /\ Len(s[x]) \in Nat
  OBVIOUS
<1>2. Tail(s[e]) \in Seq(Again) /\ Head(s[e]) \in Again /\ Len(s[e]) >= 1
      /\ Len(Tail(s[e])) = Len(s[e]) - 1
  BY <1>1
<1>3. new \in [Item -> Seq(Again)]
  BY <1>2 DEF Searched
<1>4. \A x \in Item : Len(new[x]) = IF x = e THEN Len(s[x]) - 1 ELSE Len(s[x])
  BY <1>2 DEF Searched
<1> HIDE DEF new
<1>5. ASSUME NEW x \in Item
      PROVE  /\ Ext(res, new)[x] = IF x = e THEN Ext(res, s)[x] - 1 ELSE Ext(res, s)[x]
             /\ x = e => Ext(res, s)[x] >= 1
  <2>1. Cardinality(Holders(res, x)) \in Nat /\ Len(s[x]) \in Nat
    BY <1>1, HoldersFacts
  <2>2. /\ Ext(res, new)[x] = Cardinality(Holders(res, x)) + Len(new[x])
        /\ Ext(res, s)[x] = Cardinality(Holders(res, x)) + Len(s[x])
    BY DEF Ext
  <2> QED BY <2>1, <2>2, <1>2, <1>4
<1>6. Ext(res, new) = [x \in Item |-> Ext(res, new)[x]]
  BY DEF Ext
<1>7. Less(Ext(res, s), e) =
        [x \in Item |-> IF x = e THEN Ext(res, s)[x] - 1 ELSE Ext(res, s)[x]]
  BY DEF Less, Ext
<1> QED BY <1>2, <1>3, <1>5, <1>6, <1>7 DEF new

LEMMA ListedIsL ==
  ASSUME NEW rest, NEW ext, NEW L, NEW K, Whole(cache, rest, ext, L, K)
  PROVE  Listed = L /\ K = Chain(cache, rest)
<1>1. Linked(cache.head, cache.tail, cache.fLink, cache.fBackLink, rest, L, K)
  BY DEF Whole
<1>2. Listed = L /\ K = Chain(cache, rest)
  BY <1>1, LinkedMeans DEF Listed
<1> QED BY <1>2

LEMMA ClientNames == Free \notin Clients /\ "reset" \notin Clients /\ Free # "reset"
  BY CacheAssumption DEF CacheAssumption, Free

LEMMA InitIsWhole == Init => IInv
<1> SUFFICES ASSUME Init PROVE IInv
  OBVIOUS
<1> DEFINE h0 == [h \in Hash |-> {}]
           l0 == [e \in Item |-> NULL]
           a0 == [e \in Item |-> NoAttr]
           r0 == [e \in Item |-> 0]
           ext == Ext(result, searches)
<1>1. cache = [hash |-> h0, head |-> NULL, tail |-> NULL, fLink |-> l0, fBackLink |-> l0,
               attr |-> a0, retain |-> r0]
  BY DEF Init
<1>2. /\ searches = [e \in Item |-> << >>] /\ result = [c \in Clients |-> NULL]
      /\ resetting = NULL /\ gLookupQueue = Free /\ pc = [c \in Clients |-> "idle"]
      /\ lookup = [c \in Clients |-> NoLookup]
  BY DEF Init
<1>3. ControlOK
  BY <1>2, ClientNames DEF ControlOK, MaybeItem
<1>4. ASSUME NEW e \in Item PROVE ext[e] = 0
  <2>1. e # NULL
    BY ItemFacts
  <2>2. Holders(result, e) = {}
    BY <1>2, <2>1 DEF Holders
  <2>3. Cardinality(Holders(result, e)) = 0
    BY <2>2, FS_EmptySet
  <2>4. Len(searches[e]) = 0
    BY <1>2
  <2> QED BY <2>3, <2>4 DEF Ext
<1>5. ext \in [Item -> Nat]
  BY <1>4 DEF Ext
<1>6. /\ h0 \in [Hash -> SUBSET Item] /\ l0 \in [Item -> MaybeItem] /\ r0 \in [Item -> Nat]
      /\ \A h \in Hash : h0[h] = {}
      /\ \A e \in Item : r0[e] = 0
  BY DEF MaybeItem
<1>7. IsAttrs(a0)
  BY NoAttrIsAttr DEF IsAttrs
<1> HIDE DEF h0, l0, a0, r0, ext
<1>8. /\ cache.hash = h0 /\ cache.head = NULL /\ cache.tail = NULL /\ cache.fLink = l0
      /\ cache.fBackLink = l0 /\ cache.attr = a0 /\ cache.retain = r0
  BY <1>1
<1>9. IsCache(cache)
  BY <1>1, <1>6, <1>8 DEF IsCache
<1>10. Linked(cache.head, cache.tail, cache.fLink, cache.fBackLink, resetting, {}, {})
  BY <1>2, <1>8, NothingLinked
<1>11. Counted(cache, ext, {} \cup {})
  <2>1. \A e \in Item : HashesOf(cache.hash, e) = 0
    BY <1>6, <1>8, HashesTyped
  <2> QED BY <1>4, <1>6, <1>8, <2>1 DEF Counted, OneIf
<1>12. Whole(cache, resetting, ext, {}, {})
  BY <1>5, <1>9, <1>10, <1>11 DEF Whole
<1>13. Sound(cache, {})
  BY <1>6, <1>7, <1>8 DEF Keyed, HashedIn, Sound
<1> QED BY <1>3, <1>12, <1>13 DEF IInv, ext

LEMMA StutterKeepsWhole == IInv /\ UNCHANGED vars => IInv'
<1> SUFFICES ASSUME IInv, UNCHANGED vars PROVE IInv'
  OBVIOUS
<1>1. PICK L, K : Whole(cache, resetting, Ext(result, searches), L, K) /\ Sound(cache, L)
  BY DEF IInv
<1>2. /\ cache' = cache /\ resetting' = resetting /\ result' = result /\ searches' = searches
      /\ gLookupQueue' = gLookupQueue /\ pc' = pc /\ lookup' = lookup
  BY DEF vars
<1>3. ControlOK'
  BY <1>2 DEF IInv, ControlOK
<1>4. Whole(cache', resetting', Ext(result', searches'), L, K)
  BY <1>1, <1>2
<1>5. Sound(cache', L)
  BY <1>1, <1>2
<1> QED BY <1>3, <1>4, <1>5 DEF IInv

LEMMA MissKeepsWhole ==
  ASSUME IInv, NEW c \in Clients, NEW l \in Lookups, Miss(c, l)
  PROVE  IInv'
<1>1. PICK L, K : Whole(cache, resetting, Ext(result, searches), L, K) /\ Sound(cache, L)
  BY DEF IInv
<1>2. /\ cache' = cache /\ resetting' = resetting /\ result' = result /\ searches' = searches
      /\ gLookupQueue' = c /\ gLookupQueue = Free /\ pc[c] = "idle"
      /\ pc' = [pc EXCEPT ![c] = "find"] /\ lookup' = [lookup EXCEPT ![c] = l]
  BY DEF Miss, Begin
<1>3. ControlOK'
  BY <1>2, ClientNames DEF IInv, ControlOK
<1>4. Whole(cache', resetting', Ext(result', searches'), L, K)
  BY <1>1, <1>2
<1>5. Sound(cache', L)
  BY <1>1, <1>2
<1> QED BY <1>3, <1>4, <1>5 DEF IInv

LEMMA SameHashesAreSound ==
  ASSUME NEW c, NEW L, Sound(c, L), NEW d, d.hash = c.hash, Keyed(d)
  PROVE  Sound(d, L)
  BY DEF Sound, HashedIn

\* Attributes of an entry whose keys stay.
LEMMA SameKeysKeepKeyed ==
  ASSUME NEW c, Keyed(c), NEW x \in Item, NEW v, NEW changed, changed \notin Field,
         KeepsKeys(c.attr[x], v, changed),
         NEW d, d.hash = c.hash, d.attr = [c.attr EXCEPT ![x] = v]
  PROVE  Keyed(d)
<1>1. c.attr = [i \in Item |-> c.attr[i]] /\ \A i \in Item : IsAttr(c.attr[i])
  BY DEF Keyed, IsAttrs
<1>2. d.attr = [i \in Item |-> d.attr[i]]
      /\ \A i \in Item : d.attr[i] = IF i = x THEN v ELSE c.attr[i]
  BY <1>1
<1>3. IsAttrs(d.attr)
  BY <1>1, <1>2 DEF IsAttrs, KeepsKeys
<1>4. \A h \in Hash : \A i \in c.hash[h] :
         d.attr[i][h.field] = c.attr[i][h.field] /\ d.attr[i].types = c.attr[i].types
  <2> SUFFICES ASSUME NEW h \in Hash, NEW i \in c.hash[h]
               PROVE  /\ d.attr[i][h.field] = c.attr[i][h.field]
                      /\ d.attr[i].types = c.attr[i].types
    OBVIOUS
  <2>1. i \in Item
    BY DEF Keyed
  <2>2. h.field \in Field \ {changed}
    BY HashFields
  <2> QED BY <1>2, <2>1, <2>2 DEF KeepsKeys
<1> QED BY <1>3, <1>4, AttrKeepsKeyed

LEMMA HitKeepsWhole ==
  ASSUME IInv, NEW c \in Clients, NEW l \in Lookups, NEW e \in Item, Hit(c, l, e)
  PROVE  IInv'
<1> DEFINE ext == Ext(result, searches)
           a == cache.attr[e]
           spares == (l.field \in a.foundBy /\ ~a.negative) \/ l.field = "sid"
           again == [lookup |-> l, noNegative |-> spares]
<1>1. PICK L, K : Whole(cache, resetting, ext, L, K) /\ Sound(cache, L)
  BY DEF IInv
<1>2. /\ resetting' = resetting /\ result' = Given(result, c, e)
      /\ gLookupQueue' = c /\ gLookupQueue = Free /\ pc[c] = "idle"
      /\ pc' = [pc EXCEPT ![c] = "answer"] /\ lookup' = [lookup EXCEPT ![c] = l]
  BY DEF Hit, Begin, Given
<1>3. result \in [Clients -> MaybeItem] /\ searches \in [Item -> Seq(Again)]
      /\ result[c] = NULL
  BY <1>2 DEF IInv, ControlOK
<1>4. again \in Again
  BY DEF Again
<1> DEFINE more == Searching(searches, e, again)
<1>5. more \in [Item -> Seq(Again)] /\ Ext(result, more) = More(ext, e)
  <2> HIDE DEF again, spares
  <2>1. more \in [Item -> Seq(Again)]
    BY <1>3, <1>4 DEF Searching
  <2> QED BY <1>3, <1>4, <2>1, SearchMore
<1>6. e # NULL /\ e \in MaybeItem
  BY ItemFacts DEF MaybeItem
<1>7. searches' \in [Item -> Seq(Again)] => ControlOK'
  BY <1>2, <1>6, ClientNames DEF IInv, ControlOK, Given
<1>8. CASE l.field \in a.scheduled
  <2>1. cache' = Retain(cache, e) /\ searches' = searches
    BY <1>8 DEF Hit
  <2>2. Whole(cache', resetting, More(ext, e), L, K)
        /\ cache'.hash = cache.hash /\ cache'.attr = cache.attr
    BY <1>1, <2>1, RetainKeepsWhole
  <2>3. Ext(result', searches') = More(ext, e)
    BY <1>2, <1>3, <2>1, HolderMore
  <2>4. Sound(cache', L)
    BY <1>1, <2>2 DEF Sound, Keyed, HashedIn
  <2> QED BY <1>2, <1>3, <1>7, <2>1, <2>2, <2>3, <2>4 DEF IInv
<1>9. CASE l.field \notin a.scheduled
  <2> DEFINE S == a.scheduled \cup {l.field}
             v == [a EXCEPT !.scheduled = S]
             attr == [cache.attr EXCEPT ![e] = v]
             b == Retain(Retain(cache, e), e)
  <2>1. /\ searches' = more
        /\ cache' = [cache EXCEPT !.attr[e].scheduled = @ \cup {l.field}, !.retain[e] = @ + 2]
    BY <1>9 DEF Hit, Searching
  <2>2. Whole(Retain(cache, e), resetting, More(ext, e), L, K)
        /\ Retain(cache, e).hash = cache.hash /\ Retain(cache, e).attr = cache.attr
    BY <1>1, RetainKeepsWhole
  <2>3. Whole(b, resetting, More(More(ext, e), e), L, K)
        /\ b.hash = cache.hash /\ b.attr = cache.attr
    BY <2>2, RetainKeepsWhole
  <2>4. cache' = [b EXCEPT !.attr = attr]
    <3> DEFINE two == [cache.retain EXCEPT ![e] = @ + 2]
               one == [cache.retain EXCEPT ![e] = @ + 1]
    <3>1. cache.retain \in [Item -> Nat]
      BY <1>1 DEF Whole, IsCache
    <3>2. two = [one EXCEPT ![e] = @ + 1]
      BY <3>1
    <3>3. cache' = [cache EXCEPT !.attr = attr, !.retain = two]
      BY <2>1
    <3>4. Retain(cache, e) = [cache EXCEPT !.retain = one]
      BY DEF Retain
    <3> HIDE DEF attr, one, two
    <3>5. Retain(cache, e).retain = one
      BY <3>4, <1>1 DEF Whole, IsCache
    <3>6. b = [Retain(cache, e) EXCEPT !.retain = two]
      BY <3>2, <3>5 DEF Retain
    <3>7. b = [cache EXCEPT !.retain = two]
      <4> HIDE DEF b
      <4> QED BY <3>4, <3>6, <1>1 DEF Whole, IsCache
    <3> HIDE DEF b
    <3> QED BY <3>3, <3>7, <1>1 DEF Whole, IsCache
  <2>5. /\ Whole(cache', resetting, More(More(ext, e), e), L, K)
        /\ cache'.hash = cache.hash /\ cache'.attr = attr
    <3> HIDE DEF b, attr
    <3> QED BY <2>3, <2>4, AttrKeepsWhole
  <2>6. Ext(result', searches') = More(More(ext, e), e)
    <3> HIDE DEF again, spares, more, ext
    <3>1. Ext(Given(result, c, e), more) = More(Ext(result, more), e)
      BY <1>3, <1>5, HolderMore
    <3> QED BY <1>2, <1>5, <2>1, <3>1
  <2>7. Sound(cache', L)
    <3>1. Keyed(cache)
      BY <1>1 DEF Sound
    <3>2. IsAttr(a)
      BY <3>1 DEF Keyed, IsAttrs
    <3>3. KeepsKeys(a, v, "scheduled") /\ "scheduled" \notin Field
      <4> HIDE DEF a, S
      <4> QED BY <3>2, OneFieldKeepsKeys DEF Field
    <3> HIDE DEF v
    <3>4. Keyed(cache')
      BY <2>5, <3>1, <3>3, SameKeysKeepKeyed
    <3> QED BY <1>1, <2>5, <3>4, SameHashesAreSound
  <2> HIDE DEF more, ext
  <2> QED BY <1>2, <1>5, <1>7, <2>1, <2>5, <2>6, <2>7 DEF IInv
<1> QED BY <1>8, <1>9

\* What a search finds has no principal.
LEMMA PositiveIsAttr ==
  ASSUME NoPrincipals, NEW l, NEW r \in Records
  PROVE  IsAttr(Positive(l, r))
<1> DEFINE a == [f \in DOMAIN NoAttr |-> IF f \in DOMAIN r THEN r[f] ELSE NoAttr[f]]
           temp == l.kernel /\ r.types # {"computer group"} /\ r.id = None /\ r.guid # None
           F == {l.field} \cup (IF temp THEN {"id"} ELSE {})
           I == IF temp THEN TempID(r.guid) ELSE a.id
           p == [a EXCEPT !.foundBy = F]
           q == [p EXCEPT !.id = I]
<1>1. DOMAIN NoAttr = {"types", "guid", "sid", "id", "name", "kerberos", "node",
                       "negative", "foundBy", "scheduled", "available"}
  BY DEF NoAttr
<1>2. NoAttr.kerberos = None
  BY DEF NoAttr
<1>3. a.kerberos = None
  <2>1. a.kerberos = IF "kerberos" \in DOMAIN r THEN r["kerberos"] ELSE NoAttr["kerberos"]
    BY <1>1
  <2>2. CASE "kerberos" \in DOMAIN r
    BY <2>1, <2>2 DEF NoPrincipals
  <2>3. CASE "kerberos" \notin DOMAIN r
    BY <1>2, <2>1, <2>3
  <2> QED BY <2>2, <2>3
<1>4. a = [f \in DOMAIN NoAttr |-> a[f]]
  OBVIOUS
<1>5. Positive(l, r) = [a EXCEPT !.foundBy = F, !.id = IF temp THEN TempID(r.guid) ELSE @]
  BY DEF Positive
<1> HIDE DEF a
<1>6. a = [types |-> a.types, guid |-> a.guid, sid |-> a.sid, id |-> a.id,
           name |-> a.name, kerberos |-> a.kerberos, node |-> a.node,
           negative |-> a.negative, foundBy |-> a.foundBy, scheduled |-> a.scheduled,
           available |-> a.available]
  BY <1>1, <1>4
<1>7. IsAttr(a)
  BY <1>3, <1>6 DEF IsAttr
<1>8. Positive(l, r) = q
  <2> HIDE DEF F, temp
  <2> QED BY <1>5, <1>6
<1> HIDE DEF F, I
<1>9. IsAttr(p)
  BY <1>7, OneFieldKeepsKeys DEF KeepsKeys
<1> HIDE DEF p
<1>10. IsAttr(q)
  BY <1>9, OneFieldKeepsKeys DEF KeepsKeys
<1> QED BY <1>8, <1>10

LEMMA TypesKeepAttr ==
  ASSUME NEW b, IsAttr(b), NEW v
  PROVE  IsAttr([b EXCEPT !.types = v])
  BY DEF IsAttr

LEMMA KeyKeepsAttr ==
  ASSUME NEW b, IsAttr(b), NEW v, NEW f \in Field \ {"kerberos"}
  PROVE  IsAttr([b EXCEPT ![f] = v])
<1>1. IsAttr([b EXCEPT !.guid = v])
  BY DEF IsAttr
<1>2. IsAttr([b EXCEPT !.sid = v])
  BY DEF IsAttr
<1>3. IsAttr([b EXCEPT !.id = v])
  BY DEF IsAttr
<1>4. IsAttr([b EXCEPT !.name = v])
  BY DEF IsAttr
<1>5. f \in {"guid", "sid", "id", "name"}
  BY DEF Field
<1> QED BY <1>1, <1>2, <1>3, <1>4, <1>5

LEMMA NegativeIsAttr ==
  ASSUME NEW l, l.field \in Field \ {"kerberos"}
  PROVE  IsAttr(Negative(l))
<1> DEFINE temp == l.kernel /\ l.field \in {"guid", "sid"}
           F == {l.field} \cup (IF temp THEN {"id"} ELSE {})
           I == IF temp THEN TempID(l.value)
                ELSE IF l.field = "id" THEN l.value ELSE None
           a1 == [NoAttr EXCEPT !.types = l.types]
           a2 == [a1 EXCEPT ![l.field] = l.value]
           a3 == [a2 EXCEPT !.negative = TRUE]
           a4 == [a3 EXCEPT !.foundBy = F]
           a5 == [a4 EXCEPT !.id = I]
<1>1. Negative(l) = a5
  <2>1. Negative(l) = [NoAttr EXCEPT !.types = l.types, ![l.field] = l.value,
                                     !.negative = TRUE, !.foundBy = F, !.id = I]
    BY DEF Negative
  <2> HIDE DEF F, I
  <2> QED BY <2>1
<1> HIDE DEF F, I
<1>2. IsAttr(a1)
  BY NoAttrIsAttr, TypesKeepAttr
<1> HIDE DEF a1
<1>3. IsAttr(a2)
  BY <1>2, KeyKeepsAttr
<1> HIDE DEF a2
<1>4. IsAttr(a3)
  BY <1>3, OneFieldKeepsKeys DEF KeepsKeys
<1> HIDE DEF a3
<1>5. IsAttr(a4)
  BY <1>4, OneFieldKeepsKeys DEF KeepsKeys
<1> HIDE DEF a4
<1>6. IsAttr(a5)
  BY <1>5, OneFieldKeepsKeys DEF KeepsKeys
<1> QED BY <1>1, <1>6

LEMMA OutcomeIsAttr ==
  ASSUME NoPrincipals, NEW l \in Lookups \cup {NoLookup}, NEW a \in Outcomes(l)
  PROVE  IsAttr(a)
<1>1. l.field \in Field \ {"kerberos"}
  <2>1. CASE l \in Lookups
    BY <2>1, CacheAssumption DEF CacheAssumption, NoPrincipals
  <2>2. CASE l = NoLookup
    BY <2>2 DEF NoLookup, Field
  <2> QED BY <2>1, <2>2
<1>2. CASE a = Negative(l)
  BY <1>1, <1>2, NegativeIsAttr
<1>3. CASE \E r \in Records : a = Positive(l, r)
  BY <1>3, PositiveIsAttr
<1> QED BY <1>2, <1>3 DEF Outcomes, Matching

LEMMA FindKeepsWhole ==
  ASSUME IInv, NoPrincipals, NEW c \in Clients, Find(c)
  PROVE  IInv'
<1> DEFINE ext == Ext(result, searches)
<1>1. PICK L, K : Whole(cache, resetting, ext, L, K) /\ Sound(cache, L)
  BY DEF IInv
<1>2. PICK e \in Item, a \in Outcomes(lookup[c]) :
        /\ LeastUnused(e)
        /\ LET u == AddOrUpdate(cache, e, a)
           IN cache' = u.cache /\ result' = [result EXCEPT ![c] = u.entry]
  BY DEF Find
<1> DEFINE u == AddOrUpdate(cache, e, a)
<1>3. /\ cache' = u.cache /\ result' = Given(result, c, u.entry)
      /\ pc[c] = "find" /\ pc' = [pc EXCEPT ![c] = "answer"]
      /\ UNCHANGED <<gLookupQueue, searches, resetting, lookup>>
  BY <1>2 DEF Find, Given
<1>4. HashedIn(cache) \subseteq L /\ Keyed(cache)
  BY <1>1 DEF Sound
<1>5. e \in Unused(cache)
  BY <1>2 DEF LeastUnused
<1>6. \E M : /\ u.entry \in Item /\ Whole(u.cache, resetting, More(ext, u.entry), M, K)
             /\ IsAttr(a) => Sound(u.cache, M)
  <2> HIDE DEF ext
  <2> QED BY <1>1, <1>4, <1>5, AddOrUpdateKeepsWhole
<1> HIDE DEF u
<1>7. PICK M : /\ u.entry \in Item /\ Whole(u.cache, resetting, More(ext, u.entry), M, K)
               /\ IsAttr(a) => Sound(u.cache, M)
  BY <1>6
<1>8. result \in [Clients -> MaybeItem] /\ searches \in [Item -> Seq(Again)]
      /\ result[c] = NULL
  BY <1>3 DEF IInv, ControlOK
<1>9. Ext(result', searches') = More(ext, u.entry)
  BY <1>3, <1>7, <1>8, HolderMore
<1>10. u.entry # NULL /\ u.entry \in MaybeItem
  BY <1>7, ItemFacts DEF MaybeItem
<1>11. ControlOK'
  BY <1>3, <1>10 DEF IInv, ControlOK, Given
<1>12. Sound(cache', M)
  <2>1. lookup[c] \in Lookups \cup {NoLookup}
    BY DEF IInv, ControlOK
  <2>2. IsAttr(a)
    BY <2>1, OutcomeIsAttr
  <2> QED BY <1>3, <1>7, <2>2
<1> HIDE DEF ext
<1> QED BY <1>3, <1>7, <1>9, <1>11, <1>12 DEF IInv

LEMMA DoneKeepsWhole ==
  ASSUME IInv, NEW c \in Clients, NEW e, e = result[c], e # NULL,
         pc[c] \in {"answer", "answered"},
         cache' = Release(cache, e), result' = Given(result, c, NULL),
         pc' = [pc EXCEPT ![c] = "idle"],
         UNCHANGED <<searches, resetting, lookup>>,
         gLookupQueue' = gLookupQueue \/ (gLookupQueue = c /\ gLookupQueue' = Free)
  PROVE  IInv'
<1> DEFINE ext == Ext(result, searches)
<1>1. PICK L, K : Whole(cache, resetting, ext, L, K) /\ Sound(cache, L)
  BY DEF IInv
<1>2. result \in [Clients -> MaybeItem] /\ searches \in [Item -> Seq(Again)] /\ e \in Item
  BY DEF IInv, ControlOK, MaybeItem
<1>3. ext[e] >= 1 /\ Ext(Given(result, c, NULL), searches) = Less(ext, e)
  BY <1>2, HolderLess
<1>4. /\ Whole(cache', resetting, Less(ext, e), L, K)
      /\ Sound(cache', L)
  <2> HIDE DEF ext
  <2> QED BY <1>1, <1>2, <1>3, ReleaseKeepsBoth
<1>5. Ext(result', searches') = Less(ext, e)
  BY <1>3
<1>6. ControlOK'
  BY ClientNames DEF IInv, ControlOK, Given, MaybeItem
<1> HIDE DEF ext
<1> QED BY <1>4, <1>5, <1>6 DEF IInv

\* A temporary ID for an entry that has none.
LEMMA RefreshKeepsWhole ==
  ASSUME NEW c, NEW rest, NEW ext, NEW L, NEW K, Whole(c, rest, ext, L, K),
         NEW e \in Item, c.attr[e].id = None, NEW id
  PROVE  LET d == RefreshHashes([c EXCEPT !.attr[e].id = id], e)
         IN /\ Whole(d, rest, ext, L, K)
            /\ Keyed(c) => Keyed(d) /\ (c.attr[e].negative => Loyal(c, d, L))
            /\ Sound(c, L) /\ e \in L => Sound(d, L)
<1> DEFINE v == [c.attr[e] EXCEPT !.id = id]
           attr == [c.attr EXCEPT ![e] = v]
           b == [c EXCEPT !.attr[e].id = id]
           f == RemoveFromHashes(b, e)
           d == AddToHashes(f, e)
<1>1. b = [c EXCEPT !.attr = attr]
  OBVIOUS
<1>2. RefreshHashes(b, e) = d
  BY DEF RefreshHashes
<1> HIDE DEF v, b
<1>3. Whole(b, rest, ext, L, K) /\ b.hash = c.hash /\ b.attr = attr
  <2> HIDE DEF attr
  <2> QED BY <1>1, AttrKeepsWhole
<1>4. ASSUME Keyed(c) PROVE Keyed(b)
  <2>1. c.attr = [i \in Item |-> c.attr[i]] /\ \A i \in Item : IsAttr(c.attr[i])
    BY <1>4 DEF Keyed, IsAttrs
  <2>2. KeepsKeys(c.attr[e], v, "id")
    BY <2>1, OneFieldKeepsKeys DEF v
  <2>3. attr = [i \in Item |-> attr[i]]
        /\ \A i \in Item : attr[i] = IF i = e THEN v ELSE c.attr[i]
    BY <2>1
  <2> HIDE DEF attr
  <2>4. IsAttrs(attr)
    BY <2>1, <2>2, <2>3 DEF IsAttrs, KeepsKeys
  <2>5. \A h \in Hash : \A i \in c.hash[h] :
           attr[i][h.field] = c.attr[i][h.field] /\ attr[i].types = c.attr[i].types
    <3> SUFFICES ASSUME NEW h \in Hash, NEW i \in c.hash[h]
                 PROVE  /\ attr[i][h.field] = c.attr[i][h.field]
                        /\ attr[i].types = c.attr[i].types
      OBVIOUS
    <3>1. i \in Item /\ BelongsIn(h, c.attr[i])
      BY <1>4 DEF Keyed
    <3>2. CASE i # e
      BY <2>3, <3>1, <3>2
    <3>3. CASE i = e
      <4>1. h.field # "id"
        BY <3>1, <3>3 DEF BelongsIn
      <4>2. h.field \in Field \ {"id"}
        BY <4>1, HashFields
      <4> QED BY <2>2, <2>3, <3>1, <3>3, <4>2 DEF KeepsKeys
    <3> QED BY <3>2, <3>3
  <2> QED BY <1>3, <1>4, <2>4, <2>5, AttrKeepsKeyed
<1> HIDE DEF attr
<1>5. Whole(f, rest, ext, L, K) /\ f.hash = Removed(b, e) /\ f.attr = b.attr
  BY <1>3, RemoveFromHashesKeepsWhole
<1> HIDE DEF f
<1>6. Keyed(b) => Keyed(f)
  BY <1>5, RemovedIsKeyed
<1>7. Whole(d, rest, ext, L, K) /\ d.hash = Added(f, e) /\ d.attr = f.attr
  BY <1>5, AddToHashesKeepsWhole
<1> HIDE DEF d
<1>8. Keyed(f) => Keyed(d)
  BY <1>7, AddedIsKeyed
<1>9. ASSUME Keyed(c), c.attr[e].negative PROVE Loyal(c, d, L)
  <2>1. c.attr = [i \in Item |-> c.attr[i]] /\ c.hash \in [Hash -> SUBSET Item]
        /\ IsAttr(c.attr[e])
    BY <1>9 DEF Keyed, IsAttrs
  <2>2. v.negative
    BY <1>9, <2>1 DEF v, IsAttr
  <2>3. \A i \in Item : d.attr[i] = IF i = e THEN v ELSE c.attr[i]
    BY <1>3, <1>5, <1>7, <2>1 DEF attr
  <2>4. Loyal(f, d, L)
    BY <1>7, AddedIsLoyal
  <2>5. \A h \in Hash : Stays(c, d, L, h, e)
    BY <2>2, <2>3 DEF Stays
  <2>6. ASSUME NEW h \in Hash, NEW x \in c.hash[h], x # e
        PROVE  x \in f.hash[h] /\ f.attr[x] = c.attr[x]
    <3>1. x \in Item
      BY <2>1
    <3>2. x \in f.hash[h]
      BY <1>3, <1>5, <2>6 DEF Removed
    <3> QED BY <1>7, <2>3, <2>6, <3>1, <3>2
  <2>7. \A h \in Hash : \A x \in c.hash[h] : x # e =>
            /\ x \in f.hash[h]
            /\ f.attr[x][h.field] = c.attr[x][h.field]
            /\ f.attr[x].foundBy = c.attr[x].foundBy
    BY <2>6
  <2> QED BY <2>4, <2>5, <2>7, LoyalBut
<1>10. ASSUME Sound(c, L), e \in L PROVE Sound(d, L)
  <2>1. Keyed(b) /\ Keyed(f) /\ Keyed(d)
    BY <1>4, <1>6, <1>8, <1>10 DEF Sound
  <2>2. \A h \in Hash : e \notin f.hash[h]
    BY <1>5, <2>1, RemovedIsKeyed
  <2>3. HashedIn(f) \subseteq HashedIn(b) \ {e}
    BY <1>5, <2>2, RemovedIn
  <2>4. HashedIn(d) \subseteq HashedIn(f) \cup {e}
    BY <1>7, AddedIn
  <2>5. HashedIn(b) = HashedIn(c)
    BY <1>3 DEF HashedIn
  <2> QED BY <1>10, <2>1, <2>3, <2>4, <2>5 DEF Sound
<1> QED BY <1>2, <1>4, <1>6, <1>7, <1>8, <1>9, <1>10 DEF b

LEMMA GiveAnswerKeepsWhole ==
  ASSUME IInv, NEW c \in Clients, GiveAnswer(c), ~strayed'
  PROVE  IInv'
<1> DEFINE ext == Ext(result, searches)
           e == result[c]
           a == cache.attr[e]
           key == IF a.guid # None THEN a.guid ELSE a.sid
           refreshed == a.negative /\ lookup[c].kernel /\ a.id = None
<1>1. PICK L, K : Whole(cache, resetting, ext, L, K) /\ Sound(cache, L)
  BY DEF IInv
<1>2. /\ pc[c] = "answer" /\ gLookupQueue = c /\ gLookupQueue' = Free /\ e \in Item
      /\ e # NULL /\ UNCHANGED <<searches, resetting, lookup>>
  <2>1. pc[c] = "answer" /\ gLookupQueue' = Free
        /\ UNCHANGED <<searches, resetting, lookup>>
    BY DEF GiveAnswer
  <2> QED BY <2>1 DEF IInv, ControlOK, MaybeItem
<1>3. CASE a.negative /\ ~lookup[c].kernel
  <2>1. /\ cache' = Release(cache, e) /\ result' = Given(result, c, NULL)
        /\ pc' = [pc EXCEPT ![c] = "idle"]
    BY <1>3 DEF GiveAnswer, Given
  <2> QED BY <1>2, <2>1, DoneKeepsWhole
<1>4. CASE ~(a.negative /\ ~lookup[c].kernel)
  <2>1. /\ cache' = IF refreshed
                      THEN RefreshHashes([cache EXCEPT !.attr[e].id = TempID(key)], e)
                      ELSE cache
        /\ pc' = [pc EXCEPT ![c] = "answered"] /\ result' = result
    BY <1>4 DEF GiveAnswer
  <2>2. Whole(cache', resetting, ext, L, K) /\ Sound(cache', L)
    <3>1. CASE refreshed
      <4> DEFINE id == TempID(key)
      <4>1. cache' = RefreshHashes([cache EXCEPT !.attr[e].id = id], e)
        BY <2>1, <3>1
      <4> HIDE DEF id
      <4>2. PICK x : x = e /\ x \in Item /\ x \in L /\ cache.attr[x].id = None
        <5>1. e \in Listed
          BY <3>1 DEF GiveAnswer
        <5>2. Listed = L
          <6> HIDE DEF ext
          <6> QED BY <1>1, ListedIsL
        <5> QED BY <1>2, <3>1, <5>1, <5>2
      <4>3. Whole(RefreshHashes([cache EXCEPT !.attr[x].id = id], x), resetting, ext, L, K)
            /\ Sound(RefreshHashes([cache EXCEPT !.attr[x].id = id], x), L)
        <5> HIDE DEF ext
        <5> QED BY <1>1, <4>2, RefreshKeepsWhole
      <4> QED BY <4>1, <4>2, <4>3
    <3>2. CASE ~refreshed
      <4>1. cache' = cache
        BY <2>1, <3>2
      <4> QED BY <1>1, <4>1
    <3> QED BY <3>1, <3>2
  <2>3. ControlOK'
    BY <1>2, <2>1, ClientNames DEF IInv, ControlOK
  <2>5. Ext(result', searches') = ext /\ resetting' = resetting
    BY <1>2, <2>1
  <2> HIDE DEF ext
  <2> QED BY <2>2, <2>3, <2>5 DEF IInv
<1> QED BY <1>3, <1>4

LEMMA SearchAgainKeepsWhole ==
  ASSUME IInv, NoPrincipals, NEW e \in Item, SearchAgain(e)
  PROVE  IInv'
<1> DEFINE ext == Ext(result, searches)
           s == Head(searches[e])
<1>1. PICK L, K : Whole(cache, resetting, ext, L, K) /\ Sound(cache, L)
  BY DEF IInv
<1>2. /\ searches[e] # << >> /\ searches' = Searched(searches, e)
      /\ UNCHANGED <<gLookupQueue, resetting, pc, lookup, result>>
  BY DEF SearchAgain, Searched
<1>3. searches \in [Item -> Seq(Again)]
  BY DEF IInv, ControlOK
<1>4. /\ ext[e] >= 1 /\ searches' \in [Item -> Seq(Again)] /\ s \in Again
      /\ Ext(result', searches') = Less(ext, e)
  <2>1. /\ Ext(result, searches)[e] >= 1
        /\ Searched(searches, e) \in [Item -> Seq(Again)]
        /\ Head(searches[e]) \in Again
        /\ Ext(result, Searched(searches, e)) = Less(Ext(result, searches), e)
    BY <1>2, <1>3, SearchLess
  <2> QED BY <1>2, <2>1
<1>5. ControlOK'
  BY <1>2, <1>4 DEF IInv, ControlOK
<1>6. ext \in [Item -> Nat]
  BY <1>3, ExtTyped
<1>7. \E M : Whole(cache', resetting, Less(ext, e), M, K)
             /\ Sound(cache', M)
  <2> HIDE DEF ext
  <2>1. CASE cache' = Release(cache, e)
    <3>1. Whole(cache', resetting, Less(ext, e), L, K) /\ Sound(cache', L)
      BY <1>1, <1>4, <2>1, ReleaseKeepsBoth
    <3> QED BY <3>1
  <2>2. CASE \E x \in Item, a \in Outcomes(s.lookup) :
               /\ LeastUnused(x)
               /\ LET answer == AddOrUpdate(cache, x, a)
                  IN cache' = Release(Release(answer.cache, answer.entry), e)
    <3>1. PICK x \in Item, a \in Outcomes(s.lookup) :
               /\ LeastUnused(x)
               /\ LET answer == AddOrUpdate(cache, x, a)
                  IN cache' = Release(Release(answer.cache, answer.entry), e)
      BY <2>2
    <3> DEFINE u == AddOrUpdate(cache, x, a)
    <3>2. cache' = Release(Release(u.cache, u.entry), e)
      BY <3>1
    <3>3. x \in Unused(cache) /\ HashedIn(cache) \subseteq L /\ Keyed(cache)
      BY <1>1, <3>1 DEF LeastUnused, Sound
    <3>4. \E M : /\ u.entry \in Item /\ Whole(u.cache, resetting, More(ext, u.entry), M, K)
                 /\ IsAttr(a) => Sound(u.cache, M)
      BY <1>1, <3>3, AddOrUpdateKeepsWhole
    <3> HIDE DEF u
    <3>5. PICK M : /\ u.entry \in Item
                   /\ Whole(u.cache, resetting, More(ext, u.entry), M, K)
                   /\ IsAttr(a) => Sound(u.cache, M)
      BY <3>4
    <3>6. PICK z, y, b : z = More(ext, u.entry) /\ y = u.entry /\ b = u.cache
      OBVIOUS
    <3>7. z[y] >= 1 /\ Less(z, y) = ext
      BY <1>6, <3>5, <3>6, MoreLess
    <3>8. /\ Whole(Release(b, y), resetting, ext, M, K)
          /\ Sound(b, M) => Sound(Release(b, y), M)
      <4>1. Whole(b, resetting, z, M, K) /\ y \in Item
        BY <3>5, <3>6
      <4>2. /\ Whole(Release(b, y), resetting, Less(z, y), M, K)
            /\ Sound(b, M) => Sound(Release(b, y), M)
        BY <3>7, <4>1, ReleaseKeepsBoth
      <4> QED BY <3>7, <4>2
    <3>9. /\ Whole(Release(Release(b, y), e), resetting, Less(ext, e), M, K)
          /\ Sound(Release(b, y), M) => Sound(Release(Release(b, y), e), M)
      BY <1>4, <3>8, ReleaseKeepsBoth
    <3>10. IsAttr(a)
      <4>1. s.lookup \in Lookups
        BY <1>4 DEF Again
      <4> QED BY <4>1, OutcomeIsAttr
    <3>12. cache' = Release(Release(b, y), e)
      BY <3>2, <3>6
    <3> QED BY <3>5, <3>6, <3>8, <3>9, <3>10, <3>12
  <2>3. \/ cache' = Release(cache, e)
        \/ \E x \in Item, a \in Outcomes(s.lookup) :
               /\ LeastUnused(x)
               /\ LET answer == AddOrUpdate(cache, x, a)
                  IN cache' = Release(Release(answer.cache, answer.entry), e)
    BY DEF SearchAgain
  <2> QED BY <2>1, <2>2, <2>3
<1> HIDE DEF ext
<1> QED BY <1>2, <1>4, <1>5, <1>7 DEF IInv

LEMMA RemovalKeepsWhole ==
  ASSUME IInv, NEW S, S \subseteq Listed, cache' = RemoveAll(cache, S),
         UNCHANGED <<gLookupQueue, searches, resetting, pc, lookup, result>>
  PROVE  IInv'
<1> DEFINE ext == Ext(result, searches)
<1>1. PICK L, K : Whole(cache, resetting, ext, L, K) /\ Sound(cache, L)
  BY DEF IInv
<1>2. S \subseteq L
  <2> HIDE DEF ext
  <2> QED BY <1>1, ListedIsL
<1>3. \E M : /\ Whole(cache', resetting, ext, M, K)
             /\ Sound(cache', M)
  <2> HIDE DEF ext
  <2> QED BY <1>1, <1>2, RemoveAllKeepsWhole
<1>4. ControlOK'
  BY DEF IInv, ControlOK
<1>5. Ext(result', searches') = ext /\ resetting' = resetting
  OBVIOUS
<1> HIDE DEF ext
<1> QED BY <1>3, <1>4, <1>5 DEF IInv

LEMMA SetNodeAvailabilityKeepsWhole ==
  ASSUME IInv, NEW node, NEW available, SetNodeAvailability(node, available)
  PROVE  IInv'
<1> DEFINE ext == Ext(result, searches)
           attr == [e \in Item |-> IF e \in Listed /\ cache.attr[e].node = node
                                     THEN [cache.attr[e] EXCEPT !.available = available]
                                     ELSE cache.attr[e]]
<1>1. PICK L, K : Whole(cache, resetting, ext, L, K) /\ Sound(cache, L)
  BY DEF IInv
<1>2. cache' = [cache EXCEPT !.attr = attr]
      /\ UNCHANGED <<gLookupQueue, searches, resetting, pc, lookup, result>>
  BY DEF SetNodeAvailability
<1>3. Whole(cache', resetting, ext, L, K) /\ cache'.hash = cache.hash /\ cache'.attr = attr
  <2> HIDE DEF ext, attr
  <2> QED BY <1>1, <1>2, AttrKeepsWhole
<1>4. Sound(cache', L)
  <2>1. Keyed(cache) /\ \A e \in Item : IsAttr(cache.attr[e])
    BY <1>1 DEF Sound, Keyed, IsAttrs
  <2>2. ASSUME NEW e \in Item
        PROVE  KeepsKeys(cache.attr[e], attr[e], "available")
    <3>1. KeepsKeys(cache.attr[e], [cache.attr[e] EXCEPT !.available = available],
                    "available")
      BY <2>1, OneFieldKeepsKeys
    <3>2. KeepsKeys(cache.attr[e], cache.attr[e], "available")
      BY <2>1 DEF KeepsKeys
    <3> QED BY <3>1, <3>2
  <2>3. attr = [e \in Item |-> attr[e]]
    OBVIOUS
  <2> HIDE DEF attr
  <2>4. IsAttrs(attr)
    BY <2>2, <2>3 DEF IsAttrs, KeepsKeys
  <2>5. \A h \in Hash : \A i \in cache.hash[h] :
           attr[i][h.field] = cache.attr[i][h.field] /\ attr[i].types = cache.attr[i].types
    <3> SUFFICES ASSUME NEW h \in Hash, NEW i \in cache.hash[h]
                 PROVE  /\ attr[i][h.field] = cache.attr[i][h.field]
                        /\ attr[i].types = cache.attr[i].types
      OBVIOUS
    <3>1. i \in Item
      BY <2>1 DEF Keyed
    <3>2. h.field \in Field \ {"available"}
      BY HashFields DEF Field
    <3> QED BY <2>2, <3>1, <3>2 DEF KeepsKeys
  <2>6. Keyed(cache')
    BY <1>3, <2>1, <2>4, <2>5, AttrKeepsKeyed
  <2> QED BY <1>1, <1>3, <2>6, SameHashesAreSound
<1>5. ControlOK'
  BY <1>2 DEF IInv, ControlOK
<1>6. Ext(result', searches') = ext /\ resetting' = resetting
  BY <1>2
<1> HIDE DEF ext
<1> QED BY <1>3, <1>4, <1>5, <1>6 DEF IInv

LEMMA ResetKeepsWhole ==
  ASSUME IInv, Reset
  PROVE  IInv'
<1> DEFINE ext == Ext(result, searches)
           hashes == [h \in Hash |-> IF h = KerberosHash THEN cache.hash[h] ELSE {}]
           b == WithHashes(cache, hashes)
<1>1. PICK L, K : Whole(cache, resetting, ext, L, K) /\ Sound(cache, L)
  BY DEF IInv
<1>2. /\ cache' = [b EXCEPT !.head = NULL, !.tail = NULL] /\ resetting' = cache.head
      /\ gLookupQueue = Free /\ gLookupQueue' = "reset"
      /\ UNCHANGED <<searches, pc, lookup, result>>
  BY DEF Reset
<1>3. resetting = NULL
  BY <1>2, ClientNames DEF IInv, ControlOK
<1>4. K = {}
  <2>1. Linked(cache.head, cache.tail, cache.fLink, cache.fBackLink, resetting, L, K)
    BY <1>1 DEF Whole
  <2> QED BY <1>3, <2>1, LinkedFacts
<1>5. cache.hash \in [Hash -> SUBSET Item]
  BY <1>1 DEF Whole, IsCache
<1>6. hashes \in [Hash -> SUBSET Item] /\ \A h \in Hash : hashes[h] \subseteq cache.hash[h]
  BY <1>5
<1> HIDE DEF ext, hashes
<1>7. /\ Whole(b, resetting, ext, L, K) /\ b.hash = hashes /\ b.attr = cache.attr
      /\ b = [cache EXCEPT !.hash = hashes, !.retain = b.retain]
  BY <1>1, <1>6, HashesKeepWhole
<1> HIDE DEF b
<1>8. b.head = cache.head /\ b.fLink = cache.fLink
  BY <1>1, <1>7 DEF Whole, IsCache
<1>9. cache' = [hash |-> b.hash, head |-> NULL, tail |-> NULL, fLink |-> b.fLink,
                fBackLink |-> b.fBackLink, attr |-> b.attr, retain |-> b.retain]
  BY <1>2, <1>7 DEF Whole, IsCache
<1>10. /\ cache'.hash = b.hash /\ cache'.head = NULL /\ cache'.tail = NULL
       /\ cache'.fLink = b.fLink /\ cache'.fBackLink = b.fBackLink /\ cache'.attr = b.attr
       /\ cache'.retain = b.retain
  BY <1>9
<1>11. IsCache(cache')
  BY <1>7, <1>9, <1>10 DEF Whole, IsCache
<1>12. Linked(cache'.head, cache'.tail, cache'.fLink, cache'.fBackLink, resetting', {}, L)
  <2>1. Linked(b.head, b.tail, b.fLink, b.fBackLink, resetting, L, {})
    BY <1>4, <1>7 DEF Whole
  <2>2. Linked(NULL, NULL, b.fLink, b.fBackLink, b.head, {}, L)
    BY <2>1, ResetKeepsLinked
  <2> QED BY <1>2, <1>8, <1>10, <2>2
<1>13. Counted(cache', ext, {} \cup L)
  <2>1. L \cup K = {} \cup L
    BY <1>4
  <2> QED BY <1>7, <1>10, <2>1 DEF Whole, Counted
<1>14. Whole(cache', resetting', ext, {}, L)
  BY <1>7, <1>11, <1>12, <1>13 DEF Whole
<1>15. Sound(cache', {})
  <2>1. Keyed(cache)
    BY <1>1 DEF Sound
  <2>2. Keyed(cache')
    BY <1>6, <1>7, <1>10, <2>1 DEF Keyed
  <2>3. KerberosHash \in Hash => cache.hash[KerberosHash] = {}
    <3> SUFFICES ASSUME KerberosHash \in Hash, NEW x \in cache.hash[KerberosHash]
                 PROVE  FALSE
      OBVIOUS
    <3>1. BelongsIn(KerberosHash, cache.attr[x]) /\ x \in Item
      BY <2>1 DEF Keyed
    <3>2. cache.attr[x].kerberos = None
      BY <2>1, <3>1 DEF Keyed, IsAttrs, IsAttr
    <3>3. KerberosHash.field = "kerberos"
      BY DEF KerberosHash, Over
    <3> QED BY <3>1, <3>2, <3>3 DEF BelongsIn
  <2>4. \A h \in Hash : cache'.hash[h] = {}
    BY <1>7, <1>10, <2>3 DEF hashes
  <2> QED BY <2>2, <2>4 DEF Sound, HashedIn
<1>16. ControlOK'
  BY <1>2, ClientNames DEF IInv, ControlOK
<1>17. Ext(result', searches') = ext
  BY <1>2 DEF ext
<1> QED BY <1>14, <1>15, <1>16, <1>17 DEF IInv

LEMMA ResetReleasesKeepsWhole ==
  ASSUME IInv, ResetReleases
  PROVE  IInv'
<1> DEFINE ext == Ext(result, searches)
           e == resetting
<1>1. PICK L, K : Whole(cache, resetting, ext, L, K) /\ Sound(cache, L)
  BY DEF IInv
<1>2. gLookupQueue = "reset" /\ UNCHANGED <<searches, pc, lookup, result>>
  BY DEF ResetReleases
<1>3. Ext(result', searches') = ext
  BY <1>2
<1> HIDE DEF ext
<1>4. CASE resetting = NULL
  <2>1. gLookupQueue' = Free /\ cache' = cache /\ resetting' = resetting
    BY <1>4 DEF ResetReleases
  <2>2. ControlOK'
    BY <1>2, <1>4, <2>1, ClientNames DEF IInv, ControlOK
  <2>3. Whole(cache', resetting', ext, L, K)
    BY <1>1, <2>1
  <2>4. Sound(cache', L)
    BY <1>1, <2>1
  <2> QED BY <1>3, <2>2, <2>3, <2>4 DEF IInv
<1>5. CASE resetting # NULL
  <2>1. /\ resetting' = cache.fLink[e] /\ cache' = Release(cache, e)
        /\ gLookupQueue' = gLookupQueue
    BY <1>5 DEF ResetReleases
  <2>2. /\ cache.fLink \in [Item -> MaybeItem]
        /\ Linked(cache.head, cache.tail, cache.fLink, cache.fBackLink, e, L, K)
    BY <1>1 DEF Whole, IsCache
  <2>3. e \in K /\ Linked(cache.head, cache.tail, cache.fLink, cache.fBackLink,
                          cache.fLink[e], L, K \ {e})
    BY <1>5, <2>2, NextKeepsLinked
  <2>4. e \in Item /\ L \cap K = {}
    BY <1>1, <2>3, WholeFacts
  <2>5. ext \in [Item -> Nat]
    BY <1>1 DEF Whole
  <2>6. PICK z : /\ z = More(ext, e) /\ z \in [Item -> Nat] /\ z[e] >= 1 /\ Less(z, e) = ext
                 /\ \A x \in Item : z[x] = ext[x] + OneIf(x = e)
    BY <2>4, <2>5, MoreLess
  <2>7. Counted(cache, z, L \cup (K \ {e}))
    <3> SUFFICES ASSUME NEW x \in Item
                 PROVE  cache.retain[x] = HashesOf(cache.hash, x)
                                          + OneIf(x \in L \cup (K \ {e})) + z[x]
      BY DEF Counted
    <3>1. cache.retain[x] = HashesOf(cache.hash, x) + OneIf(x \in L \cup K) + ext[x]
      BY <1>1 DEF Whole, Counted
    <3>2. HashesOf(cache.hash, x) \in Nat /\ ext[x] \in Nat
      BY <2>5, HashesTyped
    <3>3. OneIf(x \in L \cup K) = OneIf(x \in L \cup (K \ {e})) + OneIf(x = e)
      BY <2>3, <2>4 DEF OneIf
    <3>4. OneIf(x \in L \cup (K \ {e})) \in Nat /\ OneIf(x = e) \in Nat
      BY DEF OneIf
    <3> QED BY <2>6, <3>1, <3>2, <3>3, <3>4
  <2>8. PICK next : next = cache.fLink[e]
    OBVIOUS
  <2>9. Whole(cache, next, z, L, K \ {e})
    BY <1>1, <2>3, <2>6, <2>7, <2>8 DEF Whole
  <2>10. /\ Whole(cache', next, Less(z, e), L, K \ {e})
         /\ Sound(cache', L)
    BY <1>1, <2>1, <2>4, <2>6, <2>9, ReleaseKeepsBoth
  <2>11. Whole(cache', resetting', ext, L, K \ {e})
    BY <2>1, <2>6, <2>8, <2>10
  <2>12. ControlOK'
    BY <1>2, <2>1 DEF IInv, ControlOK
  <2> QED BY <1>3, <2>10, <2>11, <2>12 DEF IInv
<1> QED BY <1>4, <1>5

LEMMA StrayedStays == [Next]_vars /\ ~strayed' => ~strayed
<1> SUFFICES ASSUME [Next]_vars, ~strayed' PROVE ~strayed
  OBVIOUS
<1>1. \A c \in Clients : GiveAnswer(c) => ~strayed
  BY DEF GiveAnswer
<1>2. UNCHANGED strayed \/ \E c \in Clients : GiveAnswer(c)
  BY DEF Next, vars, Miss, Hit, Begin, Find, Done, SearchAgain, Sweep, NodeChangeOccurred,
         Maintain, Reset, ResetReleases, SetNodeAvailability
<1> QED BY <1>1, <1>2

\* All of this until an entry that is not in the list is hashed again.
Invariant == ~strayed => IInv
LEMMA NextKeepsWhole ==
  ASSUME NoPrincipals, Invariant, [Next]_vars
  PROVE  Invariant'
<1> SUFFICES ASSUME ~strayed' PROVE IInv'
  BY DEF Invariant
<1>13. ~strayed
  BY StrayedStays
<1>14. IInv
  BY <1>13 DEF Invariant
<1>1. CASE UNCHANGED vars
  BY <1>1, <1>14, StutterKeepsWhole
<1>2. ASSUME NEW c \in Clients, NEW l \in Lookups, Miss(c, l) PROVE IInv'
  BY <1>2, <1>14, MissKeepsWhole
<1>3. ASSUME NEW c \in Clients, NEW l \in Lookups, NEW e \in Item, Hit(c, l, e) PROVE IInv'
  BY <1>3, <1>14, HitKeepsWhole
<1>4. ASSUME NEW c \in Clients, Find(c) PROVE IInv'
  BY <1>4, <1>14, FindKeepsWhole
<1>5. ASSUME NEW c \in Clients, GiveAnswer(c) PROVE IInv'
  BY <1>5, <1>14, GiveAnswerKeepsWhole
<1>6. ASSUME NEW c \in Clients, Done(c) PROVE IInv'
  <2>1. /\ cache' = Release(cache, result[c]) /\ result' = Given(result, c, NULL)
        /\ pc[c] = "answered" /\ pc' = [pc EXCEPT ![c] = "idle"]
        /\ UNCHANGED <<gLookupQueue, searches, resetting, lookup>>
    BY <1>6 DEF Done, Given
  <2>2. result[c] # NULL
    BY <1>14, <2>1 DEF IInv, ControlOK
  <2> QED BY <1>14, <2>1, <2>2, DoneKeepsWhole
<1>7. ASSUME NEW e \in Item, SearchAgain(e) PROVE IInv'
  BY <1>7, <1>14, SearchAgainKeepsWhole
<1>8. CASE Sweep
  <2>1. PICK S \in SUBSET {e \in Listed : cache.attr[e].available} :
          cache' = RemoveAll(cache, S)
    BY <1>8 DEF Sweep
  <2>2. UNCHANGED <<gLookupQueue, searches, resetting, pc, lookup, result>>
    BY <1>8 DEF Sweep, Maintain
  <2> QED BY <1>14, <2>1, <2>2, RemovalKeepsWhole
<1>9. CASE NodeChangeOccurred
  <2>1. PICK S : S = {e \in Listed : cache.attr[e].negative}
    OBVIOUS
  <2>2. cache' = RemoveAll(cache, S) /\ S \subseteq Listed
        /\ UNCHANGED <<gLookupQueue, searches, resetting, pc, lookup, result>>
    BY <1>9, <2>1 DEF NodeChangeOccurred, Maintain
  <2> QED BY <1>14, <2>2, RemovalKeepsWhole
<1>10. CASE Reset
  BY <1>10, <1>14, ResetKeepsWhole
<1>11. CASE ResetReleases
  BY <1>11, <1>14, ResetReleasesKeepsWhole
<1>12. ASSUME NEW r \in Records, NEW available \in BOOLEAN,
              SetNodeAvailability(r.node, available)
       PROVE  IInv'
  BY <1>12, <1>14, SetNodeAvailabilityKeepsWhole
<1> QED BY <1>1, <1>2, <1>3, <1>4, <1>5, <1>6, <1>7, <1>8, <1>9, <1>10, <1>11, <1>12 DEF Next

LEMMA SpecIsWhole ==
  ASSUME NoPrincipals
  PROVE  Spec => []Invariant
<1>1. Init => Invariant
  BY InitIsWhole DEF Invariant
<1>2. Invariant /\ [Next]_vars => Invariant'
  BY NextKeepsWhole
<1> QED BY <1>1, <1>2, PTL DEF Spec

-----------------------------------------------------------------------------
\* Without Kerberos principals the list is whole, whatever is looked up, swept or
\* reset, as long as no entry that has left it is hashed again: adding and removing
\* (Mbrd_Cache.cpp) keep the forward and the back links each other's reverse.
THEOREM TheListIsWhole ==
  ASSUME NoPrincipals
  PROVE  Spec => []ListIsWhole
<1>1. Invariant => ListIsWhole
  <2> SUFFICES ASSUME IInv, ~strayed PROVE ListIsWhole
    BY DEF Invariant, ListIsWhole
  <2>1. PICK L, K : Whole(cache, resetting, Ext(result, searches), L, K)
    BY DEF IInv
  <2> QED BY <2>1, LinkedIsWhole DEF Whole
<1> QED BY <1>1, SpecIsWhole, PTL

\* Without Kerberos principals each entry is retained exactly once for each hash, the
\* list, a reset under way, each client that has it and each second search, as long as
\* no entry that has left the list is hashed again: none is freed early or leaked.
THEOREM ReferencesAreExact ==
  ASSUME NoPrincipals
  PROVE  Spec => []RetainCountsExact
<1>1. Invariant => RetainCountsExact
  <2> SUFFICES ASSUME IInv, NEW e \in Item
               PROVE  cache.retain[e] = HashesOf(cache.hash, e)
                                        + (IF e \in Kept THEN 1 ELSE 0)
                                        + Cardinality({c \in Clients : result[c] = e})
                                        + Len(searches[e])
    BY DEF Invariant, RetainCountsExact
  <2> DEFINE ext == Ext(result, searches)
  <2>1. PICK L, K : Whole(cache, resetting, ext, L, K)
    BY DEF IInv
  <2>2. ext[e] = Cardinality({c \in Clients : result[c] = e}) + Len(searches[e])
    BY DEF Ext, Holders
  <2>3. Cardinality({c \in Clients : result[c] = e}) \in Nat /\ Len(searches[e]) \in Nat
    <3>1. searches[e] \in Seq(Again)
      BY DEF IInv, ControlOK
    <3>2. Len(searches[e]) \in Nat
      BY <3>1
    <3>3. Cardinality(Holders(result, e)) \in Nat
      BY HoldersFacts
    <3>4. PICK n : n = Cardinality(Holders(result, e))
      OBVIOUS
    <3>5. Cardinality({c \in Clients : result[c] = e}) = n
      BY <3>4 DEF Holders
    <3> QED BY <3>2, <3>3, <3>4, <3>5
  <2> HIDE DEF ext
  <2>4. Kept = L \cup K
    <3>1. Listed = L /\ K = Chain(cache, resetting)
      BY <2>1, ListedIsL
    <3>2. gLookupQueue # "reset" => K = {}
      <4>1. Linked(cache.head, cache.tail, cache.fLink, cache.fBackLink, resetting, L, K)
        BY <2>1 DEF Whole
      <4> QED BY <4>1, LinkedFacts DEF IInv, ControlOK
    <3> QED BY <3>1, <3>2 DEF Kept
  <2>5. cache.retain[e] = HashesOf(cache.hash, e) + OneIf(e \in Kept) + ext[e]
    BY <2>1, <2>4 DEF Whole, Counted
  <2>6. HashesOf(cache.hash, e) \in Nat
    BY HashesTyped
  <2> QED BY <2>2, <2>3, <2>5, <2>6 DEF OneIf
<1> QED BY <1>1, SpecIsWhole, PTL

\* Without Kerberos principals what a lookup can find in a hash is in the list, where
\* sweeps and resets find it, until an entry that has left the list is hashed again:
\* the claim of Mbrd_Cache.cpp:241 fails in no third way.
THEOREM TheHashedAreListed ==
  ASSUME NoPrincipals
  PROVE  Spec => []HashedIsListedBefore
<1>1. Invariant => HashedIsListedBefore
  <2> SUFFICES ASSUME IInv PROVE HashedIsListed
    BY DEF Invariant, HashedIsListedBefore
  <2>1. PICK L, K : Whole(cache, resetting, Ext(result, searches), L, K) /\ Sound(cache, L)
    BY DEF IInv
  <2>2. Listed = L
    BY <2>1, ListedIsL
  <2> QED BY <2>1, <2>2 DEF Sound, HashedIn, HashedIsListed
<1> QED BY <1>1, SpecIsWhole, PTL

\* Where nobody uses Kerberos principals, a hash has one entry for a key, and each
\* under its current key, through merges and temporary IDs that change the keys, as
\* long as no entry that has left the list is hashed again.
THEOREM KeysAreUnambiguous ==
  ASSUME NoPrincipals
  PROVE  Spec => []Unambiguous
<1>1. Invariant => Unambiguous
  BY DEF Invariant, IInv, Sound, Keyed, Unambiguous
<1> QED BY <1>1, SpecIsWhole, PTL

-----------------------------------------------------------------------------
(***************************************************************************)
(* What was found by a key is not shadowed by what was found otherwise.    *)
(***************************************************************************)
LEMMA ListedIsLAfter ==
  ASSUME NEW rest, NEW ext, NEW L, NEW K, Whole(cache', rest, ext, L, K)
  PROVE  Listed' = L
<1>1. PICK c : c = cache'
  OBVIOUS
<1>2. Linked(c.head, c.tail, c.fLink, c.fBackLink, rest, L, K)
  BY <1>1 DEF Whole
<1>3. L = Chain(c, c.head)
  BY <1>2, LinkedMeans
<1> QED BY <1>1, <1>3 DEF Listed

LEMMA FindIsLoyal ==
  ASSUME IInv, NoPrincipals, NEW c \in Clients, Find(c)
  PROVE  Loyal(cache, cache', Listed')
<1> DEFINE ext == Ext(result, searches)
<1>1. PICK L, K : Whole(cache, resetting, ext, L, K) /\ Sound(cache, L)
  BY DEF IInv
<1>2. PICK e \in Item, a \in Outcomes(lookup[c]) :
        LeastUnused(e) /\ LET u == AddOrUpdate(cache, e, a) IN cache' = u.cache
  BY DEF Find
<1> DEFINE u == AddOrUpdate(cache, e, a)
<1>3. e \in Unused(cache) /\ HashedIn(cache) \subseteq L
  BY <1>1, <1>2 DEF LeastUnused, Sound
<1>4. IsAttr(a)
  <2>1. lookup[c] \in Lookups \cup {NoLookup}
    BY DEF IInv, ControlOK
  <2> QED BY <1>2, <2>1, OutcomeIsAttr
<1>5. \E M : /\ u.entry \in Item /\ Whole(u.cache, resetting, More(ext, u.entry), M, K)
             /\ Loyal(cache, u.cache, M)
  <2> HIDE DEF ext
  <2>1. Keyed(cache)
    BY <1>1 DEF Sound
  <2> QED BY <1>1, <1>3, <1>4, <2>1, AddOrUpdateKeepsWhole
<1>6. cache' = u.cache
  BY <1>2
<1> HIDE DEF u, ext
<1>7. PICK M : /\ Whole(u.cache, resetting, More(ext, u.entry), M, K)
               /\ Loyal(cache, u.cache, M)
  BY <1>5
<1>8. Listed' = M
  BY <1>6, <1>7, ListedIsLAfter
<1> QED BY <1>6, <1>7, <1>8

LEMMA SearchAgainIsLoyal ==
  ASSUME IInv, NoPrincipals, NEW e \in Item, SearchAgain(e)
  PROVE  Loyal(cache, cache', Listed')
<1> DEFINE ext == Ext(result, searches)
           s == Head(searches[e])
<1>1. PICK L, K : Whole(cache, resetting, ext, L, K) /\ Sound(cache, L)
  BY DEF IInv
<1>2. searches \in [Item -> Seq(Again)] /\ searches[e] # << >> /\ Keyed(cache)
  BY <1>1 DEF IInv, ControlOK, SearchAgain, Sound
<1>3. ext[e] >= 1 /\ s \in Again /\ ext \in [Item -> Nat]
  BY <1>2, SearchLess, ExtTyped
<1> HIDE DEF ext
<1>4. CASE cache' = Release(cache, e)
  <2>1. Release(cache, e).hash = cache.hash
    BY <1>1, <1>3, ReleaseKeepsWhole
  <2> QED BY <1>4, <2>1, SameHashesAreLoyal
<1>5. CASE \E x \in Item, a \in Outcomes(s.lookup) :
             /\ LeastUnused(x)
             /\ LET answer == AddOrUpdate(cache, x, a)
                IN cache' = Release(Release(answer.cache, answer.entry), e)
  <2>1. PICK x \in Item, a \in Outcomes(s.lookup) :
             /\ LeastUnused(x)
             /\ LET answer == AddOrUpdate(cache, x, a)
                IN cache' = Release(Release(answer.cache, answer.entry), e)
    BY <1>5
  <2> DEFINE u == AddOrUpdate(cache, x, a)
  <2>2. x \in Unused(cache) /\ HashedIn(cache) \subseteq L
    BY <1>1, <2>1 DEF LeastUnused, Sound
  <2>3. IsAttr(a)
    <3>1. s.lookup \in Lookups
      BY <1>3 DEF Again
    <3> QED BY <2>1, <3>1, OutcomeIsAttr
  <2>4. \E M : /\ u.entry \in Item /\ Whole(u.cache, resetting, More(ext, u.entry), M, K)
               /\ Sound(u.cache, M) /\ Loyal(cache, u.cache, M)
    BY <1>1, <1>2, <2>2, <2>3, AddOrUpdateKeepsWhole
  <2> HIDE DEF u
  <2>5. PICK M, z, y, b : /\ z = More(ext, u.entry) /\ y = u.entry /\ b = u.cache
                          /\ y \in Item /\ Whole(b, resetting, z, M, K)
                          /\ Sound(b, M) /\ Loyal(cache, b, M)
    BY <2>4
  <2>6. z[y] >= 1 /\ Less(z, y) = ext
    BY <1>3, <2>5, MoreLess
  <2> DEFINE d == Release(b, y)
             f == Release(d, e)
  <2>7. Whole(d, resetting, ext, M, K) /\ Sound(d, M) /\ Loyal(cache, d, M)
    <3>1. /\ Whole(d, resetting, Less(z, y), M, K)
          /\ Sound(b, M) => /\ Sound(d, M)
                            /\ \A v : Keyed(v) /\ Loyal(v, b, M) => Loyal(v, d, M)
      BY <2>5, <2>6, ReleaseKeepsBoth
    <3> QED BY <1>2, <2>5, <2>6, <3>1
  <2> HIDE DEF d
  <2>8. Whole(f, resetting, Less(ext, e), M, K) /\ Loyal(cache, f, M)
    <3>1. /\ Whole(f, resetting, Less(ext, e), M, K)
          /\ Sound(d, M) => /\ Sound(f, M)
                            /\ \A v : Keyed(v) /\ Loyal(v, d, M) => Loyal(v, f, M)
      BY <1>3, <2>7, ReleaseKeepsBoth
    <3> QED BY <1>2, <2>7, <3>1
  <2>9. cache' = f
    BY <2>1, <2>5 DEF u, d
  <2> HIDE DEF f
  <2>10. Listed' = M
    BY <2>8, <2>9, ListedIsLAfter
  <2> QED BY <2>8, <2>9, <2>10
<1>6. \/ cache' = Release(cache, e)
      \/ \E x \in Item, a \in Outcomes(s.lookup) :
             /\ LeastUnused(x)
             /\ LET answer == AddOrUpdate(cache, x, a)
                IN cache' = Release(Release(answer.cache, answer.entry), e)
  BY DEF SearchAgain
<1> QED BY <1>4, <1>5, <1>6

LEMMA GiveAnswerIsLoyal ==
  ASSUME IInv, NoPrincipals, NEW c \in Clients, GiveAnswer(c)
  PROVE  Loyal(cache, cache', Listed')
<1> DEFINE ext == Ext(result, searches)
           key == IF cache.attr[result[c]].guid # None THEN cache.attr[result[c]].guid
                                                       ELSE cache.attr[result[c]].sid
           id == TempID(key)
<1>1. PICK L, K : Whole(cache, resetting, ext, L, K) /\ Sound(cache, L)
  BY DEF IInv
<1> HIDE DEF ext
<1>2. PICK e : e = result[c] /\ e \in Item
  BY DEF GiveAnswer, IInv, ControlOK, MaybeItem
<1>3. \/ cache' = cache
      \/ cache' = Release(cache, e) /\ cache.attr[e].negative
      \/ /\ cache.attr[e].negative /\ cache.attr[e].id = None
         /\ cache' = RefreshHashes([cache EXCEPT !.attr[e].id = id], e)
  BY <1>2 DEF GiveAnswer
<1> HIDE DEF id
<1>4. CASE cache' = cache
  BY <1>4, SameHashesAreLoyal
<1>5. CASE cache' = Release(cache, e)
  <2>1. cache'.hash = cache.hash
    <3>1. Release(cache, e).hash = cache.hash
      BY <1>1 DEF Whole, IsCache, Release
    <3> QED BY <1>5, <3>1
  <2> QED BY <2>1, SameHashesAreLoyal
<1>6. CASE /\ cache.attr[e].negative /\ cache.attr[e].id = None
           /\ cache' = RefreshHashes([cache EXCEPT !.attr[e].id = id], e)
  <2>1. Keyed(cache)
    BY <1>1 DEF Sound
  <2> DEFINE d == RefreshHashes([cache EXCEPT !.attr[e].id = id], e)
  <2>2. Whole(d, resetting, ext, L, K)
        /\ (Keyed(cache) => Keyed(d) /\ (cache.attr[e].negative => Loyal(cache, d, L)))
    BY <1>1, <1>2, <1>6, RefreshKeepsWhole
  <2>3. cache' = d
    BY <1>6
  <2> HIDE DEF d
  <2>4. Listed' = L
    BY <2>2, <2>3, ListedIsLAfter
  <2> QED BY <1>6, <2>1, <2>2, <2>3, <2>4
<1> QED BY <1>3, <1>4, <1>5, <1>6

LEMMA RemovalIsLoyal ==
  ASSUME IInv, NEW S, S \subseteq Listed, cache' = RemoveAll(cache, S)
  PROVE  Loyal(cache, cache', Listed')
<1> DEFINE ext == Ext(result, searches)
<1>1. PICK L, K : Whole(cache, resetting, ext, L, K) /\ Sound(cache, L)
  BY DEF IInv
<1> HIDE DEF ext
<1>2. S \subseteq L
  BY <1>1, ListedIsL
<1>3. PICK M : Whole(cache', resetting, ext, M, K) /\ Loyal(cache, cache', M)
  BY <1>1, <1>2, RemoveAllKeepsWhole
<1> QED BY <1>3, ListedIsLAfter

LEMMA ResetIsLoyal ==
  ASSUME IInv, Reset
  PROVE  Loyal(cache, cache', Listed')
<1> DEFINE ext == Ext(result, searches)
           hashes == [h \in Hash |-> IF h = KerberosHash THEN cache.hash[h] ELSE {}]
           b == WithHashes(cache, hashes)
<1>1. cache'.head = NULL
  <2>1. cache' = [b EXCEPT !.head = NULL, !.tail = NULL]
    BY DEF Reset
  <2>2. b = [cache EXCEPT !.hash = hashes, !.retain = b.retain]
    <3>1. PICK L, K : Whole(cache, resetting, ext, L, K)
      BY DEF IInv
    <3>2. hashes \in [Hash -> SUBSET Item]
      BY <3>1 DEF Whole, IsCache
    <3> HIDE DEF hashes, ext
    <3> QED BY <3>1, <3>2, HashesKeepWhole
  <2>3. IsCache(cache)
    BY DEF IInv, Whole
  <2> HIDE DEF b, hashes
  <2> QED BY <2>1, <2>2, <2>3 DEF IsCache
<1>2. IInv'
  BY ResetKeepsWhole
<1>3. PICK ext1, L, K : Whole(cache', resetting', ext1, L, K)
  BY <1>2 DEF IInv
<1>4. L = {}
  <2>1. Linked(cache'.head, cache'.tail, cache'.fLink, cache'.fBackLink, resetting', L, K)
    BY <1>3 DEF Whole
  <2> QED BY <1>1, <2>1, LinkedFacts
<1>5. Listed' = {}
  BY <1>3, <1>4, ListedIsLAfter
<1> QED BY <1>5 DEF Loyal, Stays

\* Steps that leave the hashes alone.
LEMMA OthersKeepHashes ==
  ASSUME IInv,
         \/ UNCHANGED cache
         \/ \E c \in Clients, l \in Lookups, e \in Item : Hit(c, l, e)
         \/ \E c \in Clients : Done(c)
         \/ ResetReleases
         \/ \E node, available : SetNodeAvailability(node, available)
  PROVE  cache'.hash = cache.hash
<1>1. IsCache(cache)
  BY DEF IInv, Whole
<1>2. \A e : Release(cache, e).hash = cache.hash
  BY <1>1 DEF IsCache, Release
<1>3. ASSUME NEW c \in Clients, NEW l \in Lookups, NEW e \in Item, Hit(c, l, e)
      PROVE  cache'.hash = cache.hash
  <2>1. \/ cache' = Retain(cache, e)
        \/ cache' = [cache EXCEPT !.attr[e].scheduled = @ \cup {l.field},
                                  !.retain[e] = @ + 2]
    BY <1>3 DEF Hit
  <2>2. CASE cache' = Retain(cache, e)
    BY <1>1, <2>2 DEF IsCache, Retain
  <2>3. CASE cache' = [cache EXCEPT !.attr[e].scheduled = @ \cup {l.field},
                                    !.retain[e] = @ + 2]
    <3> DEFINE attr == [cache.attr EXCEPT ![e].scheduled = @ \cup {l.field}]
               retain == [cache.retain EXCEPT ![e] = @ + 2]
    <3>1. cache' = [cache EXCEPT !.attr = attr, !.retain = retain]
      BY <2>3
    <3> HIDE DEF attr, retain
    <3> QED BY <1>1, <3>1 DEF IsCache
  <2> QED BY <2>1, <2>2, <2>3
<1>4. ASSUME NEW c \in Clients, Done(c) PROVE cache'.hash = cache.hash
  BY <1>2, <1>4 DEF Done
<1>5. CASE ResetReleases
  BY <1>2, <1>5 DEF ResetReleases
<1>6. ASSUME NEW node, NEW available, SetNodeAvailability(node, available)
      PROVE  cache'.hash = cache.hash
  <2> DEFINE attr == [e \in Item |-> IF e \in Listed /\ cache.attr[e].node = node
                                       THEN [cache.attr[e] EXCEPT !.available = available]
                                       ELSE cache.attr[e]]
  <2>1. cache' = [cache EXCEPT !.attr = attr]
    BY <1>6 DEF SetNodeAvailability
  <2> HIDE DEF attr
  <2> QED BY <1>1, <2>1 DEF IsCache
<1> QED BY <1>3, <1>4, <1>5, <1>6

LEMMA NextIsLoyal ==
  ASSUME IInv, NoPrincipals, [Next]_vars
  PROVE  Loyal(cache, cache', Listed')
<1>1. CASE \/ UNCHANGED cache
           \/ \E c \in Clients, l \in Lookups, e \in Item : Hit(c, l, e)
           \/ \E c \in Clients : Done(c)
           \/ ResetReleases
           \/ \E node, available : SetNodeAvailability(node, available)
  <2>1. cache'.hash = cache.hash
    BY <1>1, OthersKeepHashes
  <2> QED BY <2>1, SameHashesAreLoyal
<1>2. ASSUME NEW c \in Clients, Find(c) PROVE Loyal(cache, cache', Listed')
  BY <1>2, FindIsLoyal
<1>3. ASSUME NEW c \in Clients, GiveAnswer(c) PROVE Loyal(cache, cache', Listed')
  BY <1>3, GiveAnswerIsLoyal
<1>4. ASSUME NEW e \in Item, SearchAgain(e) PROVE Loyal(cache, cache', Listed')
  BY <1>4, SearchAgainIsLoyal
<1>5. CASE Sweep
  <2>1. PICK S \in SUBSET {e \in Listed : cache.attr[e].available} :
          cache' = RemoveAll(cache, S)
    BY <1>5 DEF Sweep
  <2> QED BY <2>1, RemovalIsLoyal
<1>6. CASE NodeChangeOccurred
  <2>1. PICK S : S = {e \in Listed : cache.attr[e].negative}
    OBVIOUS
  <2>2. cache' = RemoveAll(cache, S) /\ S \subseteq Listed
    BY <1>6, <2>1 DEF NodeChangeOccurred
  <2> QED BY <2>2, RemovalIsLoyal
<1>7. CASE Reset
  BY <1>7, ResetIsLoyal
<1>8. \A c \in Clients, l \in Lookups : Miss(c, l) => UNCHANGED cache
  BY DEF Miss
<1>9. UNCHANGED vars => UNCHANGED cache
  BY DEF vars
<1> QED BY <1>1, <1>2, <1>3, <1>4, <1>5, <1>6, <1>7, <1>8, <1>9 DEF Next

\* Where nobody uses Kerberos principals, an entry found by a key stays where that key
\* leads while it is listed with it, unless another found by it takes its place: what
\* lookups by other keys, second searches, temporary IDs and sweeps do never shadows it.
THEOREM AuthorityIsKept ==
  ASSUME NoPrincipals
  PROVE  Spec => AuthorityStays
<1>1. ASSUME Invariant, [Next]_vars
      PROVE  \A h \in Hash : \A x \in cache.hash[h] :
               /\ ~strayed'
               /\ x \in Listed' /\ x \notin cache'.hash[h]
               /\ ~cache'.attr[x].negative
               /\ cache'.attr[x][h.field] = cache.attr[x][h.field]
               /\ h.field \in cache.attr[x].foundBy
               => \E y \in cache'.hash[h] : /\ h.field \in cache'.attr[y].foundBy
                                            /\ cache'.attr[y][h.field] = cache.attr[x][h.field]
  <2>1. ASSUME ~strayed' PROVE Loyal(cache, cache', Listed')
    <3>1. IInv
      BY <1>1, <2>1, StrayedStays DEF Invariant
    <3> QED BY <1>1, <3>1, NextIsLoyal
  <2> QED BY <2>1 DEF Loyal, Stays
<1> QED BY <1>1, SpecIsWhole, PTL DEF Spec, AuthorityStays
=============================================================================
