-------------------------- MODULE BasePlugin_proofs --------------------------
(* Proofs about the base class of plug-ins: contexts follow references, and *)
(* nothing a request holds without a lock goes away under it, for any       *)
(* number of threads, references, contexts and numbers of searches.         *)
EXTENDS BasePlugin, FiniteSetTheorems, WellFoundedInduction, TLAPS
-----------------------------------------------------------------------------
\* The state is well formed.

Refs == NodeRefs \cup RecordRefs
Numbers == 0..(ContextSpace - 1)
Entry == [owner : Handlers, node : NodeRefs \cup {Null}, object : Memory \cup {Null}]

\* A reference is live or on its way to the plug-in, not both.
TablesOK ==
  /\ DOMAIN fContextHash \subseteq Refs
  /\ \A r \in DOMAIN fContextHash : fContextHash[r] \in [block : Memory, node : Memory]
  /\ DOMAIN fContextMap \subseteq Numbers
  /\ \A n \in DOMAIN fContextMap : fContextMap[n] \in [fPointer : Memory, fRefNum : NodeRefs]
  /\ fNextContextID \in Numbers
  /\ DOMAIN table \subseteq Refs /\ closing \subseteq Refs
  /\ DOMAIN table \cap closing = {}
  /\ \A r \in DOMAIN table : table[r] \in Entry
  /\ DOMAIN held = NodeRefs
  /\ DOMAIN serves = Handlers

\* A record is below a live node of the same client.
Parents ==
  \A r \in DOMAIN table :
    /\ r \in NodeRefs => table[r].node = Null /\ table[r].object # Null
    /\ r \in RecordRefs =>
         /\ table[r].node \in NodeRefs \cap DOMAIN table
         /\ table[table[r].node].owner = table[r].owner

\* The context of a record that has none in its reference is a leftover.
Leftovers ==
  \A r \in DOMAIN table \cap DOMAIN fContextHash : table[r].object = Null => r \in ignored

\* A node's virtual node is its own, a record's that of its node.
VirtualNodes ==
  \A r \in DOMAIN table \cap DOMAIN fContextHash :
    /\ r \in NodeRefs => fContextHash[r].node = fContextHash[r].block
    /\ r \in RecordRefs \ ignored => fContextHash[r].node = table[table[r].node].object

ContextInv == TablesOK /\ Parents /\ ContextsFollowReferences /\ Leftovers /\ VirtualNodes

\* A request is on a reference of its thread, and on the context it found
\* there; one that opens has made the reference for the record.
Working(t) ==
  /\ serves[t].ref \in DOMAIN table \cap DOMAIN fContextHash
  /\ table[serves[t].ref].owner = t
  /\ serves[t].context = fContextHash[serves[t].ref]
Deleting(t) == serves[t].op.then = "gone" => serves[t].ref \in RecordRefs
Opening(t) ==
  serves[t].op.then = "record" =>
    /\ serves[t].ref \in NodeRefs
    /\ serves[t].new \in RecordRefs \cap DOMAIN table
    /\ table[serves[t].new] = Reference(t, serves[t].ref, Null)
Searching(t) ==
  IF serves[t].op.then = "search"
  THEN /\ serves[t].ref \in NodeRefs
       /\ serves[t].number \in DOMAIN fContextMap
       /\ fContextMap[serves[t].number] = [fPointer |-> serves[t].search, fRefNum |-> serves[t].ref]
       /\ held[serves[t].ref].number \in {0, serves[t].number}
  ELSE serves[t].search = Null /\ serves[t].number = 0
Jobs ==
  \A t \in Handlers :
    IF Resting(t) THEN serves[t].number = 0
    ELSE Working(t) /\ Deleting(t) /\ Opening(t) /\ Searching(t)

\* What the client holds is a search of a live node.
Holding ==
  \A r \in NodeRefs : held[r].number # 0 =>
    /\ r \in DOMAIN table
    /\ held[r].number \in DOMAIN fContextMap
    /\ fContextMap[held[r].number] = [fPointer |-> held[r].search, fRefNum |-> r]

\* A search that nobody has goes when its node does: the plug-in is to be
\* told, and has the context without which it would do nothing.
Accounted ==
  \A n \in DOMAIN fContextMap \ {0} :
    \/ \E t \in Handlers : serves[t].number = n
    \/ \E r \in NodeRefs : held[r].number = n
    \/ n \in dropped
    \/ fContextMap[n].fRefNum \in (closing \cap DOMAIN fContextHash) \cup ignored

SearchInv == Jobs /\ Holding /\ Accounted

\* So does the one under number 0, which nobody has.
Zeroth ==
  0 \in DOMAIN fContextMap =>
    fContextMap[0].fRefNum \in DOMAIN table \cup (closing \cap DOMAIN fContextHash) \cup ignored

Inv == ContextInv /\ SearchInv /\ Zeroth

-----------------------------------------------------------------------------
\* Blocks are found when there are some, and so are numbers.

Smaller == {p \in Nat \X Nat : p[1] < p[2]}

LEMMA SmallerIsWellFounded == IsWellFoundedOn(Smaller, Nat)
<1>1. IsWellFoundedOn(OpToRel(<, Nat), Nat)  BY NatLessThanWellFounded
<1>2. OpToRel(<, Nat) = Smaller  BY DEF OpToRel, Smaller
<1> QED BY <1>1, <1>2

LEMMA Least ==
  ASSUME NEW S, S \subseteq Nat, S # {}
  PROVE  (CHOOSE o \in S : \A p \in S : o <= p) \in S
<1>1. \E x \in S : \A y \in S : ~ (<<y, x>> \in Smaller)  BY SmallerIsWellFounded, WFMin, Zenon
<1>2. PICK x \in S : \A y \in S : ~ (<<y, x>> \in Smaller)  BY <1>1
<1>3. ASSUME NEW y \in S PROVE x <= y
  <2>1. <<y, x>> \notin Smaller  BY <1>2
  <2>2. x \in Nat /\ y \in Nat  OBVIOUS
  <2>3. y < x => <<y, x>> \in Smaller  BY <2>2 DEF Smaller
  <2> QED BY <2>1, <2>2, <2>3
<1> QED BY <1>3

LEMMA BlockMade ==
  ASSUME BasePluginAssumption, Unused # {}
  PROVE  MakeContextData \in Memory /\ MakeContextData # Null
<1>1. Unused \subseteq Memory  BY DEF Unused
<1>2. Memory \subseteq Nat /\ 0 \notin Memory  BY DEF Memory, BasePluginAssumption
<1>3. MakeContextData \in Unused  BY <1>1, <1>2, Least DEF MakeContextData
<1> QED BY <1>1, <1>2, <1>3 DEF Null

\* With a number left, the probes find one that is not in use.
LEMMA NumberFound ==
  ASSUME BasePluginAssumption, DOMAIN fContextMap \subseteq Numbers, fNextContextID \in Numbers,
         Cardinality(DOMAIN fContextMap) < ContextSpace - 1
  PROVE  NextNumber \in Numbers \ DOMAIN fContextMap
<1> DEFINE proper == 1..(ContextSpace - 1)
<1>1. ContextSpace \in Nat /\ ContextSpace > 1  BY DEF BasePluginAssumption
<1>2. IsFiniteSet(proper) /\ Cardinality(proper) = ContextSpace - 1  BY <1>1, FS_Interval
<1>3. IsFiniteSet(Numbers)  BY <1>1, FS_Interval DEF Numbers
<1>4. IsFiniteSet(DOMAIN fContextMap)  BY <1>3, FS_Subset
<1>5. ~(proper \subseteq DOMAIN fContextMap)
  <2>1. SUFFICES ASSUME proper \subseteq DOMAIN fContextMap PROVE FALSE  OBVIOUS
  <2>2. Cardinality(proper) <= Cardinality(DOMAIN fContextMap)  BY <1>4, <2>1, FS_Subset
  <2>3. Cardinality(DOMAIN fContextMap) \in Nat  BY <1>4, FS_CardinalityType
  <2> HIDE DEF proper
  <2> QED BY <1>1, <1>2, <2>2, <2>3
<1>6. PICK n \in proper : n \notin DOMAIN fContextMap  BY <1>5
<1> DEFINE k == IF n >= fNextContextID THEN n - fNextContextID ELSE n - fNextContextID + (ContextSpace - 1)
<1>7. k \in Numbers /\ Probe(k) = n  BY <1>1, <1>6 DEF Numbers, Probe
<1>8. k \in Tries  BY <1>6, <1>7 DEF Tries, Numbers
<1>9. Tries \subseteq Nat /\ Tries # {}  BY <1>1, <1>8 DEF Tries
<1> DEFINE l == CHOOSE i \in Tries : \A j \in Tries : i <= j
<1>10. l \in Tries  BY <1>9, Least
<1>11. NextNumber = Probe(l)  BY DEF NextNumber
<1> HIDE DEF l
<1>12. l \in 0..(ContextSpace - 1) /\ Probe(l) \notin DOMAIN fContextMap  BY <1>10 DEF Tries
<1>13. Probe(l) \in Numbers  BY <1>1, <1>12 DEF Probe, Numbers
<1> QED BY <1>11, <1>12, <1>13

-----------------------------------------------------------------------------
\* Contexts follow references: one step at a time.

ContextVars == <<fContextHash, fContextMap, fNextContextID, daemon, DOMAIN held, DOMAIN serves>>

LEMMA ContextInit ==
  ASSUME BasePluginAssumption, BaseInit
  PROVE  ContextInv
<1> USE DEF BaseInit, Null
<1>1. TablesOK  BY DEF TablesOK, BasePluginAssumption, Numbers
<1>2. Parents /\ ContextsFollowReferences /\ Leftovers /\ VirtualNodes
  BY DEF Parents, ContextsFollowReferences, Leftovers, VirtualNodes
<1> QED BY <1>1, <1>2 DEF ContextInv

LEMMA ContextSame ==
  ASSUME ContextInv, UNCHANGED ContextVars
  PROVE  ContextInv'
<1> USE DEF ContextVars, daemon
<1>1. TablesOK'  BY DEF ContextInv, TablesOK
<1>2. Parents'  BY DEF ContextInv, Parents
<1>3. ContextsFollowReferences'  BY DEF ContextInv, ContextsFollowReferences
<1>4. Leftovers' /\ VirtualNodes'  BY DEF ContextInv, Leftovers, VirtualNodes
<1> QED BY <1>1, <1>2, <1>3, <1>4 DEF ContextInv

\* The searches matter to the contexts by their form only.
SearchesOK ==
  /\ DOMAIN fContextMap \subseteq Numbers
  /\ \A n \in DOMAIN fContextMap : fContextMap[n] \in [fPointer : Memory, fRefNum : NodeRefs]
  /\ fNextContextID \in Numbers
  /\ DOMAIN held = NodeRefs
  /\ DOMAIN serves = Handlers

LEMMA SearchChange ==
  ASSUME ContextInv, UNCHANGED <<fContextHash, daemon>>, SearchesOK'
  PROVE  ContextInv'
<1> USE DEF daemon
<1>1. TablesOK'  BY DEF ContextInv, TablesOK, SearchesOK
<1>2. Parents'  BY DEF ContextInv, Parents
<1>3. ContextsFollowReferences'  BY DEF ContextInv, ContextsFollowReferences
<1>4. Leftovers' /\ VirtualNodes'  BY DEF ContextInv, Leftovers, VirtualNodes
<1> QED BY <1>1, <1>2, <1>3, <1>4 DEF ContextInv

LEMMA BeginSearchContext ==
  ASSUME BasePluginAssumption, ContextInv,
         NEW t \in Handlers, NEW op, NEW r \in NodeRefs, BeginSearch(t, op, r)
  PROVE  ContextInv'
<1>0. TablesOK  BY DEF ContextInv
<1>1. UNCHANGED <<fContextHash, daemon, client>> /\ DOMAIN serves' = DOMAIN serves
  BY DEF BeginSearch, Begun
<1>2. CASE held[r].number # 0
  <2>1. UNCHANGED <<fContextMap, fNextContextID>>  BY <1>2 DEF BeginSearch
  <2> QED BY <1>1, <2>1, ContextSame DEF ContextVars, client
<1>3. CASE held[r].number = 0
  <2>1. /\ Unused # {} /\ Cardinality(DOMAIN fContextMap) < ContextSpace - 1
        /\ AddPointer(MakeContextData, r)
    BY <1>3 DEF BeginSearch
  <2>2. NextNumber \in Numbers /\ MakeContextData \in Memory
    BY <1>0, <2>1, BlockMade, NumberFound DEF TablesOK
  <2>3. /\ fContextMap' = With(fContextMap, NextNumber, [fPointer |-> MakeContextData, fRefNum |-> r])
        /\ fNextContextID' = (NextNumber + 1) % ContextSpace
    BY <2>1 DEF AddPointer
  <2> DEFINE number == NextNumber
             block == MakeContextData
  <2>4. number \in Numbers /\ block \in Memory  BY <2>2
  <2> HIDE DEF number, block
  <2>5. (number + 1) % ContextSpace \in Numbers  BY <2>4 DEF Numbers, BasePluginAssumption
  <2>6. /\ DOMAIN fContextMap' \subseteq Numbers
        /\ \A n \in DOMAIN fContextMap' : fContextMap'[n] \in [fPointer : Memory, fRefNum : NodeRefs]
    BY <1>0, <2>3, <2>4 DEF TablesOK, With, number, block
  <2>7. SearchesOK'  BY <1>0, <1>1, <2>3, <2>5, <2>6 DEF TablesOK, SearchesOK, client, number
  <2> QED BY <1>1, <2>7, SearchChange
<1> QED BY <1>2, <1>3

LEMMA EndSearchContext ==
  ASSUME ContextInv, NEW t \in Handlers, NEW done, EndSearch(t, done)
  PROVE  ContextInv'
<1>0. TablesOK  BY DEF ContextInv
<1>1. UNCHANGED <<fContextHash, fNextContextID, daemon>> /\ DOMAIN serves' = DOMAIN serves /\ DOMAIN held' = DOMAIN held
  BY DEF EndSearch, Ends
<1>2. /\ DOMAIN fContextMap' \subseteq DOMAIN fContextMap
      /\ \A n \in DOMAIN fContextMap' : fContextMap'[n] = fContextMap[n]
  BY DEF EndSearch, RemoveContext, Without, Restrict
<1>3. SearchesOK'  BY <1>0, <1>1, <1>2 DEF TablesOK, SearchesOK
<1> QED BY <1>1, <1>3, SearchChange

LEMMA ReleaseContext ==
  ASSUME ContextInv, NEW t \in Handlers, NEW r \in NodeRefs, ReleaseContinueData(t, r)
  PROVE  ContextInv'
<1>0. TablesOK  BY DEF ContextInv
<1>1. UNCHANGED <<fContextHash, fNextContextID, daemon, serves>> /\ DOMAIN held' = DOMAIN held
  BY DEF ReleaseContinueData
<1>2. /\ DOMAIN fContextMap' \subseteq DOMAIN fContextMap
      /\ \A n \in DOMAIN fContextMap' : fContextMap'[n] = fContextMap[n]
  BY DEF ReleaseContinueData, RemoveContext, Without, Restrict
<1>3. SearchesOK'  BY <1>0, <1>1, <1>2 DEF TablesOK, SearchesOK
<1> QED BY <1>1, <1>3, SearchChange

LEMMA OpenDirNodeContext ==
  ASSUME BasePluginAssumption, ContextInv, NEW t \in Handlers, NEW r \in NodeRefs,
         NEW own \in BOOLEAN, NEW found \in BOOLEAN, OpenDirNode(t, r, own, found)
  PROVE  ContextInv'
<1> DEFINE object == MakeContextData
           opened == Opened(r, found)
<1>1. object \in Memory /\ object # Null  BY BlockMade DEF OpenDirNode
<1>2. r \notin DOMAIN table /\ r \notin closing  BY DEF OpenDirNode, Unheld
<1>3. UNCHANGED <<fContextMap, fNextContextID, ignored, held, serves>>  BY DEF OpenDirNode, client
<1>4. /\ fContextHash' = IF opened THEN AddItem(r, [block |-> object, node |-> object]) ELSE Without(fContextHash, {r})
      /\ table' = IF opened THEN With(table, r, Reference(t, Null, object)) ELSE table
      /\ closing' = IF opened THEN closing ELSE closing \cup {r}
  BY DEF OpenDirNode
<1>5. opened => r \notin DOMAIN fContextHash  BY DEF Opened
<1>6. Null \notin NodeRefs /\ r \notin RecordRefs  BY DEF BasePluginAssumption, Null
<1> USE <1>1, <1>2, <1>3, <1>6 DEF ContextInv
<1> HIDE DEF object, opened
<1>7. CASE opened
  <2>1. fContextHash' = With(fContextHash, r, [block |-> object, node |-> object])  BY <1>4, <1>5, <1>7 DEF AddItem
  <2>2. table' = With(table, r, Reference(t, Null, object)) /\ closing' = closing  BY <1>4, <1>7
  <2>3. /\ DOMAIN fContextHash' = DOMAIN fContextHash \cup {r}
        /\ fContextHash'[r] = [block |-> object, node |-> object]
        /\ \A x \in DOMAIN fContextHash : x # r => fContextHash'[x] = fContextHash[x]
    BY <2>1 DEF With
  <2>4. /\ DOMAIN table' = DOMAIN table \cup {r}
        /\ table'[r] = [owner |-> t, node |-> Null, object |-> object]
        /\ \A x \in DOMAIN table : x # r => table'[x] = table[x]
    BY <2>2 DEF With, Reference
  <2>5. TablesOK'  BY <2>2, <2>3, <2>4 DEF TablesOK, Refs, Entry
  <2>6. Parents'  BY <2>4 DEF Parents
  <2>7. ContextsFollowReferences'  BY <2>2, <2>3, <2>4 DEF ContextsFollowReferences
  <2>8. Leftovers'  BY <2>3, <2>4 DEF Leftovers
  <2>9. VirtualNodes'
    <3>1. ASSUME NEW x \in DOMAIN table \cap DOMAIN fContextHash, x \in RecordRefs \ ignored
          PROVE  fContextHash'[x].node = table'[table'[x].node].object
      <4>1. x # r /\ table[x].node # r  BY <3>1 DEF Parents
      <4> QED BY <2>3, <2>4, <3>1, <4>1 DEF VirtualNodes, Parents
    <3> QED BY <2>3, <2>4, <3>1 DEF VirtualNodes
  <2> QED BY <2>5, <2>6, <2>7, <2>8, <2>9
<1>8. CASE ~opened
  <2>1. fContextHash' = Without(fContextHash, {r}) /\ table' = table /\ closing' = closing \cup {r}  BY <1>4, <1>8
  <2>2. /\ DOMAIN fContextHash' = DOMAIN fContextHash \ {r}
        /\ \A x \in DOMAIN fContextHash' : fContextHash'[x] = fContextHash[x]
    BY <2>1 DEF Without, Restrict
  <2>3. TablesOK'  BY <2>1, <2>2 DEF TablesOK, Refs
  <2>4. Parents'  BY <2>1 DEF Parents
  <2>5. ContextsFollowReferences'  BY <2>1, <2>2 DEF ContextsFollowReferences
  <2>6. Leftovers' /\ VirtualNodes'  BY <2>1, <2>2 DEF Leftovers, VirtualNodes
  <2> QED BY <2>3, <2>4, <2>5, <2>6
<1> QED BY <1>7, <1>8

\* Nothing is below a record.
LEMMA NoneBelow ==
  ASSUME BasePluginAssumption, ContextInv, NEW r, r \notin NodeRefs, r # Null
  PROVE  Below(r) = {}
BY DEF BasePluginAssumption, ContextInv, Parents, TablesOK, Refs, Below

\* References that go leave no record without its node.
LEMMA RemovalContext ==
  ASSUME BasePluginAssumption, ContextInv, NEW gone, gone \subseteq DOMAIN table,
         \A c \in DOMAIN table : c \in RecordRefs /\ table[c].node \in gone => c \in gone,
         table' = Without(table, gone), closing' = closing \cup gone,
         fContextHash' \in {fContextHash, Without(fContextHash, gone)},
         UNCHANGED <<fContextMap, fNextContextID, ignored, DOMAIN held, DOMAIN serves>>
  PROVE  ContextInv'
<1> USE DEF ContextInv
<1>1. /\ DOMAIN table' = DOMAIN table \ gone
      /\ \A x \in DOMAIN table' : table'[x] = table[x]
  BY DEF Without, Restrict
<1>2. /\ DOMAIN fContextHash' \subseteq DOMAIN fContextHash
      /\ \A x \in DOMAIN fContextHash' : fContextHash'[x] = fContextHash[x]
      /\ \A x \in DOMAIN fContextHash : x \notin gone => x \in DOMAIN fContextHash'
  BY DEF Without, Restrict
<1>3. TablesOK'  BY <1>1, <1>2 DEF TablesOK
<1>4. Parents'
  <2>1. ASSUME NEW c \in DOMAIN table', c \in RecordRefs
        PROVE  table[c].node \in NodeRefs \cap DOMAIN table'
    BY <1>1, <2>1 DEF Parents
  <2> QED BY <1>1, <2>1 DEF Parents
<1>5. ContextsFollowReferences'  BY <1>1, <1>2 DEF ContextsFollowReferences
<1>6. Leftovers'  BY <1>1, <1>2 DEF Leftovers
<1>7. VirtualNodes'
  <2>1. ASSUME NEW c \in DOMAIN table', c \in RecordRefs
        PROVE  table[c].node \in DOMAIN table'
    BY <1>4, <1>1, <2>1 DEF Parents
  <2> QED BY <1>1, <1>2, <2>1 DEF VirtualNodes
<1> QED BY <1>3, <1>4, <1>5, <1>6, <1>7

LEMMA RemoveReferenceContext ==
  ASSUME BasePluginAssumption, ContextInv, NEW t \in Handlers, NEW r \in Refs, RemoveReference(t, r)
  PROVE  ContextInv'
<1> DEFINE gone == {r} \cup Below(r)
<1>1. gone \subseteq DOMAIN table  BY DEF RemoveReference, Below
<1>2. ASSUME NEW c \in DOMAIN table, c \in RecordRefs, table[c].node \in gone
      PROVE  c \in gone
  <2>1. CASE table[c].node = r  BY <2>1 DEF Below
  <2>2. CASE table[c].node \in Below(r)
    <3>1. table[c].node \in NodeRefs \cap DOMAIN table  BY <1>2 DEF ContextInv, Parents
    <3>2. table[table[c].node].node = Null  BY <3>1 DEF ContextInv, Parents
    <3>3. r = Null  BY <2>2, <3>2 DEF Below
    <3> QED BY <3>3 DEF Refs, Null, BasePluginAssumption
  <2> QED BY <1>2, <2>1, <2>2
<1>3. /\ table' = Without(table, gone) /\ closing' = closing \cup gone
      /\ UNCHANGED <<fContextHash, fContextMap, fNextContextID, ignored, serves>>
      /\ DOMAIN held' = DOMAIN held
  BY DEF RemoveReference, tables
<1> HIDE DEF gone
<1> QED BY <1>1, <1>2, <1>3, RemovalContext

LEMMA RefDeallocContext ==
  ASSUME BasePluginAssumption, ContextInv, NEW r \in Refs, RefDealloc(r)
  PROVE  ContextInv'
<1> USE DEF ContextInv
<1>0. r \in closing /\ closing' = closing \ {r} /\ UNCHANGED <<fNextContextID, table, held, serves>>
  BY DEF RefDealloc
<1>1. r \notin DOMAIN table  BY <1>0 DEF TablesOK
<1>2. CASE fState.active
  <2>1. /\ fContextHash' = Without(fContextHash, {r})
        /\ ignored' = IF r \in DOMAIN fContextHash THEN ignored \ {r} ELSE ignored
        /\ CloseDirNode(r) \/ CloseRecord(r)
    BY <1>2 DEF RefDealloc
  <2>2. /\ DOMAIN fContextHash' = DOMAIN fContextHash \ {r}
        /\ \A x \in DOMAIN fContextHash' : fContextHash'[x] = fContextHash[x]
    BY <2>1 DEF Without, Restrict
  <2>3. ignored \ {r} \subseteq ignored' /\ ignored' \subseteq ignored  BY <2>1
  <2>4. /\ DOMAIN fContextMap' \subseteq DOMAIN fContextMap
        /\ \A n \in DOMAIN fContextMap' : fContextMap'[n] = fContextMap[n]
    BY <2>1 DEF CloseDirNode, CloseRecord, Without, Restrict
  <2>5. TablesOK'  BY <1>0, <2>2, <2>4 DEF TablesOK
  <2>6. Parents'  BY <1>0 DEF Parents
  <2>7. ContextsFollowReferences'  BY <1>0, <1>1, <2>2, <2>3 DEF ContextsFollowReferences
  <2>8. Leftovers'  BY <1>0, <1>1, <2>2, <2>3 DEF Leftovers
  <2>9. VirtualNodes'  BY <1>0, <1>1, <2>2, <2>3 DEF VirtualNodes
  <2> QED BY <2>5, <2>6, <2>7, <2>8, <2>9
<1>3. CASE ~fState.active
  <2>1. ignored' = ignored \cup {r} /\ UNCHANGED <<fContextHash, fContextMap>>  BY <1>3 DEF RefDealloc
  <2>2. TablesOK'  BY <1>0, <2>1 DEF TablesOK
  <2>3. Parents'  BY <1>0 DEF Parents
  <2>4. ContextsFollowReferences'  BY <1>0, <1>1, <2>1 DEF ContextsFollowReferences
  <2>5. Leftovers' /\ VirtualNodes'  BY <1>0, <1>1, <2>1 DEF Leftovers, VirtualNodes
  <2> QED BY <2>2, <2>3, <2>4, <2>5
<1> QED BY <1>2, <1>3

LEMMA BeginOpenContext ==
  ASSUME BasePluginAssumption, ContextInv, NEW t \in Handlers, NEW op,
         NEW r \in NodeRefs, NEW new \in RecordRefs, BeginOpen(t, op, r, new)
  PROVE  ContextInv'
<1> USE DEF ContextInv
<1>1. /\ r \in DOMAIN table /\ table[r].owner = t
      /\ new \notin DOMAIN table /\ new \notin closing
      /\ table' = With(table, new, Reference(t, r, Null))
      /\ DOMAIN serves' = DOMAIN serves
      /\ UNCHANGED <<fContextHash, fContextMap, fNextContextID, closing, ignored, held>>
  BY DEF BeginOpen, Begins, Unheld, Begun, tables, client
<1>2. /\ DOMAIN table' = DOMAIN table \cup {new}
      /\ table'[new] = [owner |-> t, node |-> r, object |-> Null]
      /\ \A x \in DOMAIN table : x # new => table'[x] = table[x]
  BY <1>1 DEF With, Reference
<1>3. new \notin NodeRefs /\ r # new  BY DEF BasePluginAssumption
<1>4. TablesOK'  BY <1>1, <1>2 DEF TablesOK, Refs, Entry
<1>5. Parents'
  <2>1. ASSUME NEW x \in DOMAIN table, x \in RecordRefs
        PROVE  table[x].node \in DOMAIN table /\ table[x].node # new
    BY <1>1, <2>1 DEF Parents
  <2> QED BY <1>1, <1>2, <1>3, <2>1 DEF Parents
<1>6. ContextsFollowReferences'  BY <1>1, <1>2 DEF ContextsFollowReferences
<1>7. new \in DOMAIN fContextHash => new \in ignored  BY <1>1 DEF ContextsFollowReferences
<1>8. Leftovers'  BY <1>1, <1>2, <1>7 DEF Leftovers
<1>9. VirtualNodes'
  <2>1. ASSUME NEW x \in DOMAIN table, x \in RecordRefs
        PROVE  table[x].node \in DOMAIN table /\ table[x].node # new
    BY <1>1, <2>1 DEF Parents
  <2> QED BY <1>1, <1>2, <1>3, <1>7, <2>1 DEF VirtualNodes
<1> QED BY <1>4, <1>5, <1>6, <1>8, <1>9

\* What a request has, when it goes on.
LEMMA AtWork ==
  ASSUME Jobs, NEW t \in Handlers, ~Resting(t)
  PROVE  Working(t) /\ Deleting(t) /\ Opening(t) /\ Searching(t)
BY DEF Jobs

LEMMA EndDeleteContext ==
  ASSUME BasePluginAssumption, ContextInv, Jobs, NEW t \in Handlers, NEW deleted \in BOOLEAN, EndDelete(t, deleted)
  PROVE  ContextInv'
<1> DEFINE r == serves[t].ref
<1>1. ~Resting(t) /\ serves[t].op.then = "gone" /\ DOMAIN serves' = DOMAIN serves  BY DEF EndDelete, Ends
<1>2. r \in DOMAIN table /\ r \in RecordRefs  BY <1>1, AtWork DEF Working, Deleting
<1>3. /\ fContextHash' = Without(fContextHash, {r})
      /\ table' = IF deleted THEN Without(table, {r}) ELSE [table EXCEPT ![r].object = Null]
      /\ closing' = IF deleted THEN closing \cup {r} ELSE closing
      /\ UNCHANGED <<fContextMap, fNextContextID, ignored, held>>
  BY DEF EndDelete, client
<1> HIDE DEF r
<1>4. r \notin NodeRefs  BY <1>2 DEF BasePluginAssumption
<1>5. CASE deleted
  <2>1. \A c \in DOMAIN table : c \in RecordRefs /\ table[c].node \in {r} => c \in {r}
    BY <1>4 DEF ContextInv, Parents
  <2> QED BY <1>1, <1>2, <1>3, <1>5, <2>1, RemovalContext
<1>6. CASE ~deleted
  <2> USE DEF ContextInv
  <2>1. table' = [table EXCEPT ![r].object = Null] /\ closing' = closing  BY <1>3, <1>6
  <2>2. table[r] \in Entry  BY <1>2 DEF TablesOK
  <2>3. /\ DOMAIN table' = DOMAIN table
        /\ table'[r].owner = table[r].owner /\ table'[r].node = table[r].node /\ table'[r].object = Null
        /\ table'[r] \in Entry
        /\ \A x \in DOMAIN table : x # r => table'[x] = table[x]
    BY <1>2, <2>1, <2>2 DEF Entry
  <2>4. /\ DOMAIN fContextHash' = DOMAIN fContextHash \ {r}
        /\ \A x \in DOMAIN fContextHash' : fContextHash'[x] = fContextHash[x]
    BY <1>3 DEF Without, Restrict
  <2>5. TablesOK'
    <3>1. \A x \in DOMAIN table' : table'[x] \in Entry  BY <2>3 DEF TablesOK
    <3>2. /\ DOMAIN fContextHash' \subseteq Refs
          /\ \A x \in DOMAIN fContextHash' : fContextHash'[x] \in [block : Memory, node : Memory]
      BY <2>4 DEF TablesOK
    <3>3. /\ DOMAIN table' \subseteq Refs /\ closing' \subseteq Refs
          /\ DOMAIN table' \cap closing' = {}
      BY <1>3, <1>6, <2>1, <2>3 DEF TablesOK
    <3>4. /\ DOMAIN fContextMap' \subseteq Numbers
          /\ \A n \in DOMAIN fContextMap' : fContextMap'[n] \in [fPointer : Memory, fRefNum : NodeRefs]
          /\ fNextContextID' \in Numbers
          /\ DOMAIN held' = NodeRefs
          /\ DOMAIN serves' = Handlers
      BY <1>1, <1>3 DEF TablesOK
    <3> QED BY <3>1, <3>2, <3>3, <3>4 DEF TablesOK
  <2>6. Parents'  BY <1>4, <2>3 DEF Parents
  <2>7. ContextsFollowReferences'
    <3>1. ignored' = ignored /\ closing' = closing  BY <1>3, <2>1
    <3>2. ASSUME NEW x \in DOMAIN table, table'[x].object # Null, x \notin ignored \cap RecordRefs
          PROVE  x \in DOMAIN fContextHash' /\ fContextHash'[x].block = table'[x].object
      <4>1. x # r /\ table'[x] = table[x]  BY <2>3, <3>2
      <4> QED BY <2>4, <3>2, <4>1 DEF ContextsFollowReferences
    <3>3. DOMAIN fContextHash' \subseteq DOMAIN table \cup closing \cup ignored
      BY <2>4 DEF ContextsFollowReferences
    <3> QED BY <2>3, <3>1, <3>2, <3>3 DEF ContextsFollowReferences
  <2>8. Leftovers'  BY <1>3, <2>3, <2>4 DEF Leftovers
  <2>9. VirtualNodes'
    <3>1. ASSUME NEW c \in DOMAIN table, c \in RecordRefs
          PROVE  table[c].node # r /\ table[c].node \in DOMAIN table
      BY <1>4, <3>1 DEF Parents
    <3>2. ASSUME NEW c \in DOMAIN table \cap DOMAIN fContextHash', c \in RecordRefs \ ignored
          PROVE  fContextHash'[c].node = table'[table'[c].node].object
      <4>1. c # r /\ c \in DOMAIN fContextHash  BY <2>4
      <4>2. table'[c] = table[c] /\ table'[table[c].node] = table[table[c].node]  BY <2>3, <3>1, <3>2, <4>1
      <4> QED BY <2>4, <3>2, <4>1, <4>2 DEF VirtualNodes
    <3>3. ASSUME NEW c \in DOMAIN table \cap DOMAIN fContextHash', c \in NodeRefs
          PROVE  fContextHash'[c].node = fContextHash'[c].block
      BY <2>4, <3>3 DEF VirtualNodes
    <3> QED BY <1>3, <2>3, <3>2, <3>3 DEF VirtualNodes
  <2> QED BY <2>5, <2>6, <2>7, <2>8, <2>9
<1> QED BY <1>5, <1>6

LEMMA EndOpenContext ==
  ASSUME BasePluginAssumption, ContextInv, Jobs, NEW t \in Handlers,
         NEW how \in {"found", "not_found", "failed"}, EndOpen(t, how)
  PROVE  ContextInv'
<1> DEFINE new == serves[t].new
           ref == serves[t].ref
           object == MakeContextData
           context == serves[t].context
<1>1. ~Resting(t) /\ serves[t].op.then = "record" /\ DOMAIN serves' = DOMAIN serves
  BY DEF EndOpen, Ends
<1>2. /\ ref \in NodeRefs /\ new \in RecordRefs \cap DOMAIN table
      /\ table[new] = [owner |-> t, node |-> ref, object |-> Null]
      /\ ref \in DOMAIN table \cap DOMAIN fContextHash
      /\ context = fContextHash[ref]
  BY <1>1, AtWork DEF Working, Opening, Reference
<1>3. UNCHANGED <<fContextMap, fNextContextID, ignored, held>>  BY DEF EndOpen, client
<1>4. new \notin NodeRefs  BY <1>2 DEF BasePluginAssumption
<1>5. CASE how = "found"
  <2>1. /\ Unused # {}
        /\ fContextHash' = AddItem(new, [block |-> object, node |-> context.node])
        /\ table' = [table EXCEPT ![new].object = object]
        /\ UNCHANGED closing
    BY <1>5 DEF EndOpen
  <2>2. object \in Memory /\ object # Null  BY <2>1, BlockMade
  <2> HIDE DEF new, ref, object, context
  <2> USE DEF ContextInv
  <2>3. table[new] \in Entry  BY <1>2 DEF TablesOK
  <2>4. /\ DOMAIN table' = DOMAIN table
        /\ table'[new].owner = t /\ table'[new].node = ref /\ table'[new].object = object
        /\ table'[new] \in Entry
        /\ \A x \in DOMAIN table : x # new => table'[x] = table[x]
    BY <1>2, <2>1, <2>2, <2>3 DEF Entry
  <2>5. /\ DOMAIN fContextHash' = DOMAIN fContextHash \cup {new}
        /\ \A x \in DOMAIN fContextHash : fContextHash'[x] = fContextHash[x]
        /\ new \notin DOMAIN fContextHash => fContextHash'[new] = [block |-> object, node |-> context.node]
    BY <2>1 DEF AddItem, With
  <2>6. new \in DOMAIN fContextHash => new \in ignored  BY <1>2 DEF Leftovers
  <2>7. context \in [block : Memory, node : Memory]  BY <1>2 DEF TablesOK
  <2>8. TablesOK'
    <3>1. \A x \in DOMAIN fContextHash' : fContextHash'[x] \in [block : Memory, node : Memory]
      BY <2>2, <2>5, <2>7 DEF TablesOK
    <3> QED BY <1>1, <1>2, <1>3, <2>1, <2>4, <2>5, <3>1 DEF TablesOK
  <2>9. Parents'  BY <1>2, <1>4, <2>4 DEF Parents
  <2>10. ContextsFollowReferences'  BY <1>2, <1>3, <2>1, <2>4, <2>5, <2>6 DEF ContextsFollowReferences
  <2>11. Leftovers'  BY <1>3, <2>2, <2>4, <2>5 DEF Leftovers
  <2>12. context.node = table[ref].object
    <3>1. context.node = context.block  BY <1>2 DEF VirtualNodes
    <3>2. table[ref].object # Null /\ ref \notin RecordRefs  BY <1>2 DEF Parents, BasePluginAssumption
    <3> QED BY <1>2, <3>1, <3>2 DEF ContextsFollowReferences
  <2>13. VirtualNodes'
    <3>1. ASSUME NEW c \in DOMAIN table, c \in RecordRefs
          PROVE  table[c].node # new /\ table[c].node \in DOMAIN table
      BY <1>4, <3>1 DEF Parents
    <3>2. ref # new  BY <1>2, <1>4
    <3> QED BY <1>2, <1>3, <1>4, <2>4, <2>5, <2>6, <2>12, <3>1, <3>2 DEF VirtualNodes
  <2> QED BY <2>8, <2>9, <2>10, <2>11, <2>13
<1>6. CASE how = "not_found"
  <2>1. UNCHANGED <<fContextHash, table, closing>>  BY <1>6 DEF EndOpen
  <2> QED BY <1>1, <1>3, <2>1, ContextSame DEF ContextVars, daemon
<1>7. CASE how = "failed"
  <2>1. /\ table' = Without(table, {new}) /\ closing' = closing \cup {new}
        /\ UNCHANGED fContextHash
    BY <1>7 DEF EndOpen
  <2>2. \A c \in DOMAIN table : c \in RecordRefs /\ table[c].node \in {new} => c \in {new}
    BY <1>4 DEF ContextInv, Parents
  <2> HIDE DEF new, ref, object, context
  <2> QED BY <1>1, <1>2, <1>3, <2>1, <2>2, RemovalContext
<1> QED BY <1>5, <1>6, <1>7

-----------------------------------------------------------------------------
\* Searches are kept: what others do leaves a thread's references, their
\* contexts and their searches alone.

JobOK(t) == IF Resting(t) THEN serves[t].number = 0 ELSE Working(t) /\ Deleting(t) /\ Opening(t) /\ Searching(t)
Holds(r) ==
  held[r].number # 0 =>
    /\ r \in DOMAIN table
    /\ held[r].number \in DOMAIN fContextMap
    /\ fContextMap[held[r].number] = [fPointer |-> held[r].search, fRefNum |-> r]

Owned(r, u) == r \in DOMAIN table /\ table[r].owner = u
Untouched(u) ==
  /\ \A r \in DOMAIN table : Owned(r, u) =>
       /\ r \in DOMAIN table' /\ table'[r] = table[r]
       /\ r \in DOMAIN fContextHash => r \in DOMAIN fContextHash' /\ fContextHash'[r] = fContextHash[r]
       /\ r \in NodeRefs => held'[r] = held[r]
  /\ \A n \in DOMAIN fContextMap : Owned(fContextMap[n].fRefNum, u) =>
       n \in DOMAIN fContextMap' /\ fContextMap'[n] = fContextMap[n]

LEMMA UntouchedWorks ==
  ASSUME NEW u \in Handlers, JobOK(u), Untouched(u), serves'[u] = serves[u]
  PROVE  JobOK(u)'
<1>1. CASE Resting(u)  BY <1>1 DEF JobOK, Resting
<1>2. CASE ~Resting(u)
  <2>0. Working(u) /\ Deleting(u) /\ Opening(u) /\ Searching(u)  BY <1>2 DEF JobOK
  <2> DEFINE ref == serves[u].ref
  <2>1. Owned(ref, u) /\ ref \in DOMAIN fContextHash  BY <2>0 DEF Working, Owned
  <2>2. /\ ref \in DOMAIN table' /\ table'[ref] = table[ref]
        /\ ref \in DOMAIN fContextHash' /\ fContextHash'[ref] = fContextHash[ref]
        /\ ref \in NodeRefs => held'[ref] = held[ref]
    BY <2>1 DEF Untouched, Owned
  <2>3. Working(u)'  BY <2>0, <2>2 DEF Working
  <2>4. Deleting(u)'  BY <2>0 DEF Deleting
  <2>5. Opening(u)'
    <3>1. CASE serves[u].op.then = "record"
      <4>1. Owned(serves[u].new, u)  BY <2>0, <3>1 DEF Opening, Owned, Reference
      <4>2. serves[u].new \in DOMAIN table' /\ table'[serves[u].new] = table[serves[u].new]
        BY <4>1 DEF Untouched, Owned
      <4> QED BY <2>0, <3>1, <4>2 DEF Opening, Reference
    <3> QED BY <3>1 DEF Opening
  <2>6. Searching(u)'
    <3>1. CASE serves[u].op.then = "search"
      <4>1. /\ ref \in NodeRefs /\ serves[u].number \in DOMAIN fContextMap
            /\ fContextMap[serves[u].number] = [fPointer |-> serves[u].search, fRefNum |-> ref]
            /\ held[ref].number \in {0, serves[u].number}
        BY <2>0, <3>1 DEF Searching
      <4>2. fContextMap[serves[u].number].fRefNum = ref  BY <4>1
      <4>3. serves[u].number \in DOMAIN fContextMap' /\ fContextMap'[serves[u].number] = fContextMap[serves[u].number]
        BY <2>1, <4>1, <4>2 DEF Untouched
      <4> QED BY <2>2, <3>1, <4>1, <4>3 DEF Searching
    <3> QED BY <2>0, <3>1 DEF Searching
  <2> QED BY <1>2, <2>3, <2>4, <2>5, <2>6 DEF JobOK, Resting
<1> QED BY <1>1, <1>2

LEMMA UntouchedHolds ==
  ASSUME NEW u, NEW r \in NodeRefs, Owned(r, u), Holds(r), Untouched(u)
  PROVE  Holds(r)'
<1>1. r \in DOMAIN table' /\ held'[r] = held[r]  BY DEF Untouched, Owned
<1>2. CASE held[r].number # 0
  <2>1. /\ held[r].number \in DOMAIN fContextMap
        /\ fContextMap[held[r].number] = [fPointer |-> held[r].search, fRefNum |-> r]
    BY <1>2 DEF Holds
  <2>2. held[r].number \in DOMAIN fContextMap' /\ fContextMap'[held[r].number] = fContextMap[held[r].number]
    BY <2>1 DEF Untouched
  <2> QED BY <1>1, <2>1, <2>2 DEF Holds
<1> QED BY <1>1, <1>2 DEF Holds

\* So for a step in which one thread's things change, what is left is that
\* thread's own; a node nobody has opened has no search.
LEMMA OthersKept ==
  ASSUME TablesOK, Jobs, Holding, NEW t \in Handlers,
         \A u \in Handlers \ {t} : Untouched(u) /\ serves'[u] = serves[u],
         \A r \in NodeRefs \ DOMAIN table : held'[r] = held[r],
         JobOK(t)',
         \A r \in NodeRefs : Owned(r, t) => Holds(r)'
  PROVE  Jobs' /\ Holding'
<1>1. ASSUME NEW u \in Handlers PROVE JobOK(u)'
  <2>1. CASE u # t
    <3>1. u \in Handlers \ {t}  BY <2>1
    <3>2. JobOK(u)  BY DEF Jobs, JobOK
    <3> QED BY <3>1, <3>2, UntouchedWorks
  <2> QED BY <2>1
<1>2. ASSUME NEW r \in NodeRefs PROVE Holds(r)'
  <2>0. Holds(r)  BY DEF Holding, Holds
  <2>1. CASE r \notin DOMAIN table  BY <2>0, <2>1 DEF Holds
  <2>2. CASE Owned(r, t)  BY <2>2
  <2>3. CASE r \in DOMAIN table /\ ~Owned(r, t)
    <3> DEFINE u == table[r].owner
    <3>1. u \in Handlers \ {t} /\ Owned(r, u)  BY <2>3 DEF Owned, TablesOK, Entry
    <3>2. Untouched(u)  BY <3>1
    <3> HIDE DEF u
    <3> QED BY <2>0, <3>1, <3>2, UntouchedHolds
  <2> QED BY <2>1, <2>2, <2>3
<1>3. Jobs'  BY <1>1 DEF Jobs, JobOK
<1>4. Holding'  BY <1>2 DEF Holding, Holds
<1> QED BY <1>3, <1>4

LEMMA AllKept ==
  ASSUME Jobs, Holding, TablesOK,
         \A u \in Handlers : Untouched(u) /\ serves'[u] = serves[u],
         \A r \in NodeRefs \ DOMAIN table : held'[r] = held[r]
  PROVE  Jobs' /\ Holding'
<1>1. ASSUME NEW u \in Handlers PROVE JobOK(u)'
  <2>1. JobOK(u)  BY DEF Jobs, JobOK
  <2> QED BY <2>1, UntouchedWorks
<1>2. ASSUME NEW r \in NodeRefs PROVE Holds(r)'
  <2>0. Holds(r)  BY DEF Holding, Holds
  <2>1. CASE r \notin DOMAIN table  BY <2>0, <2>1 DEF Holds
  <2>2. CASE r \in DOMAIN table
    <3> DEFINE u == table[r].owner
    <3>1. u \in Handlers /\ Owned(r, u)  BY <2>2 DEF Owned, TablesOK, Entry
    <3>2. Untouched(u)  BY <3>1
    <3> HIDE DEF u
    <3> QED BY <2>0, <3>1, <3>2, UntouchedHolds
  <2> QED BY <2>1, <2>2
<1>3. Jobs'  BY <1>1 DEF Jobs, JobOK
<1>4. Holding'  BY <1>2 DEF Holding, Holds
<1> QED BY <1>3, <1>4

\* Where no search begins, ends or is let go of.
LEMMA AccountedKept ==
  ASSUME Accounted, UNCHANGED <<fContextMap, held, dropped>>,
         \A u \in Handlers : serves[u].number # 0 => serves'[u].number = serves[u].number,
         ignored \subseteq ignored',
         closing \cap DOMAIN fContextHash \subseteq closing' \cap DOMAIN fContextHash'
  PROVE  Accounted'
<1> SUFFICES ASSUME NEW n \in DOMAIN fContextMap \ {0}
             PROVE  \/ \E t \in Handlers : serves'[t].number = n
                    \/ \E r \in NodeRefs : held'[r].number = n
                    \/ n \in dropped'
                    \/ fContextMap'[n].fRefNum \in (closing' \cap DOMAIN fContextHash') \cup ignored'
  BY DEF Accounted
<1>1. CASE \E t \in Handlers : serves[t].number = n
  <2>1. PICK t \in Handlers : serves[t].number = n  BY <1>1
  <2>2. serves'[t].number = n  BY <2>1
  <2> QED BY <2>2
<1>2. CASE \E r \in NodeRefs : held[r].number = n  BY <1>2
<1>3. CASE n \in dropped  BY <1>3
<1>4. CASE fContextMap[n].fRefNum \in (closing \cap DOMAIN fContextHash) \cup ignored  BY <1>4
<1> QED BY <1>1, <1>2, <1>3, <1>4 DEF Accounted

LEMMA SearchInit ==
  ASSUME BaseInit
  PROVE  SearchInv
<1>1. Jobs  BY DEF BaseInit, Jobs, Resting, NoJob
<1>2. Holding  BY DEF BaseInit, Holding, NoSearch
<1>3. Accounted  BY DEF BaseInit, Accounted
<1> QED BY <1>1, <1>2, <1>3 DEF SearchInv

LEMMA SearchSame ==
  ASSUME Inv, UNCHANGED <<tables, daemon, client, serves>>
  PROVE  SearchInv'
<1> USE DEF tables, daemon, client
<1>1. \A u \in Handlers : Untouched(u)  BY DEF Untouched, Owned
<1>2. Jobs' /\ Holding'  BY <1>1, AllKept DEF Inv, ContextInv, SearchInv
<1>3. Accounted'  BY AccountedKept DEF Inv, SearchInv
<1> QED BY <1>2, <1>3 DEF SearchInv

LEMMA OpenDirNodeSearch ==
  ASSUME BasePluginAssumption, Inv, NEW t \in Handlers, NEW r \in NodeRefs,
         NEW own \in BOOLEAN, NEW found \in BOOLEAN, OpenDirNode(t, r, own, found)
  PROVE  SearchInv'
<1> DEFINE object == MakeContextData
           opened == Opened(r, found)
<1>0. ContextInv /\ TablesOK /\ Jobs /\ Holding /\ Accounted  BY DEF Inv, ContextInv, SearchInv
<1>1. /\ r \notin DOMAIN table /\ r \notin closing
      /\ UNCHANGED <<fContextMap, held, dropped, serves, ignored>>
  BY DEF OpenDirNode, Unheld, client
<1>2. /\ fContextHash' = IF opened THEN AddItem(r, [block |-> object, node |-> object]) ELSE Without(fContextHash, {r})
      /\ table' = IF opened THEN With(table, r, Reference(t, Null, object)) ELSE table
      /\ closing' = IF opened THEN closing ELSE closing \cup {r}
  BY DEF OpenDirNode
<1>3. opened => r \notin DOMAIN fContextHash  BY DEF Opened
<1> HIDE DEF object, opened
<1>4. /\ \A x \in DOMAIN table : x \in DOMAIN table' /\ table'[x] = table[x]
      /\ closing \subseteq closing'
  BY <1>1, <1>2 DEF With
<1>5. \A x \in DOMAIN fContextHash : x # r => x \in DOMAIN fContextHash' /\ fContextHash'[x] = fContextHash[x]
  BY <1>2, <1>3 DEF AddItem, With, Without, Restrict
<1>6. \A u \in Handlers : Untouched(u)  BY <1>1, <1>4, <1>5 DEF Untouched, Owned
<1>7. Jobs' /\ Holding'  BY <1>0, <1>1, <1>6, AllKept
<1>8. closing \cap DOMAIN fContextHash \subseteq closing' \cap DOMAIN fContextHash'  BY <1>1, <1>4, <1>5
<1>9. Accounted'  BY <1>0, <1>1, <1>8, AccountedKept
<1> QED BY <1>7, <1>9 DEF SearchInv

LEMMA RemoveReferenceSearch ==
  ASSUME BasePluginAssumption, Inv, NEW t \in Handlers, NEW r \in Refs, RemoveReference(t, r)
  PROVE  SearchInv'
<1> DEFINE gone == {r} \cup Below(r)
<1>0. ContextInv /\ TablesOK /\ Jobs /\ Holding /\ Accounted  BY DEF Inv, ContextInv, SearchInv
<1>1. /\ Resting(t) /\ r \in DOMAIN table /\ table[r].owner = t
      /\ table' = Without(table, gone) /\ closing' = closing \cup gone
      /\ held' = IF r \in NodeRefs THEN [held EXCEPT ![r] = NoSearch] ELSE held
      /\ UNCHANGED <<fContextHash, fContextMap, ignored, dropped, serves>>
  BY DEF RemoveReference, tables
<1>2. \A x \in gone : Owned(x, t)
  <2>1. Owned(r, t)  BY <1>1 DEF Owned
  <2>2. ASSUME NEW c \in DOMAIN table, table[c].node = r PROVE Owned(c, t)
    <3>1. r # Null  BY DEF Refs, Null, BasePluginAssumption
    <3>2. c \notin NodeRefs  BY <2>2, <3>1, <1>0 DEF ContextInv, Parents
    <3>3. c \in RecordRefs  BY <3>2, <1>0 DEF TablesOK, Refs
    <3> QED BY <1>0, <1>1, <2>2, <3>3 DEF ContextInv, Parents, Owned
  <2> QED BY <2>1, <2>2 DEF Below
<1>3. /\ \A x \in DOMAIN table : x \notin gone => x \in DOMAIN table' /\ table'[x] = table[x]
      /\ DOMAIN table' = DOMAIN table \ gone
  BY <1>1 DEF Without, Restrict
<1>4. r \in gone  OBVIOUS
<1> HIDE DEF gone
<1>5. DOMAIN held' = NodeRefs /\ \A x \in NodeRefs : held'[x] = IF x = r THEN NoSearch ELSE held[x]
  BY <1>0, <1>1 DEF TablesOK
<1>6. ASSUME NEW u \in Handlers \ {t} PROVE Untouched(u) /\ serves'[u] = serves[u]
  <2>1. \A x : Owned(x, u) => x \notin gone /\ x # r  BY <1>2, <1>4 DEF Owned
  <2> QED BY <1>1, <1>3, <1>5, <2>1 DEF Untouched, Owned
<1>7. JobOK(t)'  BY <1>0, <1>1 DEF Jobs, JobOK, Resting
<1>8. \A x \in NodeRefs \ DOMAIN table : held'[x] = held[x]  BY <1>1, <1>5
<1>9. ASSUME NEW x \in NodeRefs, Owned(x, t) PROVE Holds(x)'
  <2>1. CASE x = r  BY <1>5, <2>1 DEF Holds, NoSearch
  <2>2. CASE x # r
    <3>1. x \notin gone
      <4>1. SUFFICES ASSUME x \in Below(r) PROVE FALSE  BY <2>2 DEF gone
      <4>2. table[x].node = Null  BY <1>0, <4>1 DEF ContextInv, Parents, Below
      <4>3. table[x].node = r  BY <4>1 DEF Below
      <4> QED BY <4>2, <4>3 DEF Refs, Null, BasePluginAssumption
    <3>2. Holds(x)  BY <1>0 DEF Holding, Holds
    <3> QED BY <1>1, <1>3, <1>5, <2>2, <3>1, <3>2, <1>9 DEF Holds, Owned
  <2> QED BY <2>1, <2>2
<1>10. Jobs' /\ Holding'  BY <1>0, <1>6, <1>7, <1>8, <1>9, OthersKept
<1>11. Accounted'
  <2> SUFFICES ASSUME NEW n \in DOMAIN fContextMap \ {0}
               PROVE  \/ \E u \in Handlers : serves[u].number = n
                      \/ \E x \in NodeRefs : held'[x].number = n
                      \/ n \in dropped
                      \/ fContextMap[n].fRefNum \in (closing' \cap DOMAIN fContextHash) \cup ignored
    BY <1>1 DEF Accounted
  <2>1. CASE \E x \in NodeRefs : held[x].number = n
    <3>1. PICK x \in NodeRefs : held[x].number = n  BY <2>1
    <3>2. CASE x # r  BY <1>5, <3>1, <3>2
    <3>3. CASE x = r
      <4>1. fContextMap[n] = [fPointer |-> held[r].search, fRefNum |-> r]
        BY <1>0, <3>1, <3>3 DEF Holding
      <4>2. r \in DOMAIN fContextHash
        <5>1. table[r].object # Null /\ r \notin RecordRefs
          BY <1>0, <1>1, <3>1, <3>3 DEF ContextInv, Parents, BasePluginAssumption
        <5> QED BY <1>0, <1>1, <5>1 DEF ContextInv, ContextsFollowReferences
      <4> QED BY <1>1, <1>4, <4>1, <4>2
    <3> QED BY <3>2, <3>3
  <2> QED BY <1>0, <1>1, <2>1 DEF Accounted
<1> QED BY <1>10, <1>11 DEF SearchInv

LEMMA RefDeallocSearch ==
  ASSUME BasePluginAssumption, Inv, NEW r \in Refs, RefDealloc(r)
  PROVE  SearchInv'
<1>0. ContextInv /\ TablesOK /\ Jobs /\ Holding /\ Accounted  BY DEF Inv, ContextInv, SearchInv
<1>1. r \in closing /\ closing' = closing \ {r} /\ UNCHANGED <<table, held, serves>>
  BY DEF RefDealloc
<1>2. r \notin DOMAIN table  BY <1>0, <1>1 DEF TablesOK
<1>3. CASE fState.active
  <2>1. /\ fContextHash' = Without(fContextHash, {r})
        /\ ignored' = IF r \in DOMAIN fContextHash THEN ignored \ {r} ELSE ignored
        /\ CloseDirNode(r) \/ CloseRecord(r)
    BY <1>3 DEF RefDealloc
  <2>2. \A x \in DOMAIN fContextHash : x # r => x \in DOMAIN fContextHash' /\ fContextHash'[x] = fContextHash[x]
    BY <2>1 DEF Without, Restrict
  <2>3. /\ \A n \in DOMAIN fContextMap : fContextMap[n].fRefNum # r =>
             n \in DOMAIN fContextMap' /\ fContextMap'[n] = fContextMap[n]
        /\ \A n \in DOMAIN fContextMap' : /\ n \in DOMAIN fContextMap /\ fContextMap'[n] = fContextMap[n]
                                          /\ fContextMap[n].fRefNum = r => r \notin DOMAIN fContextHash
                                          /\ n \in dropped => n \in dropped'
    <3>1. CASE CloseDirNode(r)
      <4> DEFINE gone == IF r \in DOMAIN fContextHash THEN PointersForRefNum(r) ELSE {}
      <4>1. fContextMap' = Without(fContextMap, gone) /\ dropped' = dropped \ gone  BY <3>1 DEF CloseDirNode
      <4>2. \A n \in DOMAIN fContextMap :
              n \in gone <=> r \in DOMAIN fContextHash /\ fContextMap[n].fRefNum = r
        BY DEF PointersForRefNum
      <4> HIDE DEF gone
      <4> QED BY <4>1, <4>2 DEF Without, Restrict
    <3>2. CASE CloseRecord(r)
      <4>1. r \notin NodeRefs /\ UNCHANGED <<fContextMap, dropped>>  BY <3>2 DEF CloseRecord, BasePluginAssumption
      <4>2. \A n \in DOMAIN fContextMap : fContextMap[n].fRefNum # r  BY <1>0, <4>1 DEF TablesOK
      <4> QED BY <4>1, <4>2
    <3> QED BY <2>1, <3>1, <3>2
  <2>4. ASSUME NEW u \in Handlers PROVE Untouched(u) /\ serves'[u] = serves[u]
    <3>1. \A x : Owned(x, u) => x # r  BY <1>2 DEF Owned
    <3> QED BY <1>1, <2>2, <2>3, <3>1 DEF Untouched
  <2>5. Jobs' /\ Holding'  BY <1>0, <1>1, <2>4, AllKept
  <2>6. Accounted'
    <3> SUFFICES ASSUME NEW n \in DOMAIN fContextMap' \ {0}
                 PROVE  \/ \E u \in Handlers : serves'[u].number = n
                        \/ \E x \in NodeRefs : held'[x].number = n
                        \/ n \in dropped'
                        \/ fContextMap'[n].fRefNum \in (closing' \cap DOMAIN fContextHash') \cup ignored'
      BY DEF Accounted
    <3>1. /\ n \in DOMAIN fContextMap /\ fContextMap'[n] = fContextMap[n]
          /\ fContextMap[n].fRefNum = r => r \notin DOMAIN fContextHash
          /\ n \in dropped => n \in dropped'
      BY <2>3
    <3>2. \/ \E u \in Handlers : serves[u].number = n
          \/ \E x \in NodeRefs : held[x].number = n
          \/ n \in dropped
          \/ fContextMap[n].fRefNum \in (closing \cap DOMAIN fContextHash) \cup ignored
      BY <1>0, <3>1 DEF Accounted
    <3>3. CASE fContextMap[n].fRefNum = r  BY <1>1, <2>1, <3>1, <3>2, <3>3
    <3>4. CASE fContextMap[n].fRefNum # r  BY <1>1, <2>1, <2>2, <3>1, <3>2, <3>4
    <3> QED BY <3>3, <3>4
  <2> QED BY <2>5, <2>6 DEF SearchInv
<1>4. CASE ~fState.active
  <2>1. ignored' = ignored \cup {r} /\ UNCHANGED <<fContextHash, fContextMap, dropped>>  BY <1>4 DEF RefDealloc
  <2>2. \A u \in Handlers : Untouched(u) /\ serves'[u] = serves[u]  BY <1>1, <2>1 DEF Untouched, Owned
  <2>3. Jobs' /\ Holding'  BY <1>0, <1>1, <2>2, AllKept
  <2>4. Accounted'
    <3>1. (closing \cap DOMAIN fContextHash) \cup ignored \subseteq (closing' \cap DOMAIN fContextHash') \cup ignored'
      BY <1>1, <2>1
    <3> QED BY <1>0, <1>1, <2>1, <3>1 DEF Accounted
  <2> QED BY <2>3, <2>4 DEF SearchInv
<1> QED BY <1>3, <1>4

\* Which requests are about records.
LEMMA DeletesAreOfRecords ==
  ASSUME NEW op \in ProcessRequest, op.then = "gone"
  PROVE  op.on = "record"
BY DEF ProcessRequest, Request, DoPlugInCustomCall, GetDirNodeInfo, DoAuthentication, DoAuthGetPolicy,
       DoSimpleAuthentication, DoSimplePasswordChange, DoExtendedAuthentication, GetRecordList,
       DoAttributeValueSearchWithData, OpenRecord, CreateRecord, GetRecRefInfo, GetRecAttribInfo,
       GetRecAttrValueByValue, GetRecAttrValueByIndex, GetRecAttrValueByID, SetRecordType, SetRecordName,
       FlushRecord, AddAttribute, RemoveAttribute, AddAttributeValue, RemoveAttributeValue,
       SetAttributeValue, DeleteRecord

\* A thread that ends rests, and has had no number but a search's.
LEMMA RestsAfter ==
  ASSUME TablesOK, Jobs, NEW t \in Handlers, NEW then, Ends(t, then)
  PROVE  /\ JobOK(t)'
         /\ \A u \in Handlers \ {t} : serves'[u] = serves[u]
         /\ then # "search" => \A u \in Handlers : serves[u].number # 0 => serves'[u].number = serves[u].number
<1>1. ~Resting(t) /\ serves[t].op.then = then /\ serves' = [serves EXCEPT ![t] = NoJob]  BY DEF Ends
<1>2. serves'[t] = NoJob /\ \A u \in Handlers \ {t} : serves'[u] = serves[u]  BY <1>1 DEF TablesOK
<1>3. JobOK(t)'  BY <1>2 DEF JobOK, Resting, NoJob
<1>4. then # "search" => serves[t].number = 0  BY <1>1, AtWork DEF Searching
<1> QED BY <1>2, <1>3, <1>4

LEMMA BeginSearchless ==
  ASSUME BasePluginAssumption, Inv, NEW t \in Handlers, NEW op \in ProcessRequest, NEW r \in Refs,
         BeginPlain(t, op, r)
  PROVE  SearchInv'
<1>0. ContextInv /\ TablesOK /\ Jobs /\ Holding /\ Accounted  BY DEF Inv, ContextInv, SearchInv
<1>1. /\ Resting(t) /\ r \in DOMAIN table /\ table[r].owner = t /\ r \in DOMAIN fContextHash
      /\ r \in IF op.on = "node" THEN NodeRefs ELSE RecordRefs
      /\ op.then \in {"nothing", "gone"}
      /\ serves' = [serves EXCEPT ![t] = [op |-> op, ref |-> r, new |-> Null, context |-> fContextHash[r],
                                    search |-> Null, number |-> 0]]
      /\ UNCHANGED <<tables, daemon, client>>
  BY DEF BeginPlain, Begins, Begun
<1>2. /\ serves'[t] = [op |-> op, ref |-> r, new |-> Null, context |-> fContextHash[r],
                    search |-> Null, number |-> 0]
      /\ \A u \in Handlers \ {t} : serves'[u] = serves[u]
  BY <1>0, <1>1 DEF TablesOK
<1>3. op.then = "gone" => r \in RecordRefs  BY <1>1, DeletesAreOfRecords
<1>4. UNCHANGED <<table, fContextHash, fContextMap, held, dropped, closing, ignored>>
  BY <1>1 DEF tables, daemon, client
<1>5. JobOK(t)'
  <2>1. Working(t)'  BY <1>1, <1>2, <1>4 DEF Working
  <2>2. Deleting(t)'  BY <1>2, <1>3 DEF Deleting
  <2>3. Opening(t)' /\ Searching(t)'  BY <1>1, <1>2 DEF Opening, Searching
  <2> QED BY <1>2, <2>1, <2>2, <2>3 DEF JobOK
<1>6. \A u \in Handlers : Untouched(u)  BY <1>4 DEF Untouched, Owned
<1>7. \A x \in NodeRefs : Holds(x)'  BY <1>0, <1>4 DEF Holding, Holds
<1>8. Jobs' /\ Holding'  BY <1>0, <1>2, <1>4, <1>5, <1>6, <1>7, OthersKept
<1>9. serves[t].number = 0  BY <1>0, <1>1 DEF Jobs
<1>10. \A u \in Handlers : serves[u].number # 0 => serves'[u].number = serves[u].number  BY <1>2, <1>9
<1>11. Accounted'  BY <1>0, <1>4, <1>10, AccountedKept
<1> QED BY <1>8, <1>11 DEF SearchInv

LEMMA BeginOpenSearch ==
  ASSUME BasePluginAssumption, Inv, NEW t \in Handlers, NEW op \in ProcessRequest,
         NEW r \in NodeRefs, NEW new \in RecordRefs, BeginOpen(t, op, r, new)
  PROVE  SearchInv'
<1>0. ContextInv /\ TablesOK /\ Jobs /\ Holding /\ Accounted  BY DEF Inv, ContextInv, SearchInv
<1>1. /\ Resting(t) /\ r \in DOMAIN table /\ table[r].owner = t /\ r \in DOMAIN fContextHash
      /\ new \notin DOMAIN table
      /\ op.then = "record"
      /\ table' = With(table, new, Reference(t, r, Null))
      /\ serves' = [serves EXCEPT ![t] = [op |-> op, ref |-> r, new |-> new, context |-> fContextHash[r],
                                    search |-> Null, number |-> 0]]
      /\ UNCHANGED <<fContextHash, fContextMap, held, dropped, closing, ignored>>
  BY DEF BeginOpen, Begins, Begun, Unheld, tables, client
<1>2. /\ serves'[t] = [op |-> op, ref |-> r, new |-> new, context |-> fContextHash[r],
                    search |-> Null, number |-> 0]
      /\ \A u \in Handlers \ {t} : serves'[u] = serves[u]
  BY <1>0, <1>1 DEF TablesOK
<1>3. /\ DOMAIN table' = DOMAIN table \cup {new}
      /\ table'[new] = Reference(t, r, Null)
      /\ \A x \in DOMAIN table : table'[x] = table[x]
  BY <1>1 DEF With
<1>5. JobOK(t)'
  <2>1. Working(t)'  BY <1>1, <1>2, <1>3 DEF Working
  <2>2. Deleting(t)'  BY <1>1, <1>2 DEF Deleting
  <2>3. Opening(t)'  BY <1>1, <1>2, <1>3 DEF Opening, Reference
  <2>4. Searching(t)'  BY <1>1, <1>2 DEF Searching
  <2> QED BY <1>2, <2>1, <2>2, <2>3, <2>4 DEF JobOK
<1>6. \A u \in Handlers : Untouched(u)  BY <1>1, <1>3 DEF Untouched, Owned
<1>7. \A x \in NodeRefs : Holds(x)'  BY <1>0, <1>1, <1>3 DEF Holding, Holds
<1>8. Jobs' /\ Holding'  BY <1>0, <1>1, <1>2, <1>5, <1>6, <1>7, OthersKept
<1>9. serves[t].number = 0  BY <1>0, <1>1 DEF Jobs
<1>10. \A u \in Handlers : serves[u].number # 0 => serves'[u].number = serves[u].number  BY <1>2, <1>9
<1>11. Accounted'  BY <1>0, <1>1, <1>10, AccountedKept
<1> QED BY <1>8, <1>11 DEF SearchInv

LEMMA EndSearchless ==
  ASSUME Inv, NEW t \in Handlers, End(t)
  PROVE  SearchInv'
<1>0. TablesOK /\ Jobs /\ Holding /\ Accounted  BY DEF Inv, ContextInv, SearchInv
<1>1. Ends(t, "nothing") /\ UNCHANGED <<table, fContextHash, fContextMap, held, dropped, closing, ignored>>
  BY DEF End, tables, daemon, client
<1>2. /\ JobOK(t)'
      /\ \A u \in Handlers \ {t} : serves'[u] = serves[u]
      /\ \A u \in Handlers : serves[u].number # 0 => serves'[u].number = serves[u].number
  BY <1>0, <1>1, RestsAfter
<1>3. \A u \in Handlers : Untouched(u)  BY <1>1 DEF Untouched, Owned
<1>4. \A x \in NodeRefs : Holds(x)'  BY <1>0, <1>1 DEF Holding, Holds
<1>5. Jobs' /\ Holding'  BY <1>0, <1>1, <1>2, <1>3, <1>4, OthersKept
<1>6. Accounted'  BY <1>0, <1>1, <1>2, AccountedKept
<1> QED BY <1>5, <1>6 DEF SearchInv

\* What is left of a record when a request on its thread ends.
LEMMA EndRecordSearch ==
  ASSUME BasePluginAssumption, Inv, NEW t \in Handlers, NEW then \in {"gone", "record"}, Ends(t, then),
         NEW r \in RecordRefs, Owned(r, t),
         \A x \in DOMAIN table : x # r => x \in DOMAIN table' /\ table'[x] = table[x],
         \A x \in DOMAIN fContextHash : x # r => x \in DOMAIN fContextHash' /\ fContextHash'[x] = fContextHash[x],
         closing \subseteq closing',
         UNCHANGED <<fContextMap, ignored, held, dropped>>
  PROVE  SearchInv'
<1>0. TablesOK /\ Jobs /\ Holding /\ Accounted  BY DEF Inv, ContextInv, SearchInv
<1>1. /\ JobOK(t)'
      /\ \A u \in Handlers \ {t} : serves'[u] = serves[u]
      /\ \A u \in Handlers : serves[u].number # 0 => serves'[u].number = serves[u].number
  BY <1>0, RestsAfter
<1>2. r \notin NodeRefs /\ r \notin closing  BY <1>0 DEF BasePluginAssumption, TablesOK, Owned
<1>3. ASSUME NEW u \in Handlers \ {t} PROVE Untouched(u)
  <2>1. \A x : Owned(x, u) => x # r  BY DEF Owned
  <2> QED BY <2>1 DEF Untouched
<1>4. ASSUME NEW x \in NodeRefs PROVE Holds(x)'
  <2>1. Holds(x) /\ x # r  BY <1>0, <1>2 DEF Holding, Holds
  <2> QED BY <2>1 DEF Holds
<1>5. Jobs' /\ Holding'  BY <1>0, <1>1, <1>3, <1>4, OthersKept
<1>6. closing \cap DOMAIN fContextHash \subseteq closing' \cap DOMAIN fContextHash'  BY <1>2
<1>7. Accounted'  BY <1>0, <1>1, <1>6, AccountedKept
<1> QED BY <1>5, <1>7 DEF SearchInv

LEMMA EndDeleteSearch ==
  ASSUME BasePluginAssumption, Inv, NEW t \in Handlers, NEW deleted \in BOOLEAN, EndDelete(t, deleted)
  PROVE  SearchInv'
<1> DEFINE r == serves[t].ref
<1>0. TablesOK /\ Jobs  BY DEF Inv, ContextInv, SearchInv
<1>1. Ends(t, "gone") /\ ~Resting(t) /\ serves[t].op.then = "gone"  BY DEF EndDelete, Ends
<1>2. r \in RecordRefs /\ Owned(r, t)  BY <1>0, <1>1, AtWork DEF Working, Deleting, Owned
<1>3. /\ fContextHash' = Without(fContextHash, {r})
      /\ table' = IF deleted THEN Without(table, {r}) ELSE [table EXCEPT ![r].object = Null]
      /\ closing' = IF deleted THEN closing \cup {r} ELSE closing
      /\ UNCHANGED <<fContextMap, ignored, held, dropped>>
  BY DEF EndDelete, client
<1> HIDE DEF r
<1>4. \A x \in DOMAIN table : x # r => x \in DOMAIN table' /\ table'[x] = table[x]
  BY <1>3 DEF Without, Restrict
<1>5. \A x \in DOMAIN fContextHash : x # r => x \in DOMAIN fContextHash' /\ fContextHash'[x] = fContextHash[x]
  BY <1>3 DEF Without, Restrict
<1>6. closing \subseteq closing'  BY <1>3
<1> QED BY <1>1, <1>2, <1>3, <1>4, <1>5, <1>6, EndRecordSearch

LEMMA EndOpenSearch ==
  ASSUME BasePluginAssumption, Inv, NEW t \in Handlers,
         NEW how \in {"found", "not_found", "failed"}, EndOpen(t, how)
  PROVE  SearchInv'
<1> DEFINE new == serves[t].new
           object == MakeContextData
           context == serves[t].context
<1>0. TablesOK /\ Jobs  BY DEF Inv, ContextInv, SearchInv
<1>1. Ends(t, "record") /\ ~Resting(t) /\ serves[t].op.then = "record"  BY DEF EndOpen, Ends
<1>2. new \in RecordRefs /\ Owned(new, t)
  <2>1. Opening(t)  BY <1>0, <1>1, AtWork
  <2>2. new \in RecordRefs \cap DOMAIN table /\ table[new] = Reference(t, serves[t].ref, Null)
    BY <1>1, <2>1 DEF Opening
  <2>3. table[new].owner = t  BY <2>2 DEF Reference
  <2> QED BY <2>2, <2>3 DEF Owned
<1>3. /\ \/ /\ fContextHash' = AddItem(new, [block |-> object, node |-> context.node])
            /\ table' = [table EXCEPT ![new].object = object]
            /\ UNCHANGED closing
         \/ UNCHANGED <<fContextHash, table, closing>>
         \/ /\ table' = Without(table, {new})
            /\ closing' = closing \cup {new}
            /\ UNCHANGED fContextHash
      /\ UNCHANGED <<fContextMap, ignored, held, dropped>>
  BY DEF EndOpen, client
<1> HIDE DEF new, object, context
<1>4. \A x \in DOMAIN table : x # new => x \in DOMAIN table' /\ table'[x] = table[x]
  BY <1>3 DEF Without, Restrict
<1>5. \A x \in DOMAIN fContextHash : x # new => x \in DOMAIN fContextHash' /\ fContextHash'[x] = fContextHash[x]
  BY <1>3 DEF AddItem, With
<1>6. closing \subseteq closing'  BY <1>3
<1> QED BY <1>1, <1>2, <1>3, <1>4, <1>5, <1>6, EndRecordSearch

LEMMA BeginSearchSearch ==
  ASSUME BasePluginAssumption, Inv, NEW t \in Handlers, NEW op \in ProcessRequest, NEW r \in NodeRefs,
         BeginSearch(t, op, r)
  PROVE  SearchInv'
<1>0. ContextInv /\ TablesOK /\ Jobs /\ Holding /\ Accounted  BY DEF Inv, ContextInv, SearchInv
<1>1. /\ op.then = "search" /\ Resting(t)
      /\ r \in DOMAIN table /\ table[r].owner = t /\ r \in DOMAIN fContextHash
      /\ UNCHANGED <<table, fContextHash, held, dropped, closing, ignored>>
  BY DEF BeginSearch, Begins, daemon, client
<1>2. PICK search, number :
        /\ serves' = [serves EXCEPT ![t] = [op |-> op, ref |-> r, new |-> Null, context |-> fContextHash[r],
                                      search |-> search, number |-> number]]
        /\ number \in DOMAIN fContextMap'
        /\ fContextMap'[number] = [fPointer |-> search, fRefNum |-> r]
        /\ held[r].number \in {0, number}
        /\ \A n \in DOMAIN fContextMap : n \in DOMAIN fContextMap' /\ fContextMap'[n] = fContextMap[n]
        /\ \A n \in DOMAIN fContextMap' : n \in DOMAIN fContextMap \cup {number}
  <2>1. CASE held[r].number # 0
    <3>1. /\ UNCHANGED fContextMap /\ held[r].number \in DOMAIN fContextMap
          /\ Begun(t, op, r, Null, fContextMap[held[r].number].fPointer, held[r].number)
      BY <2>1 DEF BeginSearch
    <3>2. fContextMap[held[r].number] = [fPointer |-> held[r].search, fRefNum |-> r]
      BY <1>0, <2>1 DEF Holding
    <3>3. fContextMap[held[r].number].fPointer = held[r].search  BY <3>2
    <3>4. serves' = [serves EXCEPT ![t] = [op |-> op, ref |-> r, new |-> Null, context |-> fContextHash[r],
                                     search |-> held[r].search, number |-> held[r].number]]
      BY <3>1, <3>3 DEF Begun
    <3> QED BY <3>1, <3>2, <3>4
  <2>2. CASE held[r].number = 0
    <3> DEFINE number == NextNumber
               block == MakeContextData
    <3>1. /\ Cardinality(DOMAIN fContextMap) < ContextSpace - 1
          /\ AddPointer(block, r) /\ Begun(t, op, r, Null, block, number)
      BY <2>2 DEF BeginSearch
    <3>2. number \notin DOMAIN fContextMap  BY <1>0, <3>1, NumberFound DEF TablesOK
    <3>3. fContextMap' = With(fContextMap, number, [fPointer |-> block, fRefNum |-> r])  BY <3>1 DEF AddPointer
    <3>4. serves' = [serves EXCEPT ![t] = [op |-> op, ref |-> r, new |-> Null, context |-> fContextHash[r],
                                     search |-> block, number |-> number]]
      BY <3>1 DEF Begun
    <3> HIDE DEF number, block
    <3>5. /\ number \in DOMAIN fContextMap'
          /\ fContextMap'[number] = [fPointer |-> block, fRefNum |-> r]
          /\ \A n \in DOMAIN fContextMap : n \in DOMAIN fContextMap' /\ fContextMap'[n] = fContextMap[n]
          /\ \A n \in DOMAIN fContextMap' : n \in DOMAIN fContextMap \cup {number}
      BY <3>2, <3>3 DEF With
    <3> QED BY <2>2, <3>4, <3>5
  <2> QED BY <2>1, <2>2
<1>3. /\ serves'[t] = [op |-> op, ref |-> r, new |-> Null, context |-> fContextHash[r],
                    search |-> search, number |-> number]
      /\ \A u \in Handlers \ {t} : serves'[u] = serves[u]
  BY <1>0, <1>2 DEF TablesOK
<1>5. JobOK(t)'
  <2>1. Working(t)'  BY <1>1, <1>3 DEF Working
  <2>2. Deleting(t)' /\ Opening(t)'  BY <1>1, <1>3 DEF Deleting, Opening
  <2>3. Searching(t)'  BY <1>1, <1>2, <1>3 DEF Searching
  <2>4. ~Resting(t)'  BY <1>3 DEF Resting, Null, BasePluginAssumption
  <2> QED BY <2>1, <2>2, <2>3, <2>4 DEF JobOK
<1>6. \A u \in Handlers : Untouched(u)  BY <1>1, <1>2 DEF Untouched, Owned
<1>7. ASSUME NEW x \in NodeRefs PROVE Holds(x)'
  <2>1. Holds(x)  BY <1>0 DEF Holding, Holds
  <2> QED BY <1>1, <1>2, <2>1 DEF Holds
<1>8. Jobs' /\ Holding'  BY <1>0, <1>1, <1>3, <1>5, <1>6, <1>7, OthersKept
<1>9. serves[t].number = 0  BY <1>0, <1>1 DEF Jobs
<1>10. Accounted'
  <2> SUFFICES ASSUME NEW n \in DOMAIN fContextMap' \ {0}
               PROVE  \/ \E u \in Handlers : serves'[u].number = n
                      \/ \E x \in NodeRefs : held[x].number = n
                      \/ n \in dropped
                      \/ fContextMap'[n].fRefNum \in (closing \cap DOMAIN fContextHash) \cup ignored
    BY <1>1 DEF Accounted
  <2>1. CASE n = number  BY <1>3, <2>1
  <2>2. CASE n # number
    <3>1. n \in DOMAIN fContextMap /\ fContextMap'[n] = fContextMap[n]  BY <1>2, <2>2
    <3>2. CASE \E u \in Handlers : serves[u].number = n
      <4>1. PICK u \in Handlers : serves[u].number = n  BY <3>2
      <4>2. u \in Handlers \ {t}  BY <1>9, <4>1
      <4>3. serves'[u].number = n  BY <1>3, <4>1, <4>2
      <4> QED BY <4>3
    <3> QED BY <1>0, <3>1, <3>2 DEF Accounted
  <2> QED BY <2>1, <2>2
<1> QED BY <1>8, <1>10 DEF SearchInv

\* A number is taken off the map by the one thread whose node it is for.
LEMMA RemovalTouches ==
  ASSUME NEW t, NEW r, Owned(r, t), NEW number \in DOMAIN fContextMap, fContextMap[number].fRefNum = r,
         fContextMap' \in {fContextMap, RemoveContext(number)}
  PROVE  /\ \A u \in Handlers \ {t} : \A n \in DOMAIN fContextMap :
               Owned(fContextMap[n].fRefNum, u) => n \in DOMAIN fContextMap' /\ fContextMap'[n] = fContextMap[n]
         /\ \A n \in DOMAIN fContextMap : n # number => n \in DOMAIN fContextMap' /\ fContextMap'[n] = fContextMap[n]
         /\ \A n \in DOMAIN fContextMap' : n \in DOMAIN fContextMap /\ fContextMap'[n] = fContextMap[n]
<1>1. /\ \A n \in DOMAIN fContextMap : n # number => n \in DOMAIN fContextMap' /\ fContextMap'[n] = fContextMap[n]
      /\ \A n \in DOMAIN fContextMap' : n \in DOMAIN fContextMap /\ fContextMap'[n] = fContextMap[n]
  BY DEF RemoveContext, Without, Restrict
<1>2. \A u \in Handlers \ {t} : ~Owned(r, u)  BY DEF Owned
<1> QED BY <1>1, <1>2

LEMMA EndSearchSearch ==
  ASSUME BasePluginAssumption, Inv, NEW t \in Handlers, NEW done \in BOOLEAN, EndSearch(t, done)
  PROVE  SearchInv'
<1> DEFINE ref == serves[t].ref
           number == serves[t].number
           search == serves[t].search
<1>0. ContextInv /\ TablesOK /\ Jobs /\ Holding /\ Accounted  BY DEF Inv, ContextInv, SearchInv
<1>1. /\ Ends(t, "search") /\ ~Resting(t) /\ serves[t].op.then = "search"
      /\ fContextMap' = IF done THEN RemoveContext(number) ELSE fContextMap
      /\ held' = [held EXCEPT ![ref] = Answered(IF done THEN 0 ELSE number, search)]
      /\ UNCHANGED <<fContextHash, table, closing, ignored, dropped>>
  BY DEF EndSearch, Ends, daemon
<1>2. /\ Owned(ref, t) /\ ref \in NodeRefs
      /\ number \in DOMAIN fContextMap /\ fContextMap[number] = [fPointer |-> search, fRefNum |-> ref]
      /\ held[ref].number \in {0, number}
  <2>1. Working(t) /\ Searching(t)  BY <1>0, <1>1, AtWork
  <2>2. ref \in DOMAIN table /\ table[ref].owner = t  BY <2>1 DEF Working
  <2> QED BY <1>1, <2>1, <2>2 DEF Searching, Owned
<1>3. JobOK(t)' /\ \A u \in Handlers \ {t} : serves'[u] = serves[u]  BY <1>0, <1>1, RestsAfter
<1> HIDE DEF ref, number, search
<1>4. fContextMap[number].fRefNum = ref  BY <1>2
<1>5. /\ \A u \in Handlers \ {t} : \A n \in DOMAIN fContextMap :
            Owned(fContextMap[n].fRefNum, u) => n \in DOMAIN fContextMap' /\ fContextMap'[n] = fContextMap[n]
      /\ \A n \in DOMAIN fContextMap : n # number => n \in DOMAIN fContextMap' /\ fContextMap'[n] = fContextMap[n]
      /\ \A n \in DOMAIN fContextMap' : n \in DOMAIN fContextMap /\ fContextMap'[n] = fContextMap[n]
  <2>1. fContextMap' \in {fContextMap, RemoveContext(number)}  BY <1>1
  <2> QED BY <1>2, <1>4, <2>1, RemovalTouches
<1>6. /\ \A x \in NodeRefs : x # ref => held'[x] = held[x]
      /\ held'[ref] = Answered(IF done THEN 0 ELSE number, search)
  BY <1>0, <1>1, <1>2 DEF TablesOK
<1>7. ASSUME NEW u \in Handlers \ {t} PROVE Untouched(u)
  <2>1. \A x : Owned(x, u) => x # ref  BY <1>2 DEF Owned
  <2> QED BY <1>1, <1>5, <1>6, <2>1 DEF Untouched
<1>8. \A x \in NodeRefs \ DOMAIN table : held'[x] = held[x]  BY <1>2, <1>6 DEF Owned
<1>9. ASSUME NEW x \in NodeRefs, Owned(x, t) PROVE Holds(x)'
  <2>0. Holds(x)  BY <1>0 DEF Holding, Holds
  <2>1. CASE x # ref
    <3>1. SUFFICES ASSUME held[x].number # 0 PROVE Holds(x)'  BY <1>6, <2>1 DEF Holds
    <3>2. held[x].number \in DOMAIN fContextMap /\ fContextMap[held[x].number] = [fPointer |-> held[x].search, fRefNum |-> x]
      BY <2>0, <3>1 DEF Holds
    <3>3. fContextMap[held[x].number].fRefNum = x  BY <3>2
    <3>4. held[x].number # number  BY <1>4, <2>1, <3>3
    <3>5. held[x].number \in DOMAIN fContextMap' /\ fContextMap'[held[x].number] = fContextMap[held[x].number]
      BY <1>5, <3>2, <3>4
    <3> QED BY <1>1, <1>6, <1>9, <2>1, <3>2, <3>5 DEF Holds, Owned
  <2>2. CASE x = ref /\ (done \/ number = 0)
    <3>1. held'[x].number = 0  BY <1>6, <2>2 DEF Answered, NoSearch
    <3> QED BY <3>1 DEF Holds
  <2>3. CASE x = ref /\ ~done /\ number # 0
    <3>1. held'[x] = [number |-> number, search |-> search] /\ fContextMap' = fContextMap
      BY <1>1, <1>6, <2>3 DEF Answered
    <3> QED BY <1>1, <1>2, <2>3, <3>1 DEF Holds, Owned
  <2> QED BY <2>1, <2>2, <2>3
<1>10. Jobs' /\ Holding'  BY <1>0, <1>3, <1>7, <1>8, <1>9, OthersKept
<1>11. Accounted'
  <2> SUFFICES ASSUME NEW n \in DOMAIN fContextMap' \ {0}
               PROVE  \/ \E u \in Handlers : serves'[u].number = n
                      \/ \E x \in NodeRefs : held'[x].number = n
                      \/ n \in dropped
                      \/ fContextMap'[n].fRefNum \in (closing \cap DOMAIN fContextHash) \cup ignored
    BY <1>1 DEF Accounted
  <2>1. n \in DOMAIN fContextMap /\ fContextMap'[n] = fContextMap[n]  BY <1>5
  <2>2. CASE n = number
    <3>1. ~done
      <4>1. SUFFICES ASSUME done PROVE FALSE  OBVIOUS
      <4>2. fContextMap' = RemoveContext(number)  BY <1>1, <4>1
      <4>3. n \notin DOMAIN fContextMap'  BY <2>2, <4>2 DEF RemoveContext, Without, Restrict
      <4> QED BY <4>3
    <3>2. held'[ref] = [number |-> n, search |-> search]  BY <1>6, <2>2, <3>1 DEF Answered
    <3>3. held'[ref].number = n  BY <3>2
    <3> QED BY <1>2, <3>3
  <2>3. CASE n # number
    <3>1. CASE \E u \in Handlers : serves[u].number = n
      <4>1. PICK u \in Handlers : serves[u].number = n  BY <3>1
      <4>2. u \in Handlers \ {t}  BY <2>3, <4>1 DEF number
      <4>3. serves'[u].number = n  BY <1>3, <4>1, <4>2
      <4> QED BY <4>3
    <3>2. CASE \E x \in NodeRefs : held[x].number = n
      <4>1. PICK x \in NodeRefs : held[x].number = n  BY <3>2
      <4>2. x # ref  BY <1>2, <2>3, <4>1
      <4>3. held'[x].number = n  BY <1>6, <4>1, <4>2
      <4> QED BY <4>3
    <3> QED BY <1>0, <2>1, <3>1, <3>2 DEF Accounted
  <2> QED BY <2>2, <2>3
<1> QED BY <1>10, <1>11 DEF SearchInv

\* A client that lets go of a search: the plug-in is told, or not.
LEMMA LetGoSearch ==
  ASSUME BasePluginAssumption, Inv, NEW t \in Handlers, NEW r \in NodeRefs,
         Resting(t), Owned(r, t), held[r].number # 0,
         held' = [held EXCEPT ![r] = NoSearch],
         \/ fContextMap' = RemoveContext(held[r].number) /\ UNCHANGED dropped
         \/ UNCHANGED fContextMap /\ dropped' = dropped \cup {held[r].number},
         UNCHANGED <<fContextHash, table, closing, ignored, serves>>
  PROVE  SearchInv'
<1> DEFINE number == held[r].number
<1>0. ContextInv /\ TablesOK /\ Jobs /\ Holding /\ Accounted  BY DEF Inv, ContextInv, SearchInv
<1>1. number \in DOMAIN fContextMap /\ fContextMap[number] = [fPointer |-> held[r].search, fRefNum |-> r]
  BY <1>0 DEF Holding
<1>2. fContextMap[number].fRefNum = r  BY <1>1
<1>3. fContextMap' \in {fContextMap, RemoveContext(number)}  OBVIOUS
<1>4. number # 0  OBVIOUS
<1>5. number \in dropped' \/ number \notin DOMAIN fContextMap'  BY <1>4 DEF RemoveContext, Without, Restrict
<1>6. dropped \subseteq dropped'  OBVIOUS
<1>7. /\ \A u \in Handlers \ {t} : \A n \in DOMAIN fContextMap :
            Owned(fContextMap[n].fRefNum, u) => n \in DOMAIN fContextMap' /\ fContextMap'[n] = fContextMap[n]
      /\ \A n \in DOMAIN fContextMap : n # number => n \in DOMAIN fContextMap' /\ fContextMap'[n] = fContextMap[n]
      /\ \A n \in DOMAIN fContextMap' : n \in DOMAIN fContextMap /\ fContextMap'[n] = fContextMap[n]
  <2> HIDE DEF number
  <2> QED BY <1>1, <1>2, <1>3, RemovalTouches
<1>8. held'[r].number = 0 /\ \A x \in NodeRefs : x # r => held'[x] = held[x]  BY <1>0 DEF TablesOK, NoSearch
<1>9. ASSUME NEW u \in Handlers \ {t} PROVE Untouched(u)
  <2>1. \A x : Owned(x, u) => x # r  BY DEF Owned
  <2> QED BY <1>7, <1>8, <2>1 DEF Untouched
<1>10. JobOK(t)'  BY <1>0 DEF Jobs, JobOK, Resting
<1>11. ASSUME NEW x \in NodeRefs, Owned(x, t) PROVE Holds(x)'
  <2>0. Holds(x)  BY <1>0 DEF Holding, Holds
  <2>1. CASE x = r  BY <1>8, <2>1 DEF Holds
  <2>2. CASE x # r /\ held[x].number = 0  BY <1>8, <2>2 DEF Holds
  <2>3. CASE x # r /\ held[x].number # 0
    <3>1. held[x].number \in DOMAIN fContextMap /\ fContextMap[held[x].number] = [fPointer |-> held[x].search, fRefNum |-> x]
      BY <2>0, <2>3 DEF Holds
    <3>2. fContextMap[held[x].number].fRefNum = x  BY <3>1
    <3>3. held[x].number # number  BY <1>2, <2>3, <3>2
    <3>4. held[x].number \in DOMAIN fContextMap' /\ fContextMap'[held[x].number] = fContextMap[held[x].number]
      BY <1>7, <3>1, <3>3
    <3> QED BY <1>8, <1>11, <2>3, <3>1, <3>4 DEF Holds, Owned
  <2> QED BY <2>1, <2>2, <2>3
<1>12. \A x \in NodeRefs \ DOMAIN table : held'[x] = held[x]  BY <1>8 DEF Owned
<1>13. Jobs' /\ Holding'  BY <1>0, <1>9, <1>10, <1>11, <1>12, OthersKept
<1>14. Accounted'
  <2> HIDE DEF number
  <2> SUFFICES ASSUME NEW n \in DOMAIN fContextMap' \ {0}
               PROVE  \/ \E u \in Handlers : serves[u].number = n
                      \/ \E x \in NodeRefs : held'[x].number = n
                      \/ n \in dropped'
                      \/ fContextMap'[n].fRefNum \in (closing \cap DOMAIN fContextHash) \cup ignored
    BY DEF Accounted
  <2>1. n \in DOMAIN fContextMap /\ fContextMap'[n] = fContextMap[n]  BY <1>7
  <2>2. CASE n = number  BY <1>5, <2>2
  <2>3. CASE n # number
    <3>1. CASE \E x \in NodeRefs : held[x].number = n
      <4>1. PICK x \in NodeRefs : held[x].number = n  BY <3>1
      <4>2. x # r  BY <2>3, <4>1 DEF number
      <4>3. held'[x].number = n  BY <1>8, <4>1, <4>2
      <4> QED BY <4>3
    <3> QED BY <1>0, <1>6, <2>1, <3>1 DEF Accounted
  <2> QED BY <2>2, <2>3
<1> QED BY <1>13, <1>14 DEF SearchInv

LEMMA ReleaseSearch ==
  ASSUME BasePluginAssumption, Inv, NEW t \in Handlers, NEW r \in NodeRefs, ReleaseContinueData(t, r)
  PROVE  SearchInv'
BY LetGoSearch DEF ReleaseContinueData, Owned, daemon

LEMMA GiveUpSearch ==
  ASSUME BasePluginAssumption, Inv, NEW t \in Handlers, NEW r \in NodeRefs, GiveUp(t, r)
  PROVE  SearchInv'
BY LetGoSearch DEF GiveUp, Owned, daemon, tables

-----------------------------------------------------------------------------
\* Every step keeps both.

LEMMA InvInit ==
  ASSUME BasePluginAssumption, BaseInit
  PROVE  Inv
BY ContextInit, SearchInit DEF Inv, Zeroth, BaseInit

LEMMA BothNext ==
  ASSUME BasePluginAssumption, Inv, [BaseNext]_baseVars
  PROVE  ContextInv' /\ SearchInv'
<1>0. ContextInv /\ TablesOK /\ Jobs  BY DEF Inv, ContextInv, SearchInv
<1>1. CASE UNCHANGED <<tables, daemon, client, serves>>
  <2>1. UNCHANGED ContextVars  BY <1>1 DEF ContextVars, tables, client
  <2> QED BY <1>0, <1>1, <2>1, ContextSame, SearchSame DEF Inv
<1>2. CASE UNCHANGED baseVars  BY <1>1, <1>2 DEF baseVars, tables, daemon, client
<1>3. CASE Initialize  BY <1>1, <1>3 DEF Initialize
<1>4. CASE \E active \in BOOLEAN : SetPluginState(active)  BY <1>1, <1>4 DEF SetPluginState
<1>5. CASE \E t \in Handlers, r \in NodeRefs, own, found \in BOOLEAN : OpenDirNode(t, r, own, found)
  BY <1>0, <1>5, OpenDirNodeContext, OpenDirNodeSearch DEF Inv
<1>6. CASE \E t \in Handlers, r \in NodeRefs \cup RecordRefs : RemoveReference(t, r)
  BY <1>0, <1>6, RemoveReferenceContext, RemoveReferenceSearch DEF Inv, Refs
<1>7. CASE \E r \in NodeRefs \cup RecordRefs : RefDealloc(r)
  BY <1>0, <1>7, RefDeallocContext, RefDeallocSearch DEF Inv, Refs
<1>8. CASE \E t \in Handlers, op \in ProcessRequest, r \in NodeRefs \cup RecordRefs : BeginPlain(t, op, r)
  <2>1. PICK t \in Handlers, op \in ProcessRequest, r \in Refs : BeginPlain(t, op, r)  BY <1>8 DEF Refs
  <2>2. UNCHANGED ContextVars
    BY <2>1 DEF BeginPlain, Begun, ContextVars, tables, client
  <2> QED BY <1>0, <2>1, <2>2, ContextSame, BeginSearchless DEF Inv
<1>9. CASE \E t \in Handlers, op \in ProcessRequest, r \in NodeRefs, new \in RecordRefs : BeginOpen(t, op, r, new)
  BY <1>0, <1>9, BeginOpenContext, BeginOpenSearch DEF Inv
<1>10. CASE \E t \in Handlers, op \in ProcessRequest, r \in NodeRefs : BeginSearch(t, op, r)
  BY <1>0, <1>10, BeginSearchContext, BeginSearchSearch DEF Inv
<1>11. CASE \E t \in Handlers : End(t)
  <2>1. PICK t \in Handlers : End(t)  BY <1>11
  <2>2. UNCHANGED ContextVars  BY <2>1 DEF End, Ends, ContextVars, tables, client
  <2> QED BY <1>0, <2>1, <2>2, ContextSame, EndSearchless DEF Inv
<1>12. CASE \E t \in Handlers, deleted \in BOOLEAN : EndDelete(t, deleted)
  BY <1>0, <1>12, EndDeleteContext, EndDeleteSearch DEF Inv
<1>13. CASE \E t \in Handlers, how \in {"found", "not_found", "failed"} : EndOpen(t, how)
  BY <1>0, <1>13, EndOpenContext, EndOpenSearch DEF Inv
<1>14. CASE \E t \in Handlers, done \in BOOLEAN : EndSearch(t, done)
  BY <1>0, <1>14, EndSearchContext, EndSearchSearch DEF Inv
<1>15. CASE \E t \in Handlers, r \in NodeRefs : ReleaseContinueData(t, r)
  BY <1>0, <1>15, ReleaseContext, ReleaseSearch DEF Inv
<1>16. CASE \E t \in Handlers, r \in NodeRefs : GiveUp(t, r)
  <2>1. PICK t \in Handlers, r \in NodeRefs : GiveUp(t, r)  BY <1>16
  <2>2. UNCHANGED ContextVars  BY <2>1 DEF GiveUp, ContextVars, tables
  <2> QED BY <1>0, <2>1, <2>2, ContextSame, GiveUpSearch DEF Inv
<1> QED BY <1>2, <1>3, <1>4, <1>5, <1>6, <1>7, <1>8, <1>9, <1>10, <1>11, <1>12, <1>13, <1>14, <1>15, <1>16 DEF BaseNext

\* A live node has its context, for the plug-in to find when it is closed.
LEMMA NodeHasContext ==
  ASSUME BasePluginAssumption, ContextInv, NEW r \in NodeRefs \cap DOMAIN table
  PROVE  r \in DOMAIN fContextHash
BY DEF BasePluginAssumption, ContextInv, Parents, ContextsFollowReferences

\* Numbers that were in the map keep what they had, or go.
LEMMA ZerothKept ==
  ASSUME Inv,
         0 \in DOMAIN fContextMap' => 0 \in DOMAIN fContextMap /\ fContextMap'[0] = fContextMap[0],
         \A r \in NodeRefs : r \in DOMAIN table => r \in DOMAIN table',
         UNCHANGED ignored,
         \A r \in NodeRefs : r \in closing \cap DOMAIN fContextHash => r \in closing' \cap DOMAIN fContextHash'
  PROVE  Zeroth'
<1>1. 0 \in DOMAIN fContextMap => fContextMap[0].fRefNum \in NodeRefs  BY DEF Inv, ContextInv, TablesOK
<1> QED BY <1>1 DEF Inv, Zeroth

LEMMA ZerothNext ==
  ASSUME BasePluginAssumption, Inv, [BaseNext]_baseVars
  PROVE  Zeroth'
<1>0. ContextInv /\ TablesOK /\ Parents /\ Jobs /\ Zeroth  BY DEF Inv, ContextInv, SearchInv
<1>1. CASE UNCHANGED <<fContextMap, table, closing, ignored, fContextHash>>
  BY <1>1, ZerothKept
<1>2. CASE UNCHANGED baseVars  BY <1>1, <1>2 DEF baseVars
<1>3. CASE Initialize  BY <1>1, <1>3 DEF Initialize, tables, daemon
<1>4. CASE \E active \in BOOLEAN : SetPluginState(active)  BY <1>1, <1>4 DEF SetPluginState, tables, daemon
<1>5. CASE \E t \in Handlers, r \in NodeRefs, own, found \in BOOLEAN : OpenDirNode(t, r, own, found)
  <2>1. PICK t \in Handlers, r \in NodeRefs, own \in BOOLEAN, found \in BOOLEAN : OpenDirNode(t, r, own, found)  BY <1>5
  <2>2. r \notin closing /\ UNCHANGED <<fContextMap, ignored>>  BY <2>1 DEF OpenDirNode, Unheld
  <2>3. DOMAIN table \subseteq DOMAIN table' /\ closing \subseteq closing'  BY <2>1 DEF OpenDirNode, With
  <2>4. \A x \in DOMAIN fContextHash : x # r => x \in DOMAIN fContextHash'
    BY <2>1 DEF OpenDirNode, AddItem, With, Without, Restrict
  <2> QED BY <2>2, <2>3, <2>4, ZerothKept
<1>6. CASE \E t \in Handlers, r \in NodeRefs \cup RecordRefs : RemoveReference(t, r)
  <2>1. PICK t \in Handlers, r \in NodeRefs \cup RecordRefs : RemoveReference(t, r)  BY <1>6
  <2>2. UNCHANGED <<fContextHash, fContextMap, ignored>>  BY <2>1 DEF RemoveReference, tables
  <2>3. \A x \in DOMAIN table : x \in DOMAIN table' \/ x \in closing'
    BY <2>1 DEF RemoveReference, Without, Restrict
  <2>4. closing \subseteq closing'  BY <2>1 DEF RemoveReference
  <2>5. 0 \in DOMAIN fContextMap => fContextMap[0].fRefNum \in NodeRefs  BY <1>0 DEF TablesOK
  <2> QED BY <1>0, <2>2, <2>3, <2>4, <2>5, NodeHasContext DEF Zeroth
<1>7. CASE \E r \in NodeRefs \cup RecordRefs : RefDealloc(r)
  <2>1. PICK r \in NodeRefs \cup RecordRefs : RefDealloc(r)  BY <1>7
  <2>2. r \in closing /\ r \notin DOMAIN table /\ closing' = closing \ {r} /\ table' = table
    BY <1>0, <2>1 DEF RefDealloc, TablesOK
  <2>3. SUFFICES ASSUME 0 \in DOMAIN fContextMap'
                 PROVE  fContextMap'[0].fRefNum \in DOMAIN table \cup (closing' \cap DOMAIN fContextHash') \cup ignored'
    BY <2>2 DEF Zeroth
  <2>4. CASE ~fState.active
    <3>1. ignored' = ignored \cup {r} /\ UNCHANGED <<fContextHash, fContextMap>>  BY <2>1, <2>4 DEF RefDealloc
    <3> QED BY <1>0, <2>2, <2>3, <3>1 DEF Zeroth
  <2>5. CASE fState.active
    <3>1. /\ CloseDirNode(r) \/ CloseRecord(r)
          /\ fContextHash' = Without(fContextHash, {r})
          /\ ignored' = IF r \in DOMAIN fContextHash THEN ignored \ {r} ELSE ignored
      BY <2>1, <2>5 DEF RefDealloc
    <3>2. 0 \in DOMAIN fContextMap /\ fContextMap'[0] = fContextMap[0]
      BY <2>3, <3>1 DEF CloseDirNode, CloseRecord, Without, Restrict
    <3> DEFINE n == fContextMap[0].fRefNum
    <3>3. n \in NodeRefs /\ n \in DOMAIN table \cup (closing \cap DOMAIN fContextHash) \cup ignored
      BY <1>0, <3>2 DEF TablesOK, Zeroth
    <3>4. n # r \/ r \notin DOMAIN fContextHash
      <4>1. SUFFICES ASSUME n = r, r \in DOMAIN fContextHash PROVE FALSE  OBVIOUS
      <4>2. CloseDirNode(r)  BY <3>1, <3>3, <4>1 DEF CloseRecord, BasePluginAssumption
      <4>3. 0 \in PointersForRefNum(r)  BY <3>2, <4>1 DEF PointersForRefNum
      <4>4. 0 \notin DOMAIN fContextMap'  BY <4>1, <4>2, <4>3 DEF CloseDirNode, Without, Restrict
      <4> QED BY <2>3, <4>4
    <3>5. DOMAIN fContextHash' = DOMAIN fContextHash \ {r}  BY <3>1 DEF Without, Restrict
    <3> HIDE DEF n
    <3>6. n \in DOMAIN table \cup (closing' \cap DOMAIN fContextHash') \cup ignored'
      BY <2>2, <3>1, <3>3, <3>4, <3>5
    <3> QED BY <3>2, <3>6 DEF n
  <2> QED BY <2>4, <2>5
<1>8. CASE \E t \in Handlers, op \in ProcessRequest, r \in NodeRefs \cup RecordRefs : BeginPlain(t, op, r)
  BY <1>1, <1>8 DEF BeginPlain, tables, daemon
<1>9. CASE \E t \in Handlers, op \in ProcessRequest, r \in NodeRefs, new \in RecordRefs : BeginOpen(t, op, r, new)
  <2>1. DOMAIN table \subseteq DOMAIN table' /\ UNCHANGED <<fContextHash, fContextMap, closing, ignored>>
    BY <1>9 DEF BeginOpen, With, tables
  <2> QED BY <2>1, ZerothKept
<1>10. CASE \E t \in Handlers, op \in ProcessRequest, r \in NodeRefs : BeginSearch(t, op, r)
  <2>1. PICK t \in Handlers, op \in ProcessRequest, r \in NodeRefs : BeginSearch(t, op, r)  BY <1>10
  <2>2. r \in DOMAIN table /\ UNCHANGED <<fContextHash, table, closing, ignored>>
    BY <2>1 DEF BeginSearch, Begins, daemon
  <2>3. CASE held[r].number # 0
    BY <1>1, <2>1, <2>2, <2>3 DEF BeginSearch
  <2>4. CASE held[r].number = 0
    <3>1. fContextMap' = With(fContextMap, NextNumber, [fPointer |-> MakeContextData, fRefNum |-> r])
      BY <2>1, <2>4 DEF BeginSearch, AddPointer
    <3> DEFINE number == NextNumber
    <3>2. fContextMap' = With(fContextMap, number, [fPointer |-> MakeContextData, fRefNum |-> r])  BY <3>1
    <3> HIDE DEF number
    <3>3. CASE number = 0
      <4>1. fContextMap'[0].fRefNum = r  BY <3>2, <3>3 DEF With
      <4> QED BY <2>2, <4>1 DEF Zeroth
    <3>4. CASE number # 0
      <4>1. 0 \in DOMAIN fContextMap' => 0 \in DOMAIN fContextMap /\ fContextMap'[0] = fContextMap[0]
        BY <3>2, <3>4 DEF With
      <4> QED BY <2>2, <4>1, ZerothKept
    <3> QED BY <3>3, <3>4
  <2> QED BY <2>3, <2>4
<1>11. CASE \E t \in Handlers : End(t)  BY <1>1, <1>11 DEF End, tables, daemon
<1>12. CASE \E t \in Handlers, deleted \in BOOLEAN : EndDelete(t, deleted)
  <2>1. PICK t \in Handlers, deleted \in BOOLEAN : EndDelete(t, deleted)  BY <1>12
  <2> DEFINE r == serves[t].ref
  <2>2. r \in RecordRefs  BY <1>0, <2>1, AtWork DEF EndDelete, Ends, Deleting
  <2>3. r \notin NodeRefs  BY <2>2 DEF BasePluginAssumption
  <2>4. \A x \in DOMAIN table : x # r => x \in DOMAIN table'
    BY <2>1 DEF EndDelete, Without, Restrict
  <2>5. \A x \in DOMAIN fContextHash : x # r => x \in DOMAIN fContextHash'
    BY <2>1 DEF EndDelete, Without, Restrict
  <2>6. closing \subseteq closing' /\ UNCHANGED <<fContextMap, ignored>>  BY <2>1 DEF EndDelete
  <2> QED BY <2>3, <2>4, <2>5, <2>6, ZerothKept
<1>13. CASE \E t \in Handlers, how \in {"found", "not_found", "failed"} : EndOpen(t, how)
  <2>1. PICK t \in Handlers, how \in {"found", "not_found", "failed"} : EndOpen(t, how)  BY <1>13
  <2> DEFINE new == serves[t].new
  <2>2. new \in RecordRefs  BY <1>0, <2>1, AtWork DEF EndOpen, Ends, Opening
  <2>3. new \notin NodeRefs  BY <2>2 DEF BasePluginAssumption
  <2>4. \A x \in DOMAIN table : x # new => x \in DOMAIN table'
    BY <2>1 DEF EndOpen, Without, Restrict
  <2>5. DOMAIN fContextHash \subseteq DOMAIN fContextHash'
    BY <2>1 DEF EndOpen, AddItem, With
  <2>6. closing \subseteq closing' /\ UNCHANGED <<fContextMap, ignored>>  BY <2>1 DEF EndOpen
  <2> QED BY <2>3, <2>4, <2>5, <2>6, ZerothKept
<1>14. CASE \E t \in Handlers, done \in BOOLEAN : EndSearch(t, done)
  <2>1. /\ 0 \in DOMAIN fContextMap' => 0 \in DOMAIN fContextMap /\ fContextMap'[0] = fContextMap[0]
        /\ UNCHANGED <<fContextHash, table, closing, ignored>>
    BY <1>14 DEF EndSearch, RemoveContext, Without, Restrict, daemon
  <2> QED BY <2>1, ZerothKept
<1>15. CASE \E t \in Handlers, r \in NodeRefs : ReleaseContinueData(t, r)
  <2>1. /\ 0 \in DOMAIN fContextMap' => 0 \in DOMAIN fContextMap /\ fContextMap'[0] = fContextMap[0]
        /\ UNCHANGED <<fContextHash, table, closing, ignored>>
    BY <1>15 DEF ReleaseContinueData, RemoveContext, Without, Restrict, daemon
  <2> QED BY <2>1, ZerothKept
<1>16. CASE \E t \in Handlers, r \in NodeRefs : GiveUp(t, r)  BY <1>1, <1>16 DEF GiveUp, tables, daemon
<1> QED BY <1>2, <1>3, <1>4, <1>5, <1>6, <1>7, <1>8, <1>9, <1>10, <1>11, <1>12, <1>13, <1>14, <1>15, <1>16 DEF BaseNext

LEMMA InvNext ==
  ASSUME BasePluginAssumption, Inv, [BaseNext]_baseVars
  PROVE  Inv'
BY BothNext, ZerothNext DEF Inv

\* A context that was not left over is still its request's, its virtual node
\* that of a node which is open.
LEMMA NodeUsed ==
  ASSUME BasePluginAssumption, Inv, NEW t \in Handlers, ~Resting(t), serves[t].ref \notin ignored
  PROVE  serves[t].context.node \in Blocks
<1> DEFINE r == serves[t].ref
<1>0. ContextInv /\ TablesOK /\ Working(t)  BY AtWork DEF Inv, ContextInv, SearchInv
<1>1. r \in DOMAIN table \cap DOMAIN fContextHash /\ serves[t].context = fContextHash[r]  BY <1>0 DEF Working
<1>2. CASE r \in NodeRefs
  <2>1. fContextHash[r].node = fContextHash[r].block  BY <1>0, <1>1, <1>2 DEF ContextInv, VirtualNodes
  <2> QED BY <1>1, <2>1 DEF Blocks
<1>3. CASE r \in RecordRefs
  <2> DEFINE p == table[r].node
  <2>1. p \in NodeRefs \cap DOMAIN table  BY <1>0, <1>1, <1>3 DEF ContextInv, Parents
  <2>2. fContextHash[r].node = table[p].object  BY <1>0, <1>1, <1>3 DEF ContextInv, VirtualNodes
  <2>3. table[p].object # Null /\ p \notin RecordRefs
    BY <1>0, <2>1 DEF ContextInv, Parents, BasePluginAssumption
  <2>4. p \in DOMAIN fContextHash /\ fContextHash[p].block = table[p].object
    BY <1>0, <2>1, <2>3 DEF ContextInv, ContextsFollowReferences
  <2> QED BY <1>1, <2>2, <2>4 DEF Blocks
<1> QED BY <1>0, <1>1, <1>2, <1>3 DEF TablesOK, Refs

LEMMA InvKeeps ==
  ASSUME BasePluginAssumption, Inv
  PROVE  KeptWhileNeeded
<1>1. NoneUsedAfterFree
  <2> SUFFICES ASSUME NEW t \in Handlers, ~Resting(t)
               PROVE  /\ serves[t].context.block \in Blocks
                      /\ serves[t].ref \notin ignored => serves[t].context.node \in Blocks
                      /\ serves[t].search # Null => serves[t].search \in Searches
    BY DEF NoneUsedAfterFree
  <2>1. Working(t) /\ Searching(t)  BY AtWork DEF Inv, SearchInv
  <2>2. serves[t].context.block \in Blocks  BY <2>1 DEF Working, Blocks
  <2>3. serves[t].ref \notin ignored => serves[t].context.node \in Blocks  BY NodeUsed
  <2>4. ASSUME serves[t].search # Null PROVE serves[t].search \in Searches
    <3>1. /\ serves[t].number \in DOMAIN fContextMap
          /\ fContextMap[serves[t].number] = [fPointer |-> serves[t].search, fRefNum |-> serves[t].ref]
      BY <2>1, <2>4 DEF Searching
    <3>2. fContextMap[serves[t].number].fPointer = serves[t].search  BY <3>1
    <3> QED BY <3>1, <3>2 DEF Searches
  <2> QED BY <2>2, <2>3, <2>4
<1>2. SearchesKept
  <2>1. ASSUME NEW n \in DOMAIN fContextMap \ {0}
        PROVE  \/ \E t \in Handlers : serves[t].number = n
               \/ \E r \in NodeRefs : held[r].number = n
               \/ n \in dropped
               \/ fContextMap[n].fRefNum \in closing \cup ignored
    BY DEF Inv, SearchInv, Accounted
  <2>2. ASSUME 0 \in DOMAIN fContextMap
        PROVE  fContextMap[0].fRefNum \in DOMAIN table \cup closing \cup ignored
    BY <2>2 DEF Inv, Zeroth
  <2> QED BY <2>1, <2>2 DEF Inv, SearchInv, Holding, SearchesKept
<1> QED BY <1>1, <1>2 DEF KeptWhileNeeded

-----------------------------------------------------------------------------
(* A live reference leads to the context made when it was opened, and no    *)
(* context outlives its reference, but for what an inactive plug-in was     *)
(* told to close (BaseDirectoryPlugin::OpenDirNode, CloseDirNode,           *)
(* ServerControl::RefDeallocProc).                                          *)
THEOREM ContextsCorrect ==
  ASSUME BasePluginAssumption
  PROVE  BaseSpec => []ContextsFollowReferences
<1>1. BaseInit => Inv  BY InvInit
<1>2. Inv /\ [BaseNext]_baseVars => Inv'  BY InvNext
<1>3. Inv => ContextsFollowReferences  BY DEF Inv, ContextInv
<1> QED BY <1>1, <1>2, <1>3, PTL DEF BaseSpec

(* The context, the virtual node and the search a request found under a     *)
(* lock are there until it ends, though it neither holds the lock nor counts*)
(* its uses (CPlugInRef::GetItemData, CContinue::GetPointer).  The number a *)
(* client was given leads to its search still; and one under number 0,      *)
(* which no client was given, is there no longer than its node.             *)
THEOREM KeptCorrect ==
  ASSUME BasePluginAssumption
  PROVE  BaseSpec => []KeptWhileNeeded
<1>1. BaseInit => Inv  BY InvInit
<1>2. Inv /\ [BaseNext]_baseVars => Inv'  BY InvNext
<1>3. Inv => KeptWhileNeeded  BY InvKeeps
<1> QED BY <1>1, <1>2, <1>3, PTL DEF BaseSpec
=============================================================================
