------------------------------- MODULE DataLists -------------------------------
(***************************************************************************)
(* The lists of strings that calls take and return                         *)
(* (APIFramework/DirServicesUtils.cpp): doubly linked nodes, a head and a  *)
(* count that is kept apart from them.  Most functions trust the links,    *)
(* some the count, and some compare the two and refuse a list on which     *)
(* they differ.                                                            *)
(*                                                                         *)
(* A text is a sequence of characters.  heap has the nodes that are        *)
(* allocated.  kept is what each list should be, a sequence: the functions *)
(* as a reader of their names would define them.  Lists are used by one    *)
(* thread at a time.  Operators with a suffix are faulty variants.         *)
(***************************************************************************)
EXTENDS Integers, Sequences, FiniteSets, SequencesExt

CONSTANTS
  Lists,       \* the lists a program has
  Texts,       \* strings to put in them
  Paths,       \* paths to take apart
  Delimiter,   \* a character: the separator of paths
  MaxNodes     \* bound: nodes at once

\* What the constants must be; a module that gives them values assumes it.
DataListsAssumption ==
  /\ MaxNodes \in Nat
  /\ \A text \in Texts \cup Paths : Len(text) \in Nat

nil == 0
Node == 1..MaxNodes

VARIABLES
  heap,     \* allocated node -> [fNextPtr, fPrevPtr, fBufferData]
  list,     \* list -> [fDataListHead, fDataNodeCount]
  kept,     \* list -> what it should hold
  lost,     \* nodes of lists that were built again: no list has them
  merged    \* lists dsDataListMergeListAfter was used on

listVars == <<heap, list, kept, lost, merged>>

Empty == [fDataListHead |-> nil, fDataNodeCount |-> 0]

Init ==
  /\ heap = [n \in {} |-> nil]
  /\ list = [l \in Lists |-> Empty]
  /\ kept = [l \in Lists |-> <<>>]
  /\ lost = {}
  /\ merged = {}

-----------------------------------------------------------------------------
(* Walking a list.                                                         *)

\* The nodes met from a node on.
Walk(first) ==
  LET node[k \in Node] == IF k = 1 THEN first
                          ELSE IF node[k - 1] = nil THEN nil ELSE heap[node[k - 1]].fNextPtr
  IN SelectSeq([k \in Node |-> node[k]], LAMBDA n : n # nil)
Chain(l) == Walk(list[l].fDataListHead)

dsGetThisNodePriv(l, index) == IF index \in 1..Len(Chain(l)) THEN Chain(l)[index] ELSE nil
dsGetLastNodePriv(l) == Last(Chain(l))
dsVerifyDataListPriv(l) == Len(Chain(l)) = list[l].fDataNodeCount

-----------------------------------------------------------------------------
(* Reading a list.                                                         *)

dsDataListGetNodeCount(l) == IF dsVerifyDataListPriv(l) THEN list[l].fDataNodeCount ELSE 0
dsGetDataLength(l) == FoldLeft(LAMBDA sum, n : sum + Len(heap[n].fBufferData), 0, Chain(l))
dsDataListGetNodeAlloc(l, index) == heap[dsGetThisNodePriv(l, index)].fBufferData

\* Both stop after as many nodes as the count says.
Counted(l) == SubSeq(Chain(l), 1, list[l].fDataNodeCount)
dsGetPathFromList(l) == FlattenSeq([i \in DOMAIN Counted(l) |-> <<Delimiter>> \o heap[Counted(l)[i]].fBufferData])
dsAllocStringsFromList(l) == [i \in DOMAIN Counted(l) |-> heap[Counted(l)[i]].fBufferData]

-----------------------------------------------------------------------------
(* Building a list.                                                        *)

Unused(k) == SubSeq(SetToSortSeq(Node \ DOMAIN heap, <), 1, k)   \* nodes are alike
Room(k) == Cardinality(DOMAIN heap) + k <= MaxNodes
ListNode(next, prev, text) == [fNextPtr |-> next, fPrevPtr |-> prev, fBufferData |-> text]

\* The heap with new nodes for these texts, linked to each other.
dsAllocListNodes(texts) ==
  LET new == Unused(Len(texts))
      At(i) == IF i \in DOMAIN new THEN new[i] ELSE nil
      Index(n) == CHOOSE i \in DOMAIN new : new[i] = n
  IN [n \in DOMAIN heap \cup ToSet(new) |->
        IF n \in DOMAIN heap THEN heap[n]
        ELSE ListNode(At(Index(n) + 1), At(Index(n) - 1), texts[Index(n)])]
ListOf(nodes) == [fDataListHead |-> IF nodes = <<>> THEN nil ELSE Head(nodes), fDataNodeCount |-> Len(nodes)]

\* What the list held is not freed.
Build(l, texts) ==
  /\ Room(Len(texts))
  /\ heap' = dsAllocListNodes(texts)
  /\ list' = [list EXCEPT ![l] = ListOf(Unused(Len(texts)))]
  /\ lost' = IF l \in merged THEN lost ELSE lost \cup ToSet(Chain(l))
  /\ UNCHANGED merged

dsBuildListFromStringsAllocV(l, texts) ==
  /\ l \notin merged
  /\ Build(l, texts)
  /\ kept' = [kept EXCEPT ![l] = texts]
dsBuildListFromNodesAlloc(l, texts) ==
  /\ l \notin merged
  /\ Build(l, texts)
  /\ kept' = [kept EXCEPT ![l] = texts]

\* The loop of both functions on paths: one component after another.
Start(path) == IF path # <<>> /\ path[1] = Delimiter THEN Tail(path) ELSE path
Split(path) ==
  LET part[rest \in {SubSeq(path, i, Len(path)) : i \in 1..(Len(path) + 1)}] ==
        IF rest = <<>> THEN <<>>
        ELSE IF \A i \in DOMAIN rest : rest[i] # Delimiter THEN <<rest>>
        ELSE LET i == CHOOSE i \in DOMAIN rest :
                        rest[i] = Delimiter /\ \A j \in 1..(i - 1) : rest[j] # Delimiter
             IN <<SubSeq(rest, 1, i - 1)>> \o part[SubSeq(rest, i + 1, Len(rest))]
  IN part[Start(path)]

\* The components of a path: what lies between its delimiters, a first one
\* before which there is nothing and a last one after which there is nothing
\* left out.
Components(path) ==
  LET cuts == {i \in DOMAIN path : path[i] = Delimiter} \cup {0, Len(path) + 1}
      Next(i) == CHOOSE j \in cuts : j > i /\ \A k \in cuts : k > i => k >= j
      starts == SetToSortSeq({i \in cuts : i <= Len(path) /\ (i = 0 => ~(path # <<>> /\ path[1] = Delimiter))
                                           /\ i # Len(path)}, <)
  IN [k \in DOMAIN starts |-> SubSeq(path, starts[k] + 1, Next(starts[k]) - 1)]

dsBuildFromPath(l, path) ==
  /\ l \notin merged /\ path # <<Delimiter>>
  /\ Build(l, Split(path))
  /\ kept' = [kept EXCEPT ![l] = Components(path)]
dsBuildListFromPathAlloc(l, path) ==
  /\ l \notin merged /\ path # <<Delimiter>>
  /\ Build(l, Split(path))
  /\ kept' = [kept EXCEPT ![l] = Components(path)]

\* The source must agree with its count; what the list held is not freed.
dsDataListCopyList(l, source) ==
  /\ l # source /\ {l, source} \cap merged = {}
  /\ dsVerifyDataListPriv(source)
  /\ Build(l, [i \in 1..list[source].fDataNodeCount |-> dsDataListGetNodeAlloc(source, i)])
  /\ kept' = [kept EXCEPT ![l] = kept[source]]

-----------------------------------------------------------------------------
(* Changing a list.                                                        *)

Linked(h, n, field, to) == IF n = nil THEN h ELSE [h EXCEPT ![n] = [@ EXCEPT ![field] = to]]
Grown(h, text, n, next, prev) == [m \in DOMAIN h \cup {n} |-> IF m = n THEN ListNode(next, prev, text) ELSE h[m]]

dsAppendStringToListAlloc(l, text) ==
  /\ l \notin merged /\ Room(1)
  /\ LET new == Head(Unused(1))
         last == IF list[l].fDataNodeCount = 0 THEN nil ELSE dsGetLastNodePriv(l)
     IN /\ heap' = Linked(Grown(heap, text, new, nil, last), last, "fNextPtr", new)
        /\ list' = [list EXCEPT ![l].fDataNodeCount = @ + 1,
                                ![l].fDataListHead = IF last = nil THEN new ELSE @]
  /\ kept' = [kept EXCEPT ![l] = Append(@, text)]
  /\ UNCHANGED <<lost, merged>>

\* Index 0 is the place before the first node.
dsDataListInsertAfter(l, text, index) ==
  /\ l \notin merged /\ Room(1)
  /\ index \in 0..list[l].fDataNodeCount
  /\ index > 0 => dsGetThisNodePriv(l, index) # nil
  /\ LET new == Head(Unused(1))
         curr == dsGetThisNodePriv(l, index)
         next == IF index = 0 THEN list[l].fDataListHead ELSE heap[curr].fNextPtr
         grown == Grown(heap, text, new, next, curr)
     IN /\ heap' = Linked(Linked(grown, next, "fPrevPtr", new), curr, "fNextPtr", new)
        /\ list' = [list EXCEPT ![l].fDataNodeCount = @ + 1,
                                ![l].fDataListHead = IF index = 0 THEN new ELSE @]
  /\ kept' = [kept EXCEPT ![l] = InsertAt(@, index + 1, text)]
  /\ UNCHANGED <<lost, merged>>

\* The node before the deleted one goes on to the one after it, and back.
Unlink_Forward(l, curr) == Linked(heap, heap[curr].fPrevPtr, "fNextPtr", heap[curr].fNextPtr)
Unlink(l, curr) ==
  Linked(Linked(heap, heap[curr].fPrevPtr, "fNextPtr", heap[curr].fNextPtr),
         heap[curr].fNextPtr, "fPrevPtr", heap[curr].fPrevPtr)
dsDataListDeleteThisNode(l, index) ==
  /\ l \notin merged
  /\ dsVerifyDataListPriv(l)
  /\ index \in 1..list[l].fDataNodeCount
  /\ LET curr == dsGetThisNodePriv(l, index)
     IN /\ heap' = [n \in DOMAIN heap \ {curr} |-> Unlink(l, curr)[n]]
        /\ list' = [list EXCEPT ![l].fDataNodeCount = @ - 1,
                                ![l].fDataListHead = IF index = 1 THEN heap[curr].fNextPtr ELSE @]
  /\ kept' = [kept EXCEPT ![l] = RemoveAt(@, index)]
  /\ UNCHANGED <<lost, merged>>

\* The nodes of the source go into the target, whose count does not change;
\* after its last node they are not even linked.  The source keeps its head.
\* Neither list is followed any further.
dsDataListMergeListAfter(l, source, index) ==
  /\ l # source /\ {l, source} \cap merged = {}
  /\ dsVerifyDataListPriv(l) /\ dsVerifyDataListPriv(source)
  /\ index \in 1..list[l].fDataNodeCount
  /\ list[source].fDataNodeCount > 0
  /\ LET curr == dsGetThisNodePriv(l, index)
         next == heap[curr].fNextPtr
         first == list[source].fDataListHead
         last == dsGetLastNodePriv(source)
         joined == Linked(Linked(heap, curr, "fNextPtr", first), first, "fPrevPtr", curr)
     IN heap' = IF next = nil THEN Linked(joined, curr, "fNextPtr", nil)
                ELSE Linked(Linked(joined, last, "fNextPtr", next), next, "fPrevPtr", last)
  /\ merged' = merged \cup {l, source}
  /\ UNCHANGED <<list, kept, lost>>

dsDataListDeallocate(l) ==
  /\ l \notin merged
  /\ heap' = [n \in DOMAIN heap \ ToSet(Chain(l)) |-> heap[n]]
  /\ list' = [list EXCEPT ![l] = Empty]
  /\ kept' = [kept EXCEPT ![l] = <<>>]
  /\ UNCHANGED <<lost, merged>>

Pairs == {<<s, t>> : s, t \in Texts}

Next ==
  \/ \E l \in Lists, texts \in Pairs : dsBuildListFromStringsAllocV(l, texts)
  \/ \E l \in Lists, texts \in Pairs : dsBuildListFromNodesAlloc(l, texts)
  \/ \E l \in Lists, path \in Paths : dsBuildFromPath(l, path)
  \/ \E l \in Lists, path \in Paths : dsBuildListFromPathAlloc(l, path)
  \/ \E l, source \in Lists : dsDataListCopyList(l, source)
  \/ \E l \in Lists, text \in Texts : dsAppendStringToListAlloc(l, text)
  \/ \E l \in Lists, text \in Texts, index \in 0..MaxNodes : dsDataListInsertAfter(l, text, index)
  \/ \E l \in Lists, index \in 1..MaxNodes : dsDataListDeleteThisNode(l, index)
  \/ \E l, source \in Lists, index \in 1..MaxNodes : dsDataListMergeListAfter(l, source, index)
  \/ \E l \in Lists : dsDataListDeallocate(l)

Spec == Init /\ [][Next]_listVars

-----------------------------------------------------------------------------
(* Properties.                                                             *)

\* Both ways, links lead through the nodes of the list.
Linking(l) ==
  \A i \in DOMAIN Chain(l) :
    heap[Chain(l)[i]].fPrevPtr = IF i = 1 THEN nil ELSE Chain(l)[i - 1]

\* What the functions that read a list return.
Reads(l) ==
  /\ dsAllocStringsFromList(l) = kept[l]
  /\ dsDataListGetNodeCount(l) = Len(kept[l])
  /\ dsGetDataLength(l) = Len(FlattenSeq(kept[l]))
  /\ \A index \in DOMAIN kept[l] : dsDataListGetNodeAlloc(l, index) = kept[l][index]

\* A list that was taken from a path that begins with a delimiter, does not
\* end with one and is not only one gives that path back: for node names.
PathsComeBack ==
  \A l \in Lists \ merged, path \in Paths :
    /\ kept[l] = Components(path)
    /\ path # <<>> /\ path[1] = Delimiter /\ Last(path) # Delimiter
    => dsGetPathFromList(l) = path

\* However a list was built and changed, links, head and count agree, reading
\* it gives what went into it, and every node is in one list or lost by a
\* list that was built anew, and a path comes back from its components; except
\* lists merged by dsDataListMergeListAfter.
ListsAreSequences ==
  LET whole == Lists \ merged
  IN /\ \A l \in whole : Linking(l) /\ Reads(l)
     /\ \A l, m \in whole : l # m => ToSet(Chain(l)) \cap ToSet(Chain(m)) = {}
     /\ merged = {} => DOMAIN heap = lost \cup UNION {ToSet(Chain(l)) : l \in Lists}
     /\ PathsComeBack
=============================================================================
