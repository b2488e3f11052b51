-------------------------- MODULE RefTable_proofs --------------------------
(* Proofs about the reference table: its state is well formed, the maps    *)
(* that describe one reference agree with each other, no pointer dangles,  *)
(* the counts are exact, a child goes to the client of the thread that     *)
(* opened it, and a daemon at rest has left nothing behind.                *)
EXTENDS RefTable, SequenceTheorems, FiniteSetTheorems, TLAPS

\* What a thread's program counter says of its request.
RequestOK(t) ==
  /\ pc[t] \in {"verify", "check", "verified", "lookup", "plugin", "copy_name",
                "get_entry"} => ref[t] \in RefNum
  /\ pc[t] \in {"find_client", "room", "insert", "lookup"} => op[t] = "create"
  /\ op[t] = "create" => type[t] \in RefType

Shape == TypeOK /\ \A t \in Threads : RequestOK(t)

\* A CreateReference that has not been refused and has not inserted.
Pending(t) == op[t] = "create" /\ pc[t] # "release"

\* What the insertion of a reference relies on: the entry it inserts has no
\* number yet and is nobody else's, and there is a client to insert it for.
NewEntries ==
  /\ \A t \in Threads :
       Pending(t) => entry[t] \in 1..calls /\ fRefNum[entry[t]] = 0
  /\ \A t, u \in Threads :
       t # u /\ Pending(t) /\ Pending(u) => entry[t] # entry[u]
  /\ \A e \in Object : e > calls => fRefNum[e] = 0
ForAClient == \A t \in Threads : pc[t] \in {"room", "insert"} => client[t] # NULL

MapsInv == Shape /\ MapsAgree /\ NewEntries /\ ForAClient

USE ThreadsAssumption, SizesAssumption DEF numbering

LEMMA RefNumFacts ==
  /\ RefNum \subseteq Nat \ {0}
  /\ \A ty \in RefType, i \in 0..(IndexSpace - 1) : ty * IndexSpace + i \in RefNum
  /\ NULL \notin RefNum
  BY DEF RefNum, RefType, eRefTypeDir, eRefTypeDirNode, NULL

LEMMA ProbeFacts ==
  ASSUME fNextIndex \in 0..(IndexSpace - 1), NEW k \in 0..(IndexSpace - 1)
  PROVE  /\ Probe(k) \in 0..(IndexSpace - 1)
         /\ AdvanceIndex(k) \in 0..(IndexSpace - 1)
  BY DEF Probe, AdvanceIndex

LEMMA InitShape == Init => Shape
  <1> SUFFICES ASSUME Init PROVE Shape
    OBVIOUS
  <1> USE DEF Init, NULL
  <1>1. TablesOK
    BY DEF TablesOK, RefMap, MaybeObject
  <1>2. EntriesOK
    BY DEF EntriesOK, RefMap, MaybeObject
  <1>3. ClientsOK
    BY DEF ClientsOK, RefMap, MaybeObject
  <1>4. QueuesOK
    BY DEF QueuesOK
  <1>5. RequestsOK
    BY DEF RequestsOK, MaybeObject, Where
  <1>6. LocalsOK
    BY DEF LocalsOK, MaybeObject
  <1>7. \A t \in Threads : RequestOK(t)
    BY DEF RequestOK
  <1>8. QED
    BY <1>1, <1>2, <1>3, <1>4, <1>5, <1>6, <1>7 DEF Shape, TypeOK

-----------------------------------------------------------------------------
(***************************************************************************)
(* Shape is inductive.                                                     *)
(***************************************************************************)
LEMMA FramesTyped ==
  ASSUME Shape, NEW a \in Agents, stack[a] # <<>>
  PROVE  /\ Head(stack[a]).obj \in Object
         /\ Tail(stack[a]) \in Seq(Frame)
         /\ stack[a] \in Seq(Frame)
  <1>1. stack[a] \in Seq(Frame)
    BY DEF Shape, TypeOK, QueuesOK
  <1>2. Head(stack[a]) \in Frame /\ Tail(stack[a]) \in Seq(Frame)
    BY <1>1, HeadTailProperties
  <1>3. QED
    BY <1>1, <1>2 DEF Frame

LEMMA Pushed ==
  ASSUME NEW S, NEW x \in S, NEW s \in Seq(S)
  PROVE  <<x>> \o s \in Seq(S)
  <1>1. <<x>> \in Seq(S)
    OBVIOUS
  <1>2. QED
    BY <1>1, ConcatProperties

LEMMA ReleaseEntryTyped ==
  ASSUME Shape, NEW a \in Agents, NEW e \in Object, NEW rest \in Seq(Frame),
         ReleaseEntry(a, e, rest)
  PROVE  /\ retain' \in [Object -> Int]
         /\ status' \in [Object -> {"unmade", "live", "dying", "freed", "closed"}]
         /\ stack' \in [Agents -> Seq(Frame)]
  <1>1. <<EntryFrame(e)>> \o rest \in Seq(Frame)
    BY Pushed DEF EntryFrame, Frame
  <1>2. stack \in [Agents -> Seq(Frame)]
    BY DEF Shape, TypeOK, QueuesOK
  <1>3. retain' \in [Object -> Int]
    BY DEF ReleaseEntry, Shape, TypeOK, EntriesOK
  <1>4. status' \in [Object -> {"unmade", "live", "dying", "freed", "closed"}]
    BY DEF ReleaseEntry, Shape, TypeOK, EntriesOK
  <1>5. stack' \in [Agents -> Seq(Frame)]
    <2>1. CASE retain[e] = 1
      BY <2>1, <1>1, <1>2 DEF ReleaseEntry
    <2>2. CASE retain[e] # 1
      BY <2>2, <1>2 DEF ReleaseEntry
    <2>3. QED
      BY <2>1, <2>2
  <1>6. QED
    BY <1>3, <1>4, <1>5

LEMMA ReleaseClientTyped ==
  ASSUME Shape, NEW a \in Agents, NEW c \in Object, ReleaseClient(a, c)
  PROVE  /\ cRetain' \in [Object -> Int]
         /\ cStatus' \in [Object -> {"unmade", "live", "dying", "freed"}]
         /\ stack' \in [Agents -> Seq(Frame)]
  <1>1. \A s \in Seq(Frame) : <<ClientFrame(c)>> \o s \in Seq(Frame)
    BY Pushed DEF ClientFrame, Frame
  <1>2. stack \in [Agents -> Seq(Frame)]
    BY DEF Shape, TypeOK, QueuesOK
  <1>3. cRetain' \in [Object -> Int]
    BY DEF ReleaseClient, Shape, TypeOK, ClientsOK
  <1>4. cStatus' \in [Object -> {"unmade", "live", "dying", "freed"}]
    BY DEF ReleaseClient, Shape, TypeOK, ClientsOK
  <1>5. stack' \in [Agents -> Seq(Frame)]
    <2>1. CASE cRetain[c] = 1
      <3>1. <<ClientFrame(c)>> \o stack[a] \in Seq(Frame)
        BY <1>1, <1>2
      <3>2. stack' = [stack EXCEPT ![a] = <<ClientFrame(c)>> \o stack[a]]
        BY <2>1, <1>2 DEF ReleaseClient
      <3>3. QED
        BY <3>1, <3>2, <1>2
    <2>2. CASE cRetain[c] # 1
      BY <2>2, <1>2 DEF ReleaseClient
    <2>3. QED
      BY <2>1, <2>2
  <1>6. QED
    BY <1>3, <1>4, <1>5

LEMMA SubmitTyped ==
  ASSUME Shape
  PROVE  /\ \A t \in Threads : Append(queue, SyncBlock(t)) \in Seq(Block)
         /\ \A n \in RefNum, e \in MaybeObject :
              Append(queue, RemoveBlock(n, e)) \in Seq(Block)
  <1>1. \A t \in Threads : SyncBlock(t) \in Block
    BY DEF SyncBlock, Block
  <1>2. \A n \in RefNum, e \in MaybeObject : RemoveBlock(n, e) \in Block
    BY DEF RemoveBlock, Block
  <1>3. QED
    BY <1>1, <1>2 DEF Shape, TypeOK, QueuesOK

LEMMA KeptTyped ==
  ASSUME NEW counts \in [Object -> Int], NEW o \in MaybeObject
  PROVE  Kept(counts, o) \in [Object -> Int]
  BY DEF Kept, MaybeObject

LEMMA DestructorShape ==
  ASSUME Shape, NEW a \in Agents, Destructor(a)
  PROVE  Shape'
  <1> USE DEF Shape, TypeOK
  <1>1. CASE ReleaseSubRef(a)
    <2> DEFINE e == Head(stack[a]).obj
    <2>1. PICK n \in RefNum :
            /\ fSubRefs[e][n] # NULL
            /\ fSubRefs' = [fSubRefs EXCEPT ![e][n] = NULL]
            /\ queue' = Append(queue, RemoveBlock(n, fSubRefs[e][n]))
            /\ ReleaseEntry(a, fSubRefs[e][n], stack[a])
      BY <1>1, Zenon DEF ReleaseSubRef, IsLeast, Named, WithoutRef, SubmitRemoval
    <2>2. e \in Object /\ stack[a] \in Seq(Frame)
      BY <1>1, FramesTyped DEF ReleaseSubRef, TopIs
    <2>3. fSubRefs[e][n] \in Object
      BY <2>1, <2>2 DEF EntriesOK, RefMap, MaybeObject
    <2>4. UNCHANGED <<tables, fRefNum, fParentID, clients, cleanup, request, pc,
                      client, parent, entry>>
      BY <1>1 DEF ReleaseSubRef
    <2>5. EntriesOK'
      <3>1. fSubRefs' \in [Object -> RefMap]
        BY <2>1, <2>2 DEF EntriesOK, RefMap, MaybeObject
      <3>2. QED
        BY <3>1, <2>1, <2>2, <2>3, <2>4, ReleaseEntryTyped DEF EntriesOK
    <2>6. QueuesOK'
      BY <2>1, <2>2, <2>3, <2>4, ReleaseEntryTyped, SubmitTyped
         DEF QueuesOK, MaybeObject
    <2>7. QED
      BY <2>4, <2>5, <2>6
         DEF TablesOK, ClientsOK, RequestsOK, LocalsOK, RequestOK, tables,
             clients, request
  <1>2. CASE FinishEntry(a)
    <2>1. Head(stack[a]).obj \in Object /\ Tail(stack[a]) \in Seq(Frame)
      BY <1>2, FramesTyped DEF FinishEntry, TopIs
    <2>2. EntriesOK'
      BY <1>2, <2>1 DEF FinishEntry, EntriesOK
    <2>3. QueuesOK'
      BY <1>2, <2>1 DEF FinishEntry, QueuesOK
    <2>4. QED
      BY <1>2, <2>2, <2>3
         DEF FinishEntry, TablesOK, ClientsOK, RequestsOK, LocalsOK, RequestOK,
             tables, clients, request
  <1>3. CASE ClearChildRef(a)
    <2> DEFINE c == Head(stack[a]).obj
    <2>1. PICK n \in RefNum :
            /\ cSubRefs[c][n] # NULL
            /\ cSubRefs' = [cSubRefs EXCEPT ![c][n] = NULL]
            /\ queue' = Append(queue, RemoveBlock(n, cSubRefs[c][n]))
            /\ ReleaseEntry(a, cSubRefs[c][n], stack[a])
      BY <1>3, Zenon DEF ClearChildRef, IsLeast, Named, WithoutRef, SubmitRemoval
    <2>2. c \in Object /\ stack[a] \in Seq(Frame)
      BY <1>3, FramesTyped DEF ClearChildRef, TopIs
    <2>3. cSubRefs[c][n] \in Object
      BY <2>1, <2>2 DEF ClientsOK, RefMap, MaybeObject
    <2>4. UNCHANGED <<tables, fRefNum, fParentID, fSubRefs, cStatus, portInfo,
                      cRetain, cleanup, request, pc, client, parent, entry>>
      BY <1>3 DEF ClearChildRef
    <2>5. EntriesOK'
      BY <2>1, <2>2, <2>3, <2>4, ReleaseEntryTyped DEF EntriesOK
    <2>6. QueuesOK'
      BY <2>1, <2>2, <2>3, <2>4, ReleaseEntryTyped, SubmitTyped
         DEF QueuesOK, MaybeObject
    <2>7. ClientsOK'
      BY <2>1, <2>2, <2>4 DEF ClientsOK, RefMap, MaybeObject
    <2>8. QED
      BY <2>4, <2>5, <2>6, <2>7
         DEF TablesOK, RequestsOK, LocalsOK, RequestOK, tables, request
  <1>4. CASE FreeClient(a)
    <2>1. Head(stack[a]).obj \in Object /\ Tail(stack[a]) \in Seq(Frame)
      BY <1>4, FramesTyped DEF FreeClient, TopIs
    <2>2. ClientsOK'
      BY <1>4, <2>1 DEF FreeClient, ClientsOK
    <2>3. QueuesOK'
      BY <1>4, <2>1 DEF FreeClient, QueuesOK
    <2>4. QED
      BY <1>4, <2>2, <2>3
         DEF FreeClient, TablesOK, EntriesOK, RequestsOK, LocalsOK, RequestOK,
             tables, entries, request
  <1>5. QED
    BY <1>1, <1>2, <1>3, <1>4 DEF Destructor

LEMMA RequestShape ==
  ASSUME Shape, NEW t \in Threads, NewRequest(t)
  PROVE  Shape'
  <1> USE DEF Shape, TypeOK
  <1>0. calls < MaxCalls => calls + 1 \in 0..MaxCalls /\ calls + 1 \in MaybeObject
    BY DEF RequestsOK, MaybeObject, Object
  <1>0b. requests < MaxRequests => requests + 1 \in 0..MaxRequests
    BY DEF RequestsOK
  <1>1. Issued \subseteq RefNum
    BY DEF Issued, EntriesOK
  <1>2. ASSUME NEW o \in {"create", "close", "use", "clean"},
               NEW n \in RefNum \cup {0}, NEW ty \in RefType \cup {0},
               NEW next \in {"find_client", "verify", "clean"},
               Begin(t, o, n, ty, next),
               next = "verify" => n \in RefNum,
               o = "create" => ty \in RefType,
               next = "find_client" => o = "create",
               calls' \in 0..MaxCalls, entry' \in [Threads -> MaybeObject]
        PROVE  Shape'
    <2>1. QueuesOK'
      BY <1>2, SubmitTyped DEF Begin, Submit, QueuesOK
    <2>2. RequestsOK'
      <3>1. requests' \in 0..MaxRequests
        BY <1>2, <1>0b DEF Begin
      <3>2. pc' \in [Threads -> Where]
        BY <1>2 DEF Begin, Submit, RequestsOK, Where
      <3>3. /\ op' \in [Threads -> {"none", "create", "close", "use", "clean"}]
            /\ ref' \in [Threads -> RefNum \cup {0}]
            /\ type' \in [Threads -> RefType \cup {0}]
            /\ meant' \in [Threads -> MaybeObject]
        BY <1>2 DEF Begin, RequestsOK
      <3>4. QED
        BY <1>2, <3>1, <3>2, <3>3 DEF RequestsOK
    <2>3. \A u \in Threads : RequestOK(u)'
      BY <1>2 DEF Begin, Submit, RequestOK, RequestsOK
    <2>4. QED
      BY <1>2, <2>1, <2>2, <2>3
         DEF Begin, TablesOK, EntriesOK, ClientsOK, LocalsOK, tables, entries,
             clients
  <1>3. CASE BeginOpenDir(t)
    <2>1. calls' \in 0..MaxCalls /\ entry' \in [Threads -> MaybeObject]
      BY <1>3, <1>0 DEF BeginOpenDir, LocalsOK
    <2>2. QED
      BY <1>2, <1>3, <2>1 DEF BeginOpenDir, RefType
  <1>4. ASSUME NEW n \in Issued, NEW ty \in RefType, BeginOpenChild(t, n, ty)
        PROVE  Shape'
    <2>1. calls' \in 0..MaxCalls /\ entry' \in [Threads -> MaybeObject]
      BY <1>4, <1>0 DEF BeginOpenChild, LocalsOK
    <2>2. QED
      BY <1>1, <1>2, <1>4, <2>1 DEF BeginOpenChild
  <1>5. ASSUME NEW n \in Issued, BeginClose(t, n) \/ BeginUse(t, n)
        PROVE  Shape'
    <2>1. calls' \in 0..MaxCalls /\ entry' \in [Threads -> MaybeObject]
      BY <1>5 DEF BeginClose, BeginUse, RequestsOK, LocalsOK
    <2>2. QED
      BY <1>1, <1>2, <1>5, <2>1 DEF BeginClose, BeginUse
  <1>6. CASE BeginClean(t)
    <2>1. calls' \in 0..MaxCalls /\ entry' \in [Threads -> MaybeObject]
      BY <1>6 DEF BeginClean, RequestsOK, LocalsOK
    <2>2. QED
      BY <1>2, <1>6, <2>1 DEF BeginClean
  <1>7. ASSUME NEW n \in Issued, Drop(t, n)
        PROVE  Shape'
    <2>1. fRefToEntry[n] \in MaybeObject
      BY <1>1, <1>7 DEF TablesOK, RefMap
    <2>2. QueuesOK'
      BY <1>1, <1>7, <2>1, SubmitTyped DEF Drop, SubmitRemoval, QueuesOK
    <2>3. RequestsOK'
      BY <1>7 DEF Drop, RequestsOK
    <2>4. QED
      BY <1>7, <2>2, <2>3
         DEF Drop, TablesOK, EntriesOK, ClientsOK, LocalsOK, RequestOK, tables,
             entries, clients
  <1>8. QED
    BY <1>3, <1>4, <1>5, <1>6, <1>7 DEF NewRequest

LEMMA ThreadStepShape ==
  ASSUME Shape, NEW t \in Threads, ThreadStep(t)
  PROVE  Shape'
  <1> USE DEF Shape, TypeOK
  <1> t \in Agents
    BY DEF Agents
  <1>1. CASE CheckFails(t)
    BY <1>1 DEF CheckFails, TablesOK, EntriesOK, ClientsOK, QueuesOK, RequestsOK,
         LocalsOK, RequestOK, Where, MaybeObject, tables, entries, clients, request
  <1>2. CASE CheckForUse(t) \/ SubmitLookup(t)
    <2>1. QueuesOK'
      BY <1>2, SubmitTyped DEF CheckForUse, SubmitLookup, Submit, QueuesOK
    <2>2. RequestsOK' /\ \A u \in Threads : RequestOK(u)'
      BY <1>2 DEF CheckForUse, SubmitLookup, Submit, RequestsOK, Where, RequestOK,
           request
    <2>3. QED
      BY <1>2, <2>1, <2>2 DEF CheckForUse, SubmitLookup, TablesOK, EntriesOK,
           ClientsOK, LocalsOK, tables, entries, clients
  <1>3. CASE CheckPasses(t)
    <2>1. client[t] \in Object
      BY <1>3 DEF CheckPasses, Granted, LocalsOK, MaybeObject
    <2>2. ClientsOK' /\ QueuesOK'
      BY <1>3, <2>1, ReleaseClientTyped DEF CheckPasses, ClientsOK, QueuesOK
    <2>3. RequestsOK' /\ \A u \in Threads : RequestOK(u)'
      BY <1>3 DEF CheckPasses, RequestsOK, Where, RequestOK, request
    <2>4. LocalsOK'
      BY <1>3 DEF CheckPasses, LocalsOK, MaybeObject
    <2>5. QED
      BY <1>3, <2>2, <2>3, <2>4 DEF CheckPasses, TablesOK, EntriesOK, tables,
           entries
  <1>4. CASE SubmitRemove(t)
    <2>1. ref[t] \in RefNum /\ meant[t] \in MaybeObject
      BY <1>4 DEF SubmitRemove, RequestOK, RequestsOK
    <2>2. QueuesOK'
      BY <1>4, <2>1, SubmitTyped DEF SubmitRemove, SubmitRemoval, QueuesOK
    <2>3. RequestsOK' /\ \A u \in Threads : RequestOK(u)'
      BY <1>4 DEF SubmitRemove, Idle, RequestsOK, Where, RequestOK, MaybeObject
    <2>4. QED
      BY <1>4, <2>2, <2>3 DEF SubmitRemove, TablesOK, EntriesOK, ClientsOK,
           LocalsOK, tables, entries, clients
  <1>5. CASE CheckRoom(t)
    <2>1. QueuesOK'
      BY <1>5, SubmitTyped DEF CheckRoom, Submit, QueuesOK
    <2>2. RequestsOK' /\ \A u \in Threads : RequestOK(u)'
      BY <1>5 DEF CheckRoom, Submit, RequestsOK, Where, RequestOK, request
    <2>3. LocalsOK'
      BY <1>5 DEF CheckRoom, LocalsOK, MaybeObject
    <2>4. QED
      BY <1>5, <2>1, <2>2, <2>3 DEF CheckRoom, TablesOK, EntriesOK, ClientsOK,
           tables, entries, clients
  <1>6. CASE SubmitCopyName(t)
    <2>1. CASE client[t] # NULL
      <3>1. client[t] \in Object
        BY <2>1 DEF LocalsOK, MaybeObject
      <3>2. ClientsOK' /\ QueuesOK'
        BY <1>6, <2>1, <3>1, ReleaseClientTyped
           DEF SubmitCopyName, ClientsOK, QueuesOK
      <3>3. LocalsOK'
        BY <1>6, <2>1 DEF SubmitCopyName, LocalsOK, MaybeObject
      <3>4. QED
        BY <1>6, <2>1, <3>2, <3>3 DEF SubmitCopyName, TablesOK, EntriesOK,
             RequestsOK, RequestOK, tables, entries, request
    <2>2. CASE client[t] = NULL
      <3>1. QueuesOK'
        BY <1>6, <2>2, SubmitTyped DEF SubmitCopyName, Submit, QueuesOK
      <3>2. RequestsOK' /\ \A u \in Threads : RequestOK(u)'
        BY <1>6, <2>2 DEF SubmitCopyName, Submit, RequestsOK, Where, RequestOK,
             request
      <3>3. QED
        BY <1>6, <2>2, <3>1, <3>2 DEF SubmitCopyName, TablesOK, EntriesOK,
             ClientsOK, LocalsOK, tables, entries
    <2>3. QED
      BY <2>1, <2>2
  <1>7. CASE ReleaseLocalClient(t)
    <2>1. client[t] \in Object
      BY <1>7 DEF ReleaseLocalClient, LocalsOK, MaybeObject
    <2>2. ClientsOK' /\ QueuesOK'
      BY <1>7, <2>1, ReleaseClientTyped DEF ReleaseLocalClient, ClientsOK, QueuesOK
    <2>3. LocalsOK'
      BY <1>7 DEF ReleaseLocalClient, LocalsOK, MaybeObject
    <2>4. QED
      BY <1>7, <2>2, <2>3 DEF ReleaseLocalClient, TablesOK, EntriesOK, RequestsOK,
           RequestOK, tables, entries, request
  <1>8. CASE ReleaseLocalEntry(t)
    <2>1. entry[t] \in Object /\ <<>> \in Seq(Frame)
      BY <1>8 DEF ReleaseLocalEntry, LocalsOK, MaybeObject
    <2>2. EntriesOK' /\ QueuesOK'
      BY <1>8, <2>1, ReleaseEntryTyped DEF ReleaseLocalEntry, EntriesOK, QueuesOK
    <2>3. LocalsOK'
      BY <1>8 DEF ReleaseLocalEntry, LocalsOK, MaybeObject
    <2>4. QED
      BY <1>8, <2>2, <2>3 DEF ReleaseLocalEntry, TablesOK, ClientsOK, RequestsOK,
           RequestOK, tables, clients, request
  <1>9. CASE ReleaseLocalParent(t)
    <2>1. parent[t] \in Object /\ <<>> \in Seq(Frame)
      BY <1>9 DEF ReleaseLocalParent, LocalsOK, MaybeObject
    <2>2. EntriesOK' /\ QueuesOK'
      BY <1>9, <2>1, ReleaseEntryTyped DEF ReleaseLocalParent, EntriesOK, QueuesOK
    <2>3. LocalsOK'
      BY <1>9 DEF ReleaseLocalParent, LocalsOK, MaybeObject
    <2>4. QED
      BY <1>9, <2>2, <2>3 DEF ReleaseLocalParent, TablesOK, ClientsOK, RequestsOK,
           RequestOK, tables, clients, request
  <1>10. CASE Return(t)
    BY <1>10, Zenon DEF Return, Idle, TablesOK, EntriesOK, ClientsOK, QueuesOK,
         RequestsOK, LocalsOK, RequestOK, Where, MaybeObject, tables, entries,
         clients
  <1>11. QED
    BY <1>1, <1>2, <1>3, <1>4, <1>5, <1>6, <1>7, <1>8, <1>9, <1>10
       DEF ThreadStep

LEMMA RemoveShape ==
  ASSUME Shape, RunRemove
  PROVE  Shape'
  <1> USE DEF Shape, TypeOK
  <1> DEFINE n == Head(queue).num
             c == fRefToClientEntry[n]
             e == fRefToEntry[n]
             p == IF e = NULL \/ fParentID[e] = 0 THEN NULL
                                                  ELSE fRefToEntry[fParentID[e]]
  <1>1. n \in RefNum /\ Tail(queue) \in Seq(Block)
    <2>1. queue \in Seq(Block) /\ queue # <<>> /\ Head(queue).op = "remove"
      BY Zenon DEF QueuesOK, RunRemove
    <2>2. Head(queue) \in Block /\ Tail(queue) \in Seq(Block)
      BY <2>1, HeadTailProperties
    <2>3. QED
      BY <2>1, <2>2 DEF Block
  <1>2. c \in MaybeObject /\ e \in MaybeObject
    BY <1>1 DEF TablesOK, RefMap
  <1>3. p \in MaybeObject
    BY <1>2 DEF TablesOK, EntriesOK, RefMap, MaybeObject
  <1>4. TablesOK'
    BY <1>1, Zenon DEF RunRemove, TablesOK, RefMap, MaybeObject
  <1>5. EntriesOK'
    <2>1. fSubRefs' \in [Object -> RefMap]
      BY <1>1, <1>3, Zenon DEF RunRemove, WithoutRef, EntriesOK, RefMap, MaybeObject
    <2>2. retain' \in [Object -> Int]
      <3> DEFINE byClient == c # NULL /\ cSubRefs[c][n] # NULL
                 byParent == p # NULL /\ fSubRefs[p][n] # NULL
                 drops == 1 + (IF byClient THEN 1 ELSE 0) + (IF byParent THEN 1 ELSE 0)
      <3>1. drops \in Int
        OBVIOUS
      <3>2. retain' = IF e # NULL THEN [retain EXCEPT ![e] = @ - drops] ELSE retain
        BY Zenon DEF RunRemove
      <3> HIDE DEF drops
      <3>3. QED
        BY <1>2, <3>1, <3>2 DEF EntriesOK, MaybeObject
    <2>3. status' \in [Object -> {"unmade", "live", "dying", "freed", "closed"}]
      BY <1>2, Zenon DEF RunRemove, EntriesOK, MaybeObject
    <2>4. QED
      BY <2>1, <2>2, <2>3, Zenon DEF RunRemove, EntriesOK
  <1>6. ClientsOK'
    <2>1. cSubRefs' \in [Object -> RefMap]
      BY <1>1, <1>2, Zenon DEF RunRemove, WithoutRef, ClientsOK, RefMap, MaybeObject
    <2>2. cRetain' \in [Object -> Int]
      <3>1. cRetain' = IF c # NULL THEN [cRetain EXCEPT ![c] = @ - 1] ELSE cRetain
        BY Zenon DEF RunRemove
      <3>2. QED
        BY <1>2, <3>1 DEF ClientsOK, MaybeObject
    <2>3. cStatus' \in [Object -> {"unmade", "live", "dying", "freed"}]
      BY <1>2, Zenon DEF RunRemove, ClientsOK, MaybeObject
    <2>4. QED
      BY <2>1, <2>2, <2>3, Zenon DEF RunRemove, ClientsOK
  <1>7. QueuesOK'
    <2>1. /\ c # NULL => <<ClientFrame(c)>> \in Seq(Frame)
          /\ e # NULL => <<EntryFrame(e)>> \in Seq(Frame)
          /\ <<>> \in Seq(Frame)
      BY <1>2 DEF ClientFrame, EntryFrame, Frame, MaybeObject
    <2>2. \A s, u \in Seq(Frame) : s \o u \in Seq(Frame)
      BY ConcatProperties
    <2>3. PICK s \in Seq(Frame), u \in Seq(Frame) :
            stack' = [stack EXCEPT ![Worker] = s \o u]
      BY <2>1, Zenon DEF RunRemove
    <2>4. stack' \in [Agents -> Seq(Frame)]
      BY <2>2, <2>3 DEF QueuesOK
    <2>5. QED
      BY <1>1, <2>4, Zenon DEF RunRemove, QueuesOK
  <1>8. QED
    BY <1>4, <1>5, <1>6, <1>7, Zenon DEF RunRemove, RequestsOK, LocalsOK, RequestOK, request

LEMMA BlockShape ==
  ASSUME Shape, RunBlock
  PROVE  Shape'
  <1> USE DEF Shape, TypeOK
  <1>1. ASSUME NEW t \in Threads, NEW where, Runs(t, where)
        PROVE  queue' \in Seq(Block) /\ pc[t] = where
    BY <1>1, HeadTailProperties DEF Runs, QueuesOK
  <1>2. ASSUME NEW t \in Threads, RunVerify(t)
        PROVE  Shape'
    <2>1. queue' \in Seq(Block) /\ pc[t] = "verify"
      BY <1>1, <1>2 DEF RunVerify
    <2>2. ref[t] \in RefNum
      BY <2>1 DEF RequestOK
    <2>3. fRefToClientEntry[ref[t]] \in MaybeObject /\ fRefToEntry[ref[t]] \in MaybeObject
      BY <2>2 DEF TablesOK, RefMap
    <2>4. ClientsOK'
      BY <1>2, <2>3, KeptTyped DEF RunVerify, ClientsOK
    <2>5. RequestsOK' /\ \A u \in Threads : RequestOK(u)'
      BY <1>2, <2>1, <2>2, <2>3 DEF RunVerify, RequestsOK, RequestOK, Where, MaybeObject
    <2>6. LocalsOK'
      BY <1>2, <2>3 DEF RunVerify, LocalsOK
    <2>7. QED
      BY <1>2, <2>1, <2>4, <2>5, <2>6 DEF RunVerify, TablesOK, EntriesOK, QueuesOK,
           tables, entries
  <1>3. ASSUME NEW t \in Threads, RunLookup(t)
        PROVE  Shape'
    <2>1. queue' \in Seq(Block) /\ pc[t] = "lookup"
      BY <1>1, <1>3 DEF RunLookup
    <2>2. ref[t] \in RefNum /\ op[t] = "create"
      BY <2>1 DEF RequestOK
    <2>3. fRefToClientEntry[ref[t]] \in MaybeObject /\ fRefToEntry[ref[t]] \in MaybeObject
      BY <2>2 DEF TablesOK, RefMap
    <2>4. ClientsOK'
      BY <1>3, <2>3, KeptTyped DEF RunLookup, ClientsOK
    <2>5. EntriesOK'
      BY <1>3, <2>3, KeptTyped DEF RunLookup, EntriesOK
    <2>6. RequestsOK' /\ \A u \in Threads : RequestOK(u)'
      BY <1>3, <2>2 DEF RunLookup, RequestsOK, RequestOK, Where, request
    <2>7. LocalsOK'
      BY <1>3, <2>3 DEF RunLookup, LocalsOK, MaybeObject
    <2>8. QED
      BY <1>3, <2>1, <2>4, <2>5, <2>6, <2>7 DEF RunLookup, TablesOK, QueuesOK, tables
  <1>4. ASSUME NEW t \in Threads, RunFindClient(t)
        PROVE  Shape'
    <2>1. queue' \in Seq(Block) /\ pc[t] = "find_client" /\ op[t] = "create"
      BY <1>1, <1>4 DEF RunFindClient, RequestOK
    <2>2. PortOf[t] \in Ports /\ fPortToClientEntry[PortOf[t]] \in MaybeObject
      BY DEF TablesOK
    <2>3. TablesOK' /\ ClientsOK'
      <3>1. CASE fPortToClientEntry[PortOf[t]] # NULL
        <4>1. /\ cRetain' = Kept(cRetain, fPortToClientEntry[PortOf[t]])
              /\ UNCHANGED <<cStatus, portInfo, fPortToClientEntry>>
          BY <1>4, <3>1 DEF RunFindClient
        <4>2. cRetain' \in [Object -> Int]
          BY <2>2, <4>1, KeptTyped DEF ClientsOK
        <4>3. QED
          BY <1>4, <4>1, <4>2 DEF RunFindClient, TablesOK, ClientsOK
      <3>2. CASE fPortToClientEntry[PortOf[t]] = NULL
        <4>1. /\ cRetain' = [cRetain EXCEPT ![entry[t]] = 2]
              /\ cStatus' = [cStatus EXCEPT ![entry[t]] = "live"]
              /\ portInfo' = [portInfo EXCEPT ![entry[t]] = PortOf[t]]
              /\ fPortToClientEntry' =
                   [fPortToClientEntry EXCEPT ![PortOf[t]] = entry[t]]
          BY <1>4, <3>2 DEF RunFindClient
        <4>2. TablesOK'
          BY <1>4, <2>2, <4>1 DEF RunFindClient, TablesOK, LocalsOK
        <4>3. cRetain' \in [Object -> Int]
          <5>1. \A x \in Int : [cRetain EXCEPT ![entry[t]] = x] \in [Object -> Int]
            BY DEF ClientsOK
          <5>2. QED
            BY <4>1, <5>1
        <4>4. cSubRefs' = cSubRefs
          BY <1>4 DEF RunFindClient
        <4>5. ClientsOK'
          BY <2>2, <4>1, <4>3, <4>4 DEF ClientsOK
        <4>6. QED
          BY <4>2, <4>5
      <3>3. QED
        BY <3>1, <3>2
    <2>4. RequestsOK' /\ \A u \in Threads : RequestOK(u)'
      BY <1>4, <2>1 DEF RunFindClient, RequestsOK, RequestOK, Where, request
    <2>5. LocalsOK'
      BY <1>4, <2>2 DEF RunFindClient, LocalsOK
    <2>6. QED
      BY <1>4, <2>1, <2>3, <2>4, <2>5 DEF RunFindClient, EntriesOK, QueuesOK, entries
  <1>5. ASSUME NEW t \in Threads, RunInsert(t)
        PROVE  Shape'
    <2>1. queue' \in Seq(Block) /\ pc[t] = "insert" /\ type[t] \in RefType
      BY <1>1, <1>5 DEF RunInsert, RequestOK
    <2> DEFINE e == entry[t]
               c == client[t]
               p == parent[t]
    <2>2. PICK k \in 0..(IndexSpace - 1) :
            LET n == type[t] * IndexSpace + Probe(k)
            IN /\ fNextIndex' = AdvanceIndex(k)
               /\ tried' = tried + k + 1
               /\ born' = [born EXCEPT ![e] = tried + k + 1]
               /\ status' = [status EXCEPT ![e] = "live"]
               /\ fRefNum' = [fRefNum EXCEPT ![e] = n]
               /\ fParentID' = [fParentID EXCEPT ![e] = ref[t]]
               /\ retain' = [retain EXCEPT ![e] = 2 + (IF c # NULL THEN 1 ELSE 0)
                                                    + (IF p # NULL THEN 1 ELSE 0)]
               /\ fRefToEntry' = [fRefToEntry EXCEPT ![n] = e]
               /\ cSubRefs' = IF c # NULL THEN [cSubRefs EXCEPT ![c][n] = e]
                                          ELSE cSubRefs
               /\ fRefToClientEntry' = [fRefToClientEntry EXCEPT ![n] = c]
               /\ cRetain' = Kept(cRetain, c)
               /\ fSubRefs' = IF p # NULL THEN [fSubRefs EXCEPT ![p][n] = e]
                                          ELSE fSubRefs
      BY <1>5 DEF RunInsert
    <2> DEFINE n == type[t] * IndexSpace + Probe(k)
    <2>3. n \in RefNum /\ AdvanceIndex(k) \in 0..(IndexSpace - 1)
      <3>1. Probe(k) \in 0..(IndexSpace - 1) /\ AdvanceIndex(k) \in 0..(IndexSpace - 1)
        BY ProbeFacts DEF TablesOK
      <3>2. QED
        BY <2>1, <3>1, RefNumFacts
    <2>4. e \in MaybeObject /\ c \in MaybeObject /\ p \in MaybeObject
      BY DEF LocalsOK
    <2> HIDE DEF n
    <2>5. TablesOK'
      <3> DEFINE b == tried + k + 1
      <3>1. tried' = b /\ born' = [born EXCEPT ![e] = b]
        BY <2>2
      <3>2. b \in Nat /\ born \in [Object -> Nat]
        BY DEF TablesOK
      <3> HIDE DEF b
      <3>3. tried' \in Nat /\ born' \in [Object -> Nat]
        BY <3>1, <3>2
      <3>4. QED
        BY <1>5, <2>2, <2>3, <2>4, <3>3 DEF n, RunInsert, TablesOK, RefMap
    <2>6. EntriesOK'
      <3>1. fSubRefs' \in [Object -> RefMap]
        BY <2>2, <2>3, <2>4 DEF n, EntriesOK, RefMap, MaybeObject
      <3>2. fRefNum' \in [Object -> RefNum \cup {0}]
        BY <2>2, <2>3 DEF n, EntriesOK
      <3>3. fParentID' \in [Object -> RefNum \cup {0}]
        BY <2>2 DEF EntriesOK, RequestsOK
      <3>4. /\ retain' \in [Object -> Int]
            /\ status' \in [Object -> {"unmade", "live", "dying", "freed", "closed"}]
        <4> DEFINE r == 2 + (IF c # NULL THEN 1 ELSE 0) + (IF p # NULL THEN 1 ELSE 0)
        <4>1. r \in Int
          OBVIOUS
        <4>2. retain' = [retain EXCEPT ![e] = r]
          BY <2>2
        <4>3. status' = [status EXCEPT ![e] = "live"]
          BY <2>2
        <4> HIDE DEF r
        <4>4. QED
          BY <4>1, <4>2, <4>3 DEF EntriesOK
      <3>5. QED
        BY <3>1, <3>2, <3>3, <3>4 DEF EntriesOK
    <2>7. ClientsOK'
      <3>1. cSubRefs' \in [Object -> RefMap]
        BY <2>2, <2>3, <2>4 DEF n, ClientsOK, RefMap, MaybeObject
      <3>2. QED
        BY <1>5, <2>2, <2>4, <3>1, KeptTyped DEF RunInsert, ClientsOK
    <2>8. RequestsOK' /\ \A u \in Threads : RequestOK(u)'
      BY <1>5 DEF RunInsert, RequestsOK, RequestOK, Where, request
    <2>9. QED
      BY <1>5, <2>1, <2>5, <2>6, <2>7, <2>8 DEF RunInsert, QueuesOK, LocalsOK
  <1>6. ASSUME NEW t \in Threads, RunPlugin(t)
        PROVE  Shape'
    <2>1. queue' \in Seq(Block) /\ ref[t] \in RefNum
      BY <1>1, <1>6 DEF RunPlugin, RequestOK
    <2>2. RequestsOK' /\ \A u \in Threads : RequestOK(u)'
      BY <1>6, <2>1 DEF RunPlugin, RequestsOK, RequestOK, Where, request
    <2>3. QED
      BY <1>6, <2>1, <2>2 DEF RunPlugin, TablesOK, EntriesOK, ClientsOK, QueuesOK,
           LocalsOK, tables, entries, clients
  <1>7. ASSUME NEW t \in Threads, RunGetEntry(t)
        PROVE  Shape'
    <2>1. queue' \in Seq(Block) /\ ref[t] \in RefNum
      BY <1>1, <1>7 DEF RunGetEntry, RequestOK
    <2>2. fRefToEntry[ref[t]] \in MaybeObject
      BY <2>1 DEF TablesOK, RefMap
    <2>3. EntriesOK'
      BY <1>7, <2>2, KeptTyped DEF RunGetEntry, EntriesOK
    <2>4. RequestsOK' /\ \A u \in Threads : RequestOK(u)'
      BY <1>7 DEF RunGetEntry, RequestsOK, RequestOK, Where, request
    <2>5. LocalsOK'
      BY <1>7, <2>2 DEF RunGetEntry, LocalsOK
    <2>6. QED
      BY <1>7, <2>1, <2>3, <2>4, <2>5 DEF RunGetEntry, TablesOK, ClientsOK, QueuesOK,
           tables, clients
  <1>8. ASSUME NEW t \in Threads, RunClean(t)
        PROVE  Shape'
    <2> DEFINE c == fPortToClientEntry[PortOf[t]]
    <2>1. queue' \in Seq(Block) /\ PortOf[t] \in Ports /\ c \in MaybeObject
      BY <1>1, <1>8 DEF RunClean, TablesOK
    <2>2. c # NULL => <<ClientFrame(c)>> \in Seq(Frame)
      BY <2>1 DEF ClientFrame, Frame, MaybeObject
    <2>3. TablesOK'
      BY <1>8, <2>1 DEF RunClean, TablesOK, MaybeObject
    <2>4. QueuesOK'
      BY <1>8, <2>1, <2>2 DEF RunClean, QueuesOK
    <2>5. RequestsOK' /\ \A u \in Threads : RequestOK(u)'
      <3>1. CASE c = NULL
        <4>1. Idle(t) /\ UNCHANGED <<calls, requests>>
          BY <1>8, <3>1 DEF RunClean
        <4>2. QED
          BY <4>1 DEF Idle, RequestsOK, RequestOK, Where, MaybeObject
      <3>2. CASE c # NULL
        BY <1>8, <3>2 DEF RunClean, RequestsOK, RequestOK, Where
      <3>3. QED
        BY <3>1, <3>2
    <2>6. LocalsOK'
      <3>1. CASE c = NULL
        BY <1>8, <3>1 DEF RunClean, LocalsOK
      <3>2. CASE c # NULL
        BY <1>8, <2>1, <3>2 DEF RunClean, LocalsOK
      <3>3. QED
        BY <3>1, <3>2
    <2>7. QED
      BY <1>8, <2>3, <2>4, <2>5, <2>6 DEF RunClean, EntriesOK, ClientsOK, entries, clients
  <1>9. ASSUME NEW t \in Threads, FinishClean(t)
        PROVE  Shape'
    <2>1. Head(stack[Worker]).obj \in Object /\ Tail(stack[Worker]) \in Seq(Frame)
      BY <1>9, FramesTyped DEF FinishClean, TopIs, Agents
    <2> DEFINE c == Head(stack[Worker]).obj
    <2>2. ClientsOK'
      <3>1. /\ cRetain' = [cRetain EXCEPT ![c] = @ - 1]
            /\ \/ cStatus' = [cStatus EXCEPT ![c] = "dying"]
               \/ cStatus' = cStatus
            /\ UNCHANGED <<portInfo, cSubRefs>>
        BY <1>9 DEF FinishClean
      <3>2. QED
        BY <2>1, <3>1 DEF ClientsOK
    <2>3. QueuesOK'
      BY <1>9, <2>1 DEF FinishClean, QueuesOK
    <2>4. RequestsOK' /\ \A u \in Threads : RequestOK(u)'
      BY <1>9 DEF FinishClean, Idle, RequestsOK, RequestOK, Where, MaybeObject
    <2>5. LocalsOK'
      BY <1>9 DEF FinishClean, LocalsOK, MaybeObject
    <2>6. QED
      BY <1>9, <2>2, <2>3, <2>4, <2>5 DEF FinishClean, TablesOK, EntriesOK, tables,
           entries
  <1>10. QED
    BY <1>2, <1>3, <1>4, <1>5, <1>6, <1>7, <1>8, <1>9, RemoveShape DEF RunBlock

LEMMA DeallocShape ==
  ASSUME Shape, RunDealloc
  PROVE  Shape'
  <1> USE DEF Shape, TypeOK
  <1>1. Tail(cleanup) \in Seq(Object)
    BY HeadTailProperties DEF RunDealloc, QueuesOK
  <1>2. EntriesOK' /\ QueuesOK'
    BY <1>1 DEF RunDealloc, EntriesOK, QueuesOK
  <1>3. QED
    BY <1>2 DEF RunDealloc, TablesOK, ClientsOK, RequestsOK, LocalsOK, RequestOK,
         tables, clients, request

LEMMA StutterShape ==
  ASSUME Shape, UNCHANGED vars
  PROVE  Shape'
  BY DEF Shape, TypeOK, TablesOK, EntriesOK, ClientsOK, QueuesOK, RequestsOK,
     LocalsOK, RequestOK, vars, tables, entries, clients, request

LEMMA NextShape == Shape /\ [Next]_vars => Shape'
  <1> SUFFICES ASSUME Shape, [Next]_vars PROVE Shape'
    OBVIOUS
  <1>1. CASE Rest \/ UNCHANGED vars
    BY <1>1, StutterShape DEF Rest
  <1>2. QED
    BY <1>1, RequestShape, ThreadStepShape, DestructorShape, BlockShape,
       DeallocShape DEF Next

\* Every state the daemon reaches is well formed, whatever the number of
\* threads, ports, indices and calls: no interleaving of CreateReference,
\* RemoveReference, VerifyReference and CleanRefsForMachRefs looks up a number
\* outside the table or follows a pointer that is not one of an object.
THEOREM TypeCorrect == Spec => []TypeOK
  <1>1. Spec => []Shape
    BY InitShape, NextShape, PTL DEF Spec
  <1>2. Shape => TypeOK
    BY DEF Shape
  <1>3. QED
    BY <1>1, <1>2, PTL

-----------------------------------------------------------------------------
(***************************************************************************)
(* The maps agree.  MapsAgree is not inductive: that an inserted entry is  *)
(* not already in the table, and that it has a client, are facts about the *)
(* threads that are about to insert (NewEntries, ForAClient).              *)
(***************************************************************************)
LEMMA InitMaps == Init => MapsInv
  <1> SUFFICES ASSUME Init PROVE MapsInv
    OBVIOUS
  <1>1. MapsAgree
    BY DEF Init, MapsAgree
  <1>2. NewEntries /\ ForAClient
    BY DEF Init, NewEntries, ForAClient, Pending
  <1>3. QED
    BY <1>1, <1>2, InitShape DEF MapsInv

\* The steps that neither insert, remove nor begin a call: at most they
\* take references off a client's list or end a call.
LEMMA OtherSteps ==
  ASSUME MapsInv, Shape',
         UNCHANGED <<fRefToEntry, fRefToClientEntry, fRefNum, calls>>,
         \A c \in Object, n \in RefNum : cSubRefs'[c][n] \in {cSubRefs[c][n], NULL},
         \A t \in Threads : Pending(t)' => Pending(t) /\ entry'[t] = entry[t],
         ForAClient'
  PROVE  MapsInv'
  <1>1. MapsAgree'
    BY DEF MapsInv, MapsAgree
  <1>2. NewEntries'
    BY DEF MapsInv, NewEntries
  <1>3. QED
    BY <1>1, <1>2 DEF MapsInv

LEMMA DestructorMaps ==
  ASSUME MapsInv, NEW a \in Agents, Destructor(a)
  PROVE  MapsInv'
  <1>1. Shape'
    BY DestructorShape DEF MapsInv
  <1>2. UNCHANGED <<tables, fRefNum, request, pc, client, entry>>
    BY DEF Destructor, ReleaseSubRef, FinishEntry, ClearChildRef, FreeClient,
           clients, entries
  <1>3. \A c \in Object, n \in RefNum : cSubRefs'[c][n] \in {cSubRefs[c][n], NULL}
    <2>1. CASE ClearChildRef(a)
      <3>1. cSubRefs \in [Object -> RefMap]
        BY DEF MapsInv, Shape, TypeOK, ClientsOK
      <3>2. PICK c \in Object, n \in RefNum : cSubRefs' = WithoutRef(cSubRefs, c, n)
        BY <2>1, FramesTyped DEF ClearChildRef, TopIs, MapsInv
      <3>3. QED
        BY <3>1, <3>2 DEF WithoutRef, RefMap
    <2>2. CASE UNCHANGED cSubRefs
      BY <2>2
    <2>3. QED
      BY <2>1, <2>2 DEF Destructor, ReleaseSubRef, FinishEntry, FreeClient, clients
  <1>4. QED
    BY <1>1, <1>2, <1>3, OtherSteps DEF MapsInv, ForAClient, Pending, tables, request

LEMMA BeginMaps ==
  ASSUME MapsInv, NEW t \in Threads, NewRequest(t)
  PROVE  MapsInv'
  <1>1. Shape'
    BY RequestShape DEF MapsInv
  <1>2. UNCHANGED <<fRefToEntry, fRefToClientEntry, fRefNum, cSubRefs, client>>
    BY DEF NewRequest, BeginOpenDir, BeginOpenChild, BeginClose, BeginUse,
           BeginClean, Drop, Begin, tables, entries, clients
  <1>3. /\ \A u \in Threads : pc'[u] \in {"room", "insert"} => pc[u] = pc'[u]
        /\ \A u \in Threads \ {t} : Pending(u)' => Pending(u)
    BY DEF NewRequest, BeginOpenDir, BeginOpenChild, BeginClose, BeginUse,
           BeginClean, Drop, Begin, Submit, Pending, MapsInv, Shape, TypeOK,
           RequestsOK
  <1>4. ForAClient'
    BY <1>2, <1>3 DEF MapsInv, ForAClient
  <1>5. CASE /\ calls < MaxCalls /\ calls' = calls + 1
             /\ entry' = [entry EXCEPT ![t] = calls + 1]
    <2>1. calls \in Nat /\ entry \in [Threads -> MaybeObject]
      BY DEF MapsInv, Shape, TypeOK, RequestsOK, LocalsOK
    <2>2. calls + 1 \in Object /\ calls + 1 \in 1..calls'
      BY <1>5, <2>1 DEF Object
    <2>3. entry'[t] = calls + 1 /\ \A u \in Threads \ {t} : entry'[u] = entry[u]
      BY <1>5, <2>1
    <2>4. fRefNum[calls + 1] = 0
      BY <2>1, <2>2 DEF MapsInv, NewEntries
    <2>5. \A u \in Threads \ {t} :
            Pending(u)' => entry'[u] \in 1..calls /\ fRefNum[entry'[u]] = 0
      BY <1>3, <2>3 DEF MapsInv, NewEntries
    <2>6. \A x \in 1..calls : x \in 1..calls' /\ x # calls + 1
      BY <1>5, <2>1
    <2>7. \A u \in Threads : Pending(u)' => entry'[u] \in 1..calls' /\ fRefNum'[entry'[u]] = 0
      BY <1>2, <2>2, <2>3, <2>4, <2>5, <2>6
    <2>8. ASSUME NEW u \in Threads, NEW v \in Threads, u # v, Pending(u)', Pending(v)'
          PROVE  entry'[u] # entry'[v]
      <3>1. CASE u = t \/ v = t
        BY <3>1, <2>3, <2>5, <2>6, <2>8
      <3>2. CASE u # t /\ v # t
        BY <3>2, <1>3, <2>3, <2>8 DEF MapsInv, NewEntries
      <3>3. QED
        BY <3>1, <3>2
    <2>9. \A e \in Object : e > calls' => fRefNum'[e] = 0
      BY <1>2, <1>5, <2>1 DEF MapsInv, NewEntries, Object
    <2>10. NewEntries'
      BY <2>7, <2>8, <2>9 DEF NewEntries
    <2>11. QED
      BY <1>1, <1>2, <1>4, <2>10 DEF MapsInv, MapsAgree
  <1>6. CASE /\ UNCHANGED <<calls, entry>>
             /\ \A u \in Threads : Pending(u)' => Pending(u)
    BY <1>1, <1>2, <1>4, <1>6, OtherSteps
  <1>7. QED
    <2>1. CASE BeginOpenDir(t) \/ \E n \in Issued, ty \in RefType : BeginOpenChild(t, n, ty)
      BY <1>5, <2>1 DEF BeginOpenDir, BeginOpenChild
    <2>2. CASE \/ BeginClean(t)
               \/ \E n \in Issued : BeginClose(t, n) \/ BeginUse(t, n)
      <3>1. UNCHANGED <<calls, entry>> /\ op'[t] # "create"
        BY <2>2 DEF BeginClean, BeginClose, BeginUse, Begin, MapsInv, Shape, TypeOK,
             RequestsOK
      <3>2. QED
        BY <3>1, <1>3, <1>6 DEF Pending
    <2>3. CASE \E n \in Issued : Drop(t, n)
      <3>1. UNCHANGED <<calls, entry, op, pc>>
        BY <2>3 DEF Drop
      <3>2. QED
        BY <3>1, <1>6 DEF Pending
    <2>4. QED
      BY <2>1, <2>2, <2>3 DEF NewRequest

LEMMA ThreadStepMaps ==
  ASSUME MapsInv, NEW t \in Threads, ThreadStep(t)
  PROVE  MapsInv'
  <1>1. Shape'
    BY ThreadStepShape DEF MapsInv
  <1>2. UNCHANGED <<fRefToEntry, fRefToClientEntry, fRefNum, cSubRefs, calls>>
    BY DEF ThreadStep, CheckFails, CheckForUse, CheckPasses, SubmitRemove,
           SubmitLookup, CheckRoom, SubmitCopyName, ReleaseLocalClient,
           ReleaseLocalEntry, ReleaseLocalParent, Return, tables, entries, clients,
           request
  <1>3. \A u \in Threads : Pending(u)' => Pending(u) /\ entry'[u] = entry[u]
    BY DEF ThreadStep, CheckFails, CheckForUse, CheckPasses, SubmitRemove,
           SubmitLookup, CheckRoom, SubmitCopyName, ReleaseLocalClient,
           ReleaseLocalEntry, ReleaseLocalParent, Return, Idle, Submit, request,
           Pending, MapsInv, Shape, TypeOK, RequestsOK, LocalsOK
  <1>4. ForAClient'
    BY DEF ThreadStep, CheckFails, CheckForUse, CheckPasses, SubmitRemove,
           SubmitLookup, CheckRoom, SubmitCopyName, ReleaseLocalClient,
           ReleaseLocalEntry, ReleaseLocalParent, Return, Idle, Submit,
           ForAClient, MapsInv, Shape, TypeOK, RequestsOK, LocalsOK
  <1>5. QED
    BY <1>1, <1>2, <1>3, <1>4, OtherSteps

LEMMA InsertMaps ==
  ASSUME MapsInv, NEW t \in Threads, RunInsert(t)
  PROVE  MapsInv'
  <1> DEFINE e == entry[t]
             c == client[t]
  <1>0. Shape'
    BY BlockShape DEF MapsInv, RunBlock
  <1>1. pc[t] = "insert" /\ Pending(t) /\ type[t] \in RefType
    BY DEF RunInsert, Runs, MapsInv, Shape, RequestOK, Pending
  <1>2. /\ calls \in 0..MaxCalls
        /\ fRefToEntry \in RefMap /\ fRefToClientEntry \in RefMap
        /\ fRefNum \in [Object -> RefNum \cup {0}]
        /\ cSubRefs \in [Object -> RefMap] /\ pc \in [Threads -> Where]
        /\ c \in MaybeObject
    BY DEF MapsInv, Shape, TypeOK, TablesOK, EntriesOK, ClientsOK, RequestsOK, LocalsOK
  <1>3. c \in Object
    BY <1>1, <1>2 DEF MapsInv, ForAClient, MaybeObject
  <1>4. e \in Object /\ e # NULL /\ e <= calls /\ fRefNum[e] = 0
    BY <1>1, <1>2 DEF MapsInv, NewEntries, Object, NULL
  <1>5. PICK n \in RefNum :
          /\ fRefToEntry[n] = NULL
          /\ fRefNum' = [fRefNum EXCEPT ![e] = n]
          /\ fRefToEntry' = [fRefToEntry EXCEPT ![n] = e]
          /\ fRefToClientEntry' = [fRefToClientEntry EXCEPT ![n] = c]
          /\ cSubRefs' = [cSubRefs EXCEPT ![c][n] = e]
    <2>1. PICK k \in 0..(IndexSpace - 1) :
            LET n == type[t] * IndexSpace + Probe(k)
            IN /\ fRefToEntry[n] = NULL
               /\ fRefNum' = [fRefNum EXCEPT ![e] = n]
               /\ fRefToEntry' = [fRefToEntry EXCEPT ![n] = e]
               /\ fRefToClientEntry' = [fRefToClientEntry EXCEPT ![n] = c]
               /\ cSubRefs' = IF c # NULL THEN [cSubRefs EXCEPT ![c][n] = e]
                                          ELSE cSubRefs
      BY DEF RunInsert, IsLeast, FreeProbes
    <2>2. type[t] * IndexSpace + Probe(k) \in RefNum
      <3>1. Probe(k) \in 0..(IndexSpace - 1)
        BY ProbeFacts DEF MapsInv, Shape, TypeOK, TablesOK
      <3>2. QED
        BY <1>1, <3>1, RefNumFacts
    <2>3. c # NULL
      BY <1>1 DEF MapsInv, ForAClient
    <2>4. QED
      BY <2>1, <2>2, <2>3
  <1>6. MapsAgree'
    <2>1. \A m \in RefNum : fRefToEntry[m] # e
      BY <1>4, RefNumFacts DEF MapsInv, MapsAgree, NULL
    <2>2. \A d \in Object : cSubRefs[d][n] = NULL
      BY <1>5 DEF MapsInv, MapsAgree
    <2>3. \A m \in RefNum :
            /\ (fRefToEntry'[m] = NULL) <=> (fRefToClientEntry'[m] = NULL)
            /\ fRefToEntry'[m] # NULL => fRefNum'[fRefToEntry'[m]] = m
      <3>1. ASSUME NEW m \in RefNum
            PROVE  /\ (fRefToEntry'[m] = NULL) <=> (fRefToClientEntry'[m] = NULL)
                   /\ fRefToEntry'[m] # NULL => fRefNum'[fRefToEntry'[m]] = m
        <4>1. CASE m = n
          <5>1. /\ fRefToEntry'[m] = e /\ fRefToClientEntry'[m] = c
                /\ fRefNum'[e] = n
            BY <1>2, <1>4, <1>5, <4>1 DEF RefMap
          <5>2. QED
            BY <1>3, <1>4, <4>1, <5>1 DEF Object, NULL
        <4>2. CASE m # n
          <5>1. /\ fRefToEntry'[m] = fRefToEntry[m]
                /\ fRefToClientEntry'[m] = fRefToClientEntry[m]
            BY <1>2, <1>5, <4>2 DEF RefMap
          <5>2. fRefToEntry[m] # NULL => fRefNum'[fRefToEntry[m]] = fRefNum[fRefToEntry[m]]
            BY <1>2, <1>5, <2>1 DEF RefMap, MaybeObject
          <5>3. QED
            BY <5>1, <5>2 DEF MapsInv, MapsAgree
        <4>3. QED
          BY <4>1, <4>2
      <3>2. QED
        BY <3>1
    <2>4. ASSUME NEW d \in Object, NEW m \in RefNum, cSubRefs'[d][m] # NULL
          PROVE  fRefToClientEntry'[m] = d /\ fRefToEntry'[m] = cSubRefs'[d][m]
      <3>1. CASE m = n /\ d = c
        BY <1>2, <1>3, <1>5, <3>1 DEF RefMap
      <3>2. CASE m = n /\ d # c
        BY <1>2, <1>3, <1>5, <2>2, <2>4, <3>2 DEF RefMap
      <3>3. CASE m # n
        <4>1. /\ cSubRefs'[d][m] = cSubRefs[d][m]
              /\ fRefToEntry'[m] = fRefToEntry[m]
              /\ fRefToClientEntry'[m] = fRefToClientEntry[m]
          BY <1>2, <1>3, <1>5, <3>3 DEF RefMap
        <4>2. QED
          BY <2>4, <4>1 DEF MapsInv, MapsAgree
      <3>4. QED
        BY <3>1, <3>2, <3>3
    <2>5. QED
      BY <2>3, <2>4 DEF MapsAgree
  <1>7. /\ pc' = [pc EXCEPT ![t] = "release"]
        /\ UNCHANGED <<calls, op, client, entry>>
    BY DEF RunInsert, request
  <1>8. NewEntries'
    <2>1. \A u \in Threads : Pending(u)' => u # t /\ Pending(u)
      BY <1>2, <1>7 DEF Pending
    <2>2. \A u \in Threads : Pending(u)' => entry[u] # e
      BY <1>1, <2>1 DEF MapsInv, NewEntries
    <2>3. \A u \in Threads : Pending(u)' => entry[u] \in Object /\ entry[u] \in 1..calls
      BY <1>2, <2>1 DEF MapsInv, NewEntries, Object
    <2>4. \A x \in Object : x # e => fRefNum'[x] = fRefNum[x]
      BY <1>2, <1>5
    <2>5. \A u \in Threads : Pending(u)' => entry'[u] \in 1..calls' /\ fRefNum'[entry'[u]] = 0
      BY <1>7, <2>1, <2>2, <2>3, <2>4 DEF MapsInv, NewEntries
    <2>6. \A x \in Object : x > calls' => fRefNum'[x] = 0
      BY <1>2, <1>4, <1>7, <2>4 DEF MapsInv, NewEntries, Object
    <2>7. QED
      BY <1>7, <2>1, <2>5, <2>6 DEF MapsInv, NewEntries
  <1>9. ForAClient'
    BY <1>2, <1>7 DEF MapsInv, ForAClient
  <1>10. QED
    BY <1>0, <1>6, <1>8, <1>9 DEF MapsInv

LEMMA RemoveMaps ==
  ASSUME MapsInv, RunRemove
  PROVE  MapsInv'
  <1> DEFINE n == Head(queue).num
             c == fRefToClientEntry[n]
  <1>1. Shape'
    BY RemoveShape DEF MapsInv
  <1>2. n \in RefNum
    <2>1. Head(queue) \in Block /\ Head(queue).op = "remove"
      BY HeadTailProperties, Zenon DEF RunRemove, MapsInv, Shape, TypeOK, QueuesOK
    <2>2. QED
      BY <2>1 DEF Block
  <1>3. /\ fRefToEntry \in RefMap /\ fRefToClientEntry \in RefMap
        /\ cSubRefs \in [Object -> RefMap]
    BY DEF MapsInv, Shape, TypeOK, TablesOK, ClientsOK
  <1>4. /\ fRefToEntry' = [fRefToEntry EXCEPT ![n] = NULL]
        /\ fRefToClientEntry' = [fRefToClientEntry EXCEPT ![n] = NULL]
        /\ cSubRefs' = IF c # NULL /\ cSubRefs[c][n] # NULL
                         THEN [cSubRefs EXCEPT ![c][n] = NULL] ELSE cSubRefs
        /\ UNCHANGED <<fRefNum, calls, op, pc, client, entry>>
    BY Zenon DEF RunRemove, WithoutRef, request
  <1>5. \A d \in Object : cSubRefs'[d][n] = NULL
    BY <1>2, <1>3, <1>4 DEF MapsInv, MapsAgree, RefMap, MaybeObject
  <1>6. \A d \in Object, m \in RefNum : m # n => cSubRefs'[d][m] = cSubRefs[d][m]
    BY <1>2, <1>3, <1>4 DEF RefMap, MaybeObject
  <1>7. \A m \in RefNum : /\ fRefToEntry'[m] = IF m = n THEN NULL ELSE fRefToEntry[m]
                          /\ fRefToClientEntry'[m] =
                               IF m = n THEN NULL ELSE fRefToClientEntry[m]
    BY <1>2, <1>3, <1>4 DEF RefMap
  <1>8. MapsAgree'
    BY <1>4, <1>5, <1>6, <1>7 DEF MapsInv, MapsAgree
  <1>9. NewEntries' /\ ForAClient'
    BY <1>4 DEF MapsInv, NewEntries, ForAClient, Pending
  <1>10. QED
    BY <1>1, <1>8, <1>9 DEF MapsInv

LEMMA BlockMaps ==
  ASSUME MapsInv, RunBlock
  PROVE  MapsInv'
  <1>1. Shape'
    BY BlockShape DEF MapsInv
  <1>2. ASSUME NEW t \in Threads,
               \/ RunVerify(t) \/ RunLookup(t) \/ RunFindClient(t)
               \/ RunPlugin(t) \/ RunGetEntry(t) \/ RunClean(t) \/ FinishClean(t)
        PROVE  MapsInv'
    <2>1. UNCHANGED <<fRefToEntry, fRefToClientEntry, fRefNum, cSubRefs, calls>>
      BY <1>2 DEF RunVerify, RunLookup, RunFindClient, RunPlugin, RunGetEntry,
         RunClean, FinishClean, tables, entries, clients, request
    <2>2. \A u \in Threads : Pending(u)' => Pending(u) /\ entry'[u] = entry[u]
      BY <1>2 DEF RunVerify, RunLookup, RunFindClient, RunPlugin, RunGetEntry,
         RunClean, FinishClean, Idle, Runs, request, Pending, MapsInv, Shape, TypeOK,
         RequestsOK, LocalsOK
    <2>3. ForAClient'
      <3>1. CASE RunLookup(t)
        <4>1. pc[t] = "lookup" /\ ref[t] \in RefNum
          BY <3>1 DEF RunLookup, Runs, MapsInv, Shape, RequestOK
        <4>2. (fRefToEntry[ref[t]] = NULL) <=> (fRefToClientEntry[ref[t]] = NULL)
          BY <4>1 DEF MapsInv, MapsAgree
        <4>3. QED
          BY <3>1, <4>1, <4>2 DEF RunLookup, ForAClient, MapsInv, Shape, TypeOK,
             RequestsOK, LocalsOK
      <3>2. CASE RunFindClient(t)
        <4>1. Pending(t)
          BY <3>2 DEF RunFindClient, Runs, Pending, MapsInv, Shape, RequestOK
        <4>2. entry[t] # NULL
          BY <4>1 DEF MapsInv, NewEntries, Shape, TypeOK, RequestsOK, NULL
        <4>3. QED
          BY <3>2, <4>2 DEF RunFindClient, ForAClient, MapsInv, Shape, TypeOK,
             RequestsOK, LocalsOK
      <3>3. CASE \/ RunVerify(t) \/ RunPlugin(t) \/ RunGetEntry(t) \/ RunClean(t)
                 \/ FinishClean(t)
        BY <3>3 DEF RunVerify, RunPlugin, RunGetEntry, RunClean, FinishClean, Idle,
           Runs, ForAClient, MapsInv, Shape, TypeOK, RequestsOK, LocalsOK
      <3>4. QED
        BY <1>2, <3>1, <3>2, <3>3
    <2>4. QED
      BY <1>1, <2>1, <2>2, <2>3, OtherSteps
  <1>3. QED
    BY <1>2, RemoveMaps, InsertMaps DEF RunBlock

LEMMA NextMaps == MapsInv /\ [Next]_vars => MapsInv'
  <1> SUFFICES ASSUME MapsInv, [Next]_vars PROVE MapsInv'
    OBVIOUS
  <1>1. CASE RunDealloc \/ Rest \/ UNCHANGED vars
    <2>1. Shape'
      BY <1>1, DeallocShape, StutterShape DEF MapsInv, Rest
    <2>2. UNCHANGED <<tables, fRefNum, clients, request, pc, client, entry>>
      BY <1>1 DEF RunDealloc, Rest, vars, entries
    <2>3. QED
      BY <2>1, <2>2, OtherSteps DEF MapsInv, ForAClient, Pending, tables, clients,
         request
  <1>2. QED
    BY <1>1, BeginMaps, ThreadStepMaps, DestructorMaps, BlockMaps DEF Next

\* The table of entries, the table of clients and the clients' own lists
\* always describe the same references, whatever the interleaving, the size of
\* the index space and the recycling of numbers: RemoveReference, which takes
\* the entry from a client's list and the same number out of the table, never
\* releases an entry on behalf of another.
THEOREM MapsCorrect == Spec => []MapsAgree
  <1>1. Spec => []MapsInv
    BY InitMaps, NextMaps, PTL DEF Spec
  <1>2. MapsInv => MapsAgree
    BY DEF MapsInv
  <1>3. QED
    BY <1>1, <1>2, PTL

-----------------------------------------------------------------------------
(***************************************************************************)
(* A reference number is given again only after the circular index has    *)
(* gone all the way round.                                                 *)
(***************************************************************************)

LEMMA Division ==
  ASSUME NEW S \in Nat \ {0}, NEW a \in Nat,
         NEW q \in Int, q = a \div S, NEW r \in Int, r = a % S
  PROVE  a = S * q + r
  BY SMT

LEMMA QuotientRemainder ==
  ASSUME NEW S \in Nat \ {0}, NEW a \in Nat
  PROVE  \E q \in Nat, r \in 0..(S - 1) : a % S = r /\ a = S * q + r
  <1> DEFINE q == a \div S
             r == a % S
  <1>1. q \in Nat /\ r \in 0..(S - 1)
    OBVIOUS
  <1>2. a = S * q + r
    BY <1>1, Division
  <1>3. a % S = r
    OBVIOUS
  <1> HIDE DEF q, r
  <1>4. QED
    BY <1>1, <1>2, <1>3

LEMMA Multiple ==
  ASSUME NEW S \in Nat \ {0}, NEW p \in Int, NEW q \in Int, p > q
  PROVE  S * p >= S * q + S
  OBVIOUS

LEMMA UniqueRemainder ==
  ASSUME NEW S \in Nat \ {0}, NEW p \in Int, NEW q \in Int,
         NEW i \in 0..(S - 1), NEW j \in 0..(S - 1), S * p + i = S * q + j
  PROVE  p = q /\ i = j
  <1>1. ~(p > q) /\ ~(q > p)
    BY Multiple
  <1>2. p = q
    BY <1>1
  <1>3. QED
    BY <1>2

\* Numbers with the same remainder are a multiple of S apart.
LEMMA AtLeastALoop ==
  ASSUME NEW S \in Nat \ {0}, NEW a \in Nat, NEW b \in Nat, a % S = b % S, a > b
  PROVE  a - b >= S
  <1>1. PICK p \in Nat, r \in 0..(S - 1) : a % S = r /\ a = S * p + r
    BY QuotientRemainder
  <1>2. PICK q \in Nat, s \in 0..(S - 1) : b % S = s /\ b = S * q + s
    BY QuotientRemainder
  <1>3. r = s
    BY <1>1, <1>2
  <1>4. ~(q > p) /\ p # q
    BY <1>1, <1>2, <1>3, Multiple
  <1>5. S * p >= S * q + S
    BY <1>4, Multiple
  <1>6. QED
    BY <1>1, <1>2, <1>3, <1>5

\* The remainder of a sum is that of the sum with the remainder.
LEMMA RemainderOfSum ==
  ASSUME NEW S \in Nat \ {0}, NEW a \in Nat, NEW k \in Nat
  PROVE  ((a % S) + k) % S = (a + k) % S
  <1>1. PICK q \in Nat, r \in 0..(S - 1) : a % S = r /\ a = S * q + r
    BY QuotientRemainder
  <1>2. PICK p \in Nat, s \in 0..(S - 1) : (r + k) % S = s /\ r + k = S * p + s
    BY QuotientRemainder
  <1>3. PICK u \in Nat, v \in 0..(S - 1) : (a + k) % S = v /\ a + k = S * u + v
    <2>1. a + k \in Nat
      OBVIOUS
    <2>2. QED
      BY <2>1, QuotientRemainder
  <1>4. S * (q + p) + s = S * u + v
    <2>1. S * q \in Nat /\ S * p \in Nat /\ S * (q + p) = S * q + S * p
      OBVIOUS
    <2>2. QED
      BY <1>1, <1>2, <1>3, <2>1
  <1>5. s = v
    BY <1>4, UniqueRemainder
  <1>6. QED
    BY <1>1, <1>2, <1>3, <1>5

LEMMA RemainderOfNumber ==
  ASSUME NEW S \in Nat \ {0}, NEW ty \in Nat, NEW i \in 0..(S - 1)
  PROVE  (ty * S + i) % S = i
  <1>1. PICK q \in Nat, r \in 0..(S - 1) :
          (ty * S + i) % S = r /\ ty * S + i = S * q + r
    <2>1. ty * S + i \in Nat
      OBVIOUS
    <2>2. QED
      BY <2>1, QuotientRemainder
  <1>2. S * ty + i = S * q + r
    <2>1. S * ty = ty * S
      OBVIOUS
    <2>2. QED
      BY <1>1, <2>1
  <1>3. QED
    BY <1>1, <1>2, UniqueRemainder

-----------------------------------------------------------------------------
(***************************************************************************)
(* The invariant.  Whoever holds a reference holds it under the number the *)
(* reference was given (Noted); the number is the index that was tried     *)
(* last when it was given (Counted); and what the table holds is at least  *)
(* a loop younger than whatever had its number before (Spaced).            *)
(***************************************************************************)
Counted ==
  /\ fNextIndex = tried % IndexSpace
  /\ \A e \in Object :
       fRefNum[e] # 0 => /\ born[e] \in 1..tried
                         /\ fRefNum[e] % IndexSpace = (born[e] - 1) % IndexSpace

Spaced ==
  \A n \in RefNum, e \in Object :
    fRefToEntry[n] # NULL /\ fRefToEntry[n] # e /\ fRefNum[e] = n
      => born[fRefToEntry[n]] - born[e] >= IndexSpace

ThreadNoted(t) ==
  /\ pc[t] = "idle" => meant[t] = NULL
  /\ meant[t] # NULL => ref[t] \in RefNum /\ fRefNum[meant[t]] = ref[t]

BlockNoted(b) == b.op = "remove" /\ b.of # NULL => fRefNum[b.of] = b.num

QueueNoted(q) == \A i \in 1..Len(q) : BlockNoted(q[i])

ListsNoted ==
  \A p \in Object, n \in RefNum :
    fSubRefs[p][n] # NULL => fRefNum[fSubRefs[p][n]] = n

Noted ==
  /\ \A t \in Threads : ThreadNoted(t)
  /\ QueueNoted(queue)
  /\ ListsNoted

LoopInv == MapsInv /\ Counted /\ Spaced /\ Noted

USE ThreadsAssumption, SizesAssumption DEF numbering

LEMMA LoopSuffices == LoopInv => ReusedAfterALoop
  <1> SUFFICES ASSUME LoopInv PROVE ReusedAfterALoop
    OBVIOUS
  <1>1. ASSUME NEW e \in Object, NEW n \in RefNum, fRefNum[e] = n
        PROVE  Looped(e, n)
    BY <1>1 DEF LoopInv, Spaced, Looped
  <1>2. ASSUME NEW t \in Threads, meant[t] # NULL
        PROVE  Looped(meant[t], ref[t])
    <2>1. meant[t] \in Object /\ ref[t] \in RefNum /\ fRefNum[meant[t]] = ref[t]
      BY <1>2 DEF LoopInv, Noted, ThreadNoted, MapsInv, Shape, TypeOK, RequestsOK,
         MaybeObject
    <2>2. QED
      BY <1>1, <2>1
  <1>3. ASSUME NEW i \in 1..Len(queue), queue[i].op = "remove", queue[i].of # NULL
        PROVE  Looped(queue[i].of, queue[i].num)
    <2>1. queue[i] \in Block
      BY DEF LoopInv, MapsInv, Shape, TypeOK, QueuesOK
    <2>2. queue[i].of \in Object /\ queue[i].num \in RefNum
      BY <1>3, <2>1 DEF Block, MaybeObject
    <2>3. fRefNum[queue[i].of] = queue[i].num
      BY <1>3 DEF LoopInv, Noted, QueueNoted, BlockNoted
    <2>4. QED
      BY <1>1, <2>2, <2>3
  <1>4. QED
    BY <1>2, <1>3 DEF ReusedAfterALoop

LEMMA InitLoop == Init => LoopInv
  <1> SUFFICES ASSUME Init PROVE LoopInv
    OBVIOUS
  <1>1. MapsInv
    BY InitMaps
  <1>2. Counted
    <2>1. 0 % IndexSpace = 0
      <3>1. PICK q \in Nat, x \in 0..(IndexSpace - 1) :
              0 % IndexSpace = x /\ 0 = IndexSpace * q + x
        BY QuotientRemainder
      <3>2. IndexSpace * 0 + 0 = IndexSpace * q + x
        BY <3>1
      <3>3. QED
        BY <3>1, <3>2, UniqueRemainder
    <2>2. QED
      BY <2>1 DEF Init, Counted
  <1>3. Spaced /\ Noted
    BY DEF Init, Spaced, Noted, ThreadNoted, QueueNoted, ListsNoted
  <1>4. QED
    BY <1>1, <1>2, <1>3 DEF LoopInv

LEMMA TailNoted ==
  ASSUME NEW q \in Seq(Block), q # <<>>, QueueNoted(q)
  PROVE  QueueNoted(Tail(q))
  <1>1. \A i \in 1..Len(Tail(q)) : i + 1 \in 1..Len(q) /\ Tail(q)[i] = q[i + 1]
    BY HeadTailProperties
  <1>2. QED
    BY <1>1 DEF QueueNoted

LEMMA AppendNoted ==
  ASSUME NEW q \in Seq(Block), NEW b \in Block, QueueNoted(q), BlockNoted(b)
  PROVE  QueueNoted(Append(q, b))
  <1> DEFINE r == Append(q, b)
  <1>1. /\ Len(q) \in Nat /\ Len(r) = Len(q) + 1
        /\ \A i \in 1..Len(q) : r[i] = q[i]
        /\ r[Len(q) + 1] = b
    BY AppendProperties
  <1> HIDE DEF r
  <1>2. ASSUME NEW i \in 1..Len(r)
        PROVE  BlockNoted(r[i])
    <2>1. CASE i = Len(q) + 1
      BY <1>1, <2>1
    <2>2. CASE i # Len(q) + 1
      <3>1. i \in 1..Len(q)
        BY <1>1, <2>2
      <3>2. QED
        BY <1>1, <3>1 DEF QueueNoted
    <2>3. QED
      BY <2>1, <2>2
  <1>3. QED
    BY <1>2 DEF QueueNoted, r

\* A step that gives no number: the table and the lists at most lose entries.
LEMMA KeepsNumbers ==
  ASSUME LoopInv, MapsInv', UNCHANGED <<numbering, fRefNum>>,
         \A n \in RefNum : fRefToEntry'[n] \in {fRefToEntry[n], NULL},
         \A p \in Object, n \in RefNum : fSubRefs'[p][n] \in {fSubRefs[p][n], NULL},
         QueueNoted(queue'),
         \A t \in Threads : ThreadNoted(t)'
  PROVE  LoopInv'
  <1>1. Counted'
    BY DEF LoopInv, Counted
  <1>2. Spaced'
    BY DEF LoopInv, Spaced
  <1>3. QueueNoted(queue)'
    BY DEF QueueNoted, BlockNoted
  <1>4. ListsNoted'
    BY DEF LoopInv, Noted, ListsNoted
  <1>5. QED
    BY <1>1, <1>2, <1>3, <1>4 DEF LoopInv, Noted

\* Removing an entry from a map of lists leaves the others as they are.
LEMMA WithoutRefShrinks ==
  ASSUME NEW lists \in [Object -> RefMap], NEW o \in Object, NEW n \in RefNum
  PROVE  \A p \in Object, m \in RefNum :
           WithoutRef(lists, o, n)[p][m] \in {lists[p][m], NULL}
  BY DEF WithoutRef, RefMap

LEMMA DestructorLoop ==
  ASSUME LoopInv, NEW a \in Agents, Destructor(a)
  PROVE  LoopInv'
  <1>1. MapsInv'
    BY DestructorMaps DEF LoopInv
  <1>2. UNCHANGED <<tables, fRefNum, request, pc>>
    BY DEF Destructor, ReleaseSubRef, FinishEntry, ClearChildRef, FreeClient, entries
  <1>3. \A t \in Threads : ThreadNoted(t)'
    BY <1>2 DEF LoopInv, Noted, ThreadNoted, request
  <1>4. /\ queue \in Seq(Block) /\ QueueNoted(queue)
        /\ fSubRefs \in [Object -> RefMap] /\ cSubRefs \in [Object -> RefMap]
    BY DEF LoopInv, Noted, MapsInv, Shape, TypeOK, QueuesOK, EntriesOK, ClientsOK
  <1>5. QueueNoted(queue')
    <2>1. ASSUME NEW n \in RefNum, NEW e \in Object, fRefNum[e] = n,
                 SubmitRemoval(n, e)
          PROVE  QueueNoted(queue')
      <3>1. RemoveBlock(n, e) \in Block /\ BlockNoted(RemoveBlock(n, e))
        BY <2>1 DEF RemoveBlock, Block, MaybeObject, BlockNoted
      <3>2. QED
        BY <1>4, <2>1, <3>1, AppendNoted DEF SubmitRemoval
    <2>2. CASE ReleaseSubRef(a)
      <3>1. PICK e \in Object, n \in RefNum :
              fSubRefs[e][n] # NULL /\ SubmitRemoval(n, fSubRefs[e][n])
        BY <2>2, FramesTyped DEF ReleaseSubRef, TopIs, IsLeast, Named, LoopInv, MapsInv
      <3>2. fSubRefs[e][n] \in Object /\ fRefNum[fSubRefs[e][n]] = n
        BY <1>4, <3>1 DEF RefMap, MaybeObject, LoopInv, Noted, ListsNoted
      <3>3. QED
        BY <2>1, <3>1, <3>2
    <2>3. CASE ClearChildRef(a)
      <3>1. PICK c \in Object, n \in RefNum :
              cSubRefs[c][n] # NULL /\ SubmitRemoval(n, cSubRefs[c][n])
        BY <2>3, FramesTyped DEF ClearChildRef, TopIs, IsLeast, Named, LoopInv, MapsInv
      <3>2. cSubRefs[c][n] \in Object /\ fRefNum[cSubRefs[c][n]] = n
        BY <1>4, <3>1 DEF RefMap, MaybeObject, LoopInv, MapsInv, MapsAgree
      <3>3. QED
        BY <2>1, <3>1, <3>2
    <2>4. CASE FinishEntry(a) \/ FreeClient(a)
      BY <1>4, <2>4 DEF FinishEntry, FreeClient
    <2>5. QED
      BY <2>2, <2>3, <2>4 DEF Destructor
  <1>6. \A p \in Object, n \in RefNum : fSubRefs'[p][n] \in {fSubRefs[p][n], NULL}
    <2>1. CASE ReleaseSubRef(a)
      <3>1. PICK e \in Object, n \in RefNum : fSubRefs' = WithoutRef(fSubRefs, e, n)
        BY <2>1, FramesTyped DEF ReleaseSubRef, TopIs, LoopInv, MapsInv
      <3>2. QED
        BY <1>4, <3>1, WithoutRefShrinks
    <2>2. CASE UNCHANGED fSubRefs
      BY <2>2
    <2>3. QED
      BY <2>1, <2>2 DEF Destructor, FinishEntry, ClearChildRef, FreeClient, entries
  <1>7. QED
    BY <1>1, <1>2, <1>3, <1>5, <1>6, KeepsNumbers DEF tables

LEMMA RequestLoop ==
  ASSUME LoopInv, NEW t \in Threads, NewRequest(t)
  PROVE  LoopInv'
  <1>1. MapsInv'
    BY BeginMaps DEF LoopInv
  <1>2. UNCHANGED <<tables, fRefNum, fSubRefs, meant>>
    BY DEF NewRequest, BeginOpenDir, BeginOpenChild, BeginClose, BeginUse,
           BeginClean, Drop, Begin, entries
  <1>3. queue \in Seq(Block) /\ QueueNoted(queue)
    BY DEF LoopInv, Noted, MapsInv, Shape, TypeOK, QueuesOK
  <1>4. CASE \E n \in Issued : Drop(t, n)
    <2>1. PICK n \in Issued : Drop(t, n)
      BY <1>4
    <2>2. n \in RefNum
      BY DEF Issued, LoopInv, MapsInv, Shape, TypeOK, EntriesOK
    <2>3. fRefToEntry[n] \in Object /\ fRefNum[fRefToEntry[n]] = n
      BY <2>1, <2>2 DEF Drop, LoopInv, MapsInv, MapsAgree, Shape, TypeOK, TablesOK,
         RefMap, MaybeObject
    <2>4. /\ RemoveBlock(n, fRefToEntry[n]) \in Block
          /\ BlockNoted(RemoveBlock(n, fRefToEntry[n]))
      BY <2>2, <2>3 DEF RemoveBlock, Block, MaybeObject, BlockNoted
    <2>5. QueueNoted(queue')
      BY <1>3, <2>1, <2>4, AppendNoted DEF Drop, SubmitRemoval
    <2>6. \A u \in Threads : ThreadNoted(u)'
      BY <1>2, <2>1 DEF Drop, LoopInv, Noted, ThreadNoted
    <2>7. QED
      BY <1>1, <1>2, <2>5, <2>6, KeepsNumbers DEF tables
  <1>5. ASSUME NEW o, NEW n, NEW ty, NEW next,
               Begin(t, o, n, ty, next), next # "idle"
        PROVE  LoopInv'
    <2>1. Begin(t, o, n, ty, next) /\ next # "idle"
      BY <1>5
    <2>2. SyncBlock(t) \in Block /\ BlockNoted(SyncBlock(t))
      BY DEF SyncBlock, Block, BlockNoted
    <2>3. QueueNoted(queue')
      BY <1>3, <2>1, <2>2, AppendNoted DEF Begin, Submit
    <2>4. \A u \in Threads : ThreadNoted(u)'
      <3>1. meant[t] = NULL
        BY <2>1 DEF Begin, LoopInv, Noted, ThreadNoted
      <3>2. pc'[t] # "idle" /\ \A u \in Threads \ {t} : pc'[u] = pc[u] /\ ref'[u] = ref[u]
        BY <2>1 DEF Begin, Submit, LoopInv, MapsInv, Shape, TypeOK, RequestsOK
      <3>3. QED
        BY <1>2, <3>1, <3>2 DEF LoopInv, Noted, ThreadNoted
    <2>5. QED
      BY <1>1, <1>2, <2>3, <2>4, KeepsNumbers DEF tables
  <1>6. CASE BeginOpenDir(t)
    <2>1. Begin(t, "create", 0, eRefTypeDir, "find_client")
      BY <1>6 DEF BeginOpenDir
    <2>2. QED
      BY <1>5, <2>1
  <1>7. CASE \E n \in Issued, ty \in RefType : BeginOpenChild(t, n, ty)
    <2>1. PICK n \in Issued, ty \in RefType : Begin(t, "create", n, ty, "verify")
      BY <1>7 DEF BeginOpenChild
    <2>2. QED
      BY <1>5, <2>1
  <1>8. CASE \E n \in Issued : BeginClose(t, n) \/ BeginUse(t, n)
    <2>1. PICK n \in Issued, o \in {"close", "use"} : Begin(t, o, n, 0, "verify")
      BY <1>8 DEF BeginClose, BeginUse
    <2>2. QED
      BY <1>5, <2>1
  <1>9. CASE BeginClean(t)
    <2>1. Begin(t, "clean", 0, 0, "clean")
      BY <1>9 DEF BeginClean
    <2>2. QED
      BY <1>5, <2>1
  <1>10. QED
    BY <1>4, <1>6, <1>7, <1>8, <1>9 DEF NewRequest

LEMMA ThreadStepLoop ==
  ASSUME LoopInv, NEW t \in Threads, ThreadStep(t)
  PROVE  LoopInv'
  <1>1. MapsInv'
    BY ThreadStepMaps DEF LoopInv
  <1>2. UNCHANGED <<tables, fRefNum, fSubRefs>>
    BY DEF ThreadStep, CheckFails, CheckForUse, CheckPasses, SubmitRemove,
           SubmitLookup, CheckRoom, SubmitCopyName, ReleaseLocalClient,
           ReleaseLocalEntry, ReleaseLocalParent, Return, entries
  <1>3. queue \in Seq(Block) /\ QueueNoted(queue)
    BY DEF LoopInv, Noted, MapsInv, Shape, TypeOK, QueuesOK
  <1>4. QueueNoted(queue')
    <2>1. CASE SubmitRemove(t)
      <3>1. SubmitRemoval(ref[t], meant[t]) /\ pc[t] = "verified"
        BY <2>1 DEF SubmitRemove
      <3>2. ref[t] \in RefNum /\ meant[t] \in MaybeObject
        BY <3>1 DEF LoopInv, MapsInv, Shape, TypeOK, RequestsOK, RequestOK
      <3>3. /\ RemoveBlock(ref[t], meant[t]) \in Block
            /\ BlockNoted(RemoveBlock(ref[t], meant[t]))
        BY <3>2 DEF RemoveBlock, Block, BlockNoted, LoopInv, Noted, ThreadNoted
      <3>4. QED
        BY <1>3, <3>1, <3>3, AppendNoted DEF SubmitRemoval
    <2>2. CASE queue' = Append(queue, SyncBlock(t))
      <3>1. SyncBlock(t) \in Block /\ BlockNoted(SyncBlock(t))
        BY DEF SyncBlock, Block, BlockNoted
      <3>2. QED
        BY <1>3, <2>2, <3>1, AppendNoted
    <2>3. CASE UNCHANGED queue
      BY <1>3, <2>3
    <2>4. QED
      BY <2>1, <2>2, <2>3 DEF ThreadStep, CheckFails, CheckForUse, CheckPasses,
         SubmitLookup, CheckRoom, SubmitCopyName, Submit, ReleaseLocalClient,
         ReleaseLocalEntry, ReleaseLocalParent, Return
  <1>5. \A u \in Threads : ThreadNoted(u)'
    <2>1. CASE Idle(t)
      BY <1>2, <2>1 DEF Idle, LoopInv, Noted, ThreadNoted, MapsInv, Shape, TypeOK,
         RequestsOK
    <2>2. CASE UNCHANGED request /\ \A u \in Threads : pc'[u] = "idle" => pc[u] = "idle"
      BY <1>2, <2>2 DEF request, LoopInv, Noted, ThreadNoted
    <2>3. QED
      BY <2>1, <2>2 DEF ThreadStep, CheckFails, CheckForUse, CheckPasses, SubmitRemove,
         SubmitLookup, CheckRoom, SubmitCopyName, Submit, ReleaseLocalClient,
         ReleaseLocalEntry, ReleaseLocalParent, Return, LoopInv, MapsInv, Shape,
         TypeOK, RequestsOK
  <1>6. QED
    BY <1>1, <1>2, <1>4, <1>5, KeepsNumbers DEF tables

LEMMA BlockTaken ==
  ASSUME LoopInv, queue # <<>>, queue' = Tail(queue)
  PROVE  QueueNoted(queue')
  BY TailNoted DEF LoopInv, Noted, MapsInv, Shape, TypeOK, QueuesOK

LEMMA RemoveLoop ==
  ASSUME LoopInv, RunRemove
  PROVE  LoopInv'
  <1> DEFINE n == Head(queue).num
             e == fRefToEntry[n]
             p == fRefToEntry[fParentID[e]]
  <1>1. MapsInv'
    BY RemoveMaps DEF LoopInv
  <1>2. n \in RefNum
    <2>1. Head(queue) \in Block /\ Head(queue).op = "remove"
      BY HeadTailProperties, Zenon DEF RunRemove, LoopInv, MapsInv, Shape, TypeOK, QueuesOK
    <2>2. QED
      BY <2>1 DEF Block
  <1>3. /\ fRefToEntry \in RefMap /\ fSubRefs \in [Object -> RefMap]
        /\ fParentID \in [Object -> RefNum \cup {0}]
    BY DEF LoopInv, MapsInv, Shape, TypeOK, TablesOK, EntriesOK
  <1>4. \A m \in RefNum : fRefToEntry'[m] \in {fRefToEntry[m], NULL}
    BY <1>3, Zenon DEF RunRemove, RefMap
  <1>5. \A q \in Object, m \in RefNum : fSubRefs'[q][m] \in {fSubRefs[q][m], NULL}
    <2>1. CASE UNCHANGED fSubRefs
      BY <2>1
    <2>2. CASE /\ e # NULL /\ fParentID[e] # 0 /\ p # NULL
               /\ fSubRefs' = WithoutRef(fSubRefs, p, n)
      <3>1. e \in Object
        BY <1>2, <1>3, <2>2 DEF RefMap, MaybeObject
      <3>2. p \in Object
        BY <1>3, <2>2, <3>1 DEF RefMap, MaybeObject
      <3>3. QED
        BY <1>2, <1>3, <2>2, <3>2, WithoutRefShrinks
    <2>3. QED
      BY <2>1, <2>2, Zenon DEF RunRemove
  <1>6. \A t \in Threads : ThreadNoted(t)'
    BY Zenon DEF RunRemove, request, LoopInv, Noted, ThreadNoted
  <1>7. QueueNoted(queue')
    BY BlockTaken, Zenon DEF RunRemove
  <1>8. UNCHANGED <<numbering, fRefNum>>
    BY Zenon DEF RunRemove
  <1>9. QED
    BY <1>1, <1>4, <1>5, <1>6, <1>7, <1>8, KeepsNumbers

\* The blocks that neither insert nor remove.
LEMMA OtherBlockLoop ==
  ASSUME LoopInv, MapsInv', NEW t \in Threads,
         \/ RunVerify(t) \/ RunLookup(t) \/ RunFindClient(t)
         \/ RunPlugin(t) \/ RunGetEntry(t) \/ RunClean(t) \/ FinishClean(t)
  PROVE  LoopInv'
  <1>1. UNCHANGED <<numbering, fRefToEntry, fRefNum, fSubRefs>>
    BY DEF RunVerify, RunLookup, RunFindClient, RunPlugin, RunGetEntry, RunClean,
           FinishClean, tables, entries
  <1>2. QueueNoted(queue')
    <2>1. CASE FinishClean(t)
      BY <2>1 DEF FinishClean, LoopInv, Noted
    <2>2. CASE queue # <<>> /\ queue' = Tail(queue)
      BY <2>2, BlockTaken
    <2>3. QED
      BY <2>1, <2>2 DEF RunVerify, RunLookup, RunFindClient, RunPlugin, RunGetEntry,
         RunClean, Runs
  <1>3. \A u \in Threads : ThreadNoted(u)'
    <2>1. CASE RunVerify(t)
      <3>1. /\ ref[t] \in RefNum /\ pc' = [pc EXCEPT ![t] = "check"]
            /\ meant' = [meant EXCEPT ![t] = fRefToEntry[ref[t]]]
            /\ UNCHANGED ref
        BY <2>1 DEF RunVerify, Runs, LoopInv, MapsInv, Shape, RequestOK
      <3>2. fRefToEntry[ref[t]] # NULL => fRefNum[fRefToEntry[ref[t]]] = ref[t]
        BY <3>1 DEF LoopInv, MapsInv, MapsAgree
      <3>3. QED
        BY <1>1, <3>1, <3>2 DEF LoopInv, Noted, ThreadNoted, MapsInv, Shape, TypeOK,
           RequestsOK
    <2>2. CASE Idle(t)
      BY <1>1, <2>2 DEF Idle, LoopInv, Noted, ThreadNoted, MapsInv, Shape, TypeOK,
         RequestsOK
    <2>3. CASE /\ UNCHANGED <<ref, meant>>
               /\ \A u \in Threads : pc'[u] = "idle" => pc[u] = "idle"
      BY <1>1, <2>3 DEF LoopInv, Noted, ThreadNoted
    <2>4. QED
      BY <2>1, <2>2, <2>3 DEF RunLookup, RunFindClient, RunPlugin, RunGetEntry,
         RunClean, FinishClean, request, LoopInv, MapsInv, Shape, TypeOK, RequestsOK
  <1>4. QED
    BY <1>1, <1>2, <1>3, KeepsNumbers

LEMMA InsertLoop ==
  ASSUME LoopInv, NEW t \in Threads, RunInsert(t)
  PROVE  LoopInv'
  <1> DEFINE e == entry[t]
  <1>1. MapsInv'
    BY InsertMaps DEF LoopInv
  <1>2. /\ fNextIndex \in 0..(IndexSpace - 1) /\ tried \in Nat
        /\ born \in [Object -> Nat] /\ fRefToEntry \in RefMap
        /\ fRefNum \in [Object -> RefNum \cup {0}] /\ fSubRefs \in [Object -> RefMap]
        /\ parent[t] \in MaybeObject /\ type[t] \in RefType
    BY DEF LoopInv, MapsInv, Shape, TypeOK, TablesOK, EntriesOK, LocalsOK, RequestOK,
       RunInsert, Runs
  <1>3. e \in Object /\ e # NULL /\ fRefNum[e] = 0
    <2>1. Pending(t)
      BY DEF RunInsert, Runs, Pending, LoopInv, MapsInv, Shape, RequestOK
    <2>2. QED
      BY <2>1 DEF LoopInv, MapsInv, NewEntries, Shape, TypeOK, RequestsOK, Object, NULL
  <1>4. PICK n \in RefNum, b \in Nat :
          /\ b > tried /\ tried' = b /\ born' = [born EXCEPT ![e] = b]
          /\ n % IndexSpace = (b - 1) % IndexSpace
          /\ fNextIndex' = b % IndexSpace
          /\ fRefNum' = [fRefNum EXCEPT ![e] = n]
          /\ fRefToEntry' = [fRefToEntry EXCEPT ![n] = e]
          /\ fSubRefs' = IF parent[t] # NULL THEN [fSubRefs EXCEPT ![parent[t]][n] = e]
                                             ELSE fSubRefs
    <2>1. PICK k \in 0..(IndexSpace - 1) :
            LET n == type[t] * IndexSpace + Probe(k)
            IN /\ fNextIndex' = AdvanceIndex(k)
               /\ tried' = tried + k + 1
               /\ born' = [born EXCEPT ![e] = tried + k + 1]
               /\ fRefNum' = [fRefNum EXCEPT ![e] = n]
               /\ fRefToEntry' = [fRefToEntry EXCEPT ![n] = e]
               /\ fSubRefs' = IF parent[t] # NULL
                                THEN [fSubRefs EXCEPT ![parent[t]][n] = e]
                                ELSE fSubRefs
      BY DEF RunInsert
    <2> DEFINE n == type[t] * IndexSpace + Probe(k)
               b == tried + k + 1
    <2>2. Probe(k) \in 0..(IndexSpace - 1)
      BY <1>2, ProbeFacts
    <2>3. n \in RefNum
      BY <1>2, <2>2, RefNumFacts
    <2>4. b \in Nat /\ b > tried
      BY <1>2
    <2>5. fNextIndex = tried % IndexSpace
      BY DEF LoopInv, Counted
    <2>6. n % IndexSpace = (b - 1) % IndexSpace
      <3>1. type[t] \in Nat
        <4>1. RefType \subseteq Nat
          BY SizesAssumption DEF RefType, eRefTypeDir, eRefTypeDirNode
        <4>2. QED
          BY <1>2, <4>1
      <3>2. n % IndexSpace = Probe(k)
        BY <2>2, <3>1, RemainderOfNumber
      <3>3. Probe(k) = (tried + k) % IndexSpace
        <4>1. k \in Nat
          OBVIOUS
        <4>2. ((tried % IndexSpace) + k) % IndexSpace = (tried + k) % IndexSpace
          BY <1>2, <4>1, RemainderOfSum
        <4>3. QED
          BY <2>5, <4>2 DEF Probe
      <3>4. b - 1 = tried + k
        BY <1>2
      <3>5. QED
        BY <3>2, <3>3, <3>4
    <2>7. AdvanceIndex(k) = b % IndexSpace
      <3>1. /\ k + 1 \in Nat /\ fNextIndex + k + 1 = fNextIndex + (k + 1)
            /\ b = tried + (k + 1)
        BY <1>2
      <3>2. ((tried % IndexSpace) + (k + 1)) % IndexSpace = (tried + (k + 1)) % IndexSpace
        BY <1>2, <3>1, RemainderOfSum
      <3>3. QED
        BY <2>5, <3>1, <3>2 DEF AdvanceIndex
    <2> HIDE DEF n, b
    <2>8. QED
      BY <2>1, <2>3, <2>4, <2>6, <2>7 DEF n, b
  <1>5. /\ \A x \in Object \ {e} : born'[x] = born[x] /\ fRefNum'[x] = fRefNum[x]
        /\ born'[e] = b /\ fRefNum'[e] = n
    BY <1>2, <1>3, <1>4
  <1>6. Counted'
    BY <1>2, <1>4, <1>5 DEF LoopInv, Counted
  <1>7. Spaced'
    <2>1. ASSUME NEW m \in RefNum, NEW x \in Object, fRefToEntry'[m] # NULL,
                 fRefToEntry'[m] # x, fRefNum'[x] = m
          PROVE  born'[fRefToEntry'[m]] - born'[x] >= IndexSpace
      <3>1. CASE m = n
        <4>1. fRefToEntry'[m] = e /\ x # e
          BY <1>2, <1>4, <2>1, <3>1 DEF RefMap
        <4>2. fRefNum[x] = n /\ n # 0 /\ born'[x] = born[x]
          BY <1>5, <2>1, <3>1, <4>1, RefNumFacts
        <4>3. born[x] \in 1..tried /\ n % IndexSpace = (born[x] - 1) % IndexSpace
          BY <4>2 DEF LoopInv, Counted
        <4>4. (b - 1) - (born[x] - 1) >= IndexSpace
          <5>1. b - 1 \in Nat /\ born[x] - 1 \in Nat /\ b - 1 > born[x] - 1
            BY <1>2, <1>4, <4>3
          <5>2. (b - 1) % IndexSpace = (born[x] - 1) % IndexSpace
            BY <1>4, <4>3
          <5>3. QED
            BY <5>1, <5>2, AtLeastALoop
        <4>5. QED
          BY <1>2, <1>5, <4>1, <4>2, <4>3, <4>4
      <3>2. CASE m # n
        <4>1. fRefToEntry'[m] = fRefToEntry[m] /\ fRefToEntry[m] \in Object
          BY <1>2, <1>4, <2>1, <3>2 DEF RefMap, MaybeObject
        <4>2. x # e /\ fRefNum[x] = m
          BY <1>5, <2>1, <3>2
        <4>3. fRefToEntry[m] # e
          <5>1. fRefNum[fRefToEntry[m]] = m /\ m # 0
            BY <2>1, <4>1, RefNumFacts DEF LoopInv, MapsInv, MapsAgree
          <5>2. QED
            BY <1>3, <5>1
        <4>4. QED
          BY <1>5, <2>1, <4>1, <4>2, <4>3 DEF LoopInv, Spaced
      <3>3. QED
        BY <3>1, <3>2
    <2>2. QED
      BY <2>1 DEF Spaced
  <1>8. \A x \in Object, m \in RefNum : fRefNum[x] = m => fRefNum'[x] = m
    BY <1>3, <1>5, RefNumFacts
  <1>9. Noted'
    <2>1. \A u \in Threads : ThreadNoted(u)'
      <3>1. UNCHANGED <<ref, meant>> /\ \A u \in Threads : pc'[u] = "idle" => pc[u] = "idle"
        BY DEF RunInsert, request, LoopInv, MapsInv, Shape, TypeOK, RequestsOK
      <3>2. meant \in [Threads -> MaybeObject]
        BY DEF LoopInv, MapsInv, Shape, TypeOK, RequestsOK
      <3>3. QED
        BY <1>8, <3>1, <3>2 DEF MaybeObject, LoopInv, Noted, ThreadNoted
    <2>2. QueueNoted(queue)'
      <3>1. QueueNoted(queue') /\ queue' \in Seq(Block)
        <4>1. queue # <<>> /\ queue' = Tail(queue) /\ queue \in Seq(Block)
          BY DEF RunInsert, Runs, LoopInv, MapsInv, Shape, TypeOK, QueuesOK
        <4>2. QED
          BY <4>1, BlockTaken, HeadTailProperties
      <3>2. ASSUME NEW i \in 1..Len(queue'), queue'[i].op = "remove", queue'[i].of # NULL
            PROVE  fRefNum'[queue'[i].of] = queue'[i].num
        <4>1. queue'[i] \in Block /\ fRefNum[queue'[i].of] = queue'[i].num
          BY <3>1, <3>2 DEF QueueNoted, BlockNoted
        <4>2. queue'[i].of \in Object /\ queue'[i].num \in RefNum
          BY <3>2, <4>1 DEF Block, MaybeObject
        <4>3. QED
          BY <1>8, <4>1, <4>2
      <3>3. QED
        BY <3>2 DEF QueueNoted, BlockNoted
    <2>3. ListsNoted'
      <3>1. ASSUME NEW p \in Object, NEW m \in RefNum, fSubRefs'[p][m] # NULL
            PROVE  fRefNum'[fSubRefs'[p][m]] = m
        <4>1. CASE fSubRefs'[p][m] = fSubRefs[p][m]
          <5>1. fSubRefs[p][m] \in Object
            BY <1>2, <3>1, <4>1 DEF RefMap, MaybeObject
          <5>2. QED
            BY <1>8, <3>1, <4>1, <5>1 DEF LoopInv, Noted, ListsNoted
        <4>2. CASE m = n /\ fSubRefs'[p][m] = e
          BY <1>5, <4>2
        <4>3. QED
          BY <1>2, <1>4, <4>1, <4>2 DEF RefMap, MaybeObject
      <3>2. QED
        BY <3>1 DEF ListsNoted
    <2>4. QED
      BY <2>1, <2>2, <2>3 DEF Noted
  <1>10. QED
    BY <1>1, <1>6, <1>7, <1>9 DEF LoopInv

LEMMA NextLoop == LoopInv /\ [Next]_vars => LoopInv'
  <1> SUFFICES ASSUME LoopInv, [Next]_vars PROVE LoopInv'
    OBVIOUS
  <1>1. MapsInv'
    BY NextMaps DEF LoopInv
  <1>2. CASE RunBlock
    BY <1>1, <1>2, RemoveLoop, InsertLoop, OtherBlockLoop DEF RunBlock
  <1>3. CASE RunDealloc \/ Rest \/ UNCHANGED vars
    <2>1. UNCHANGED <<tables, fRefNum, fSubRefs, queue, request, pc>>
      BY <1>3 DEF RunDealloc, Rest, vars, entries
    <2>2. QueueNoted(queue')
      BY <2>1 DEF LoopInv, Noted
    <2>3. \A t \in Threads : ThreadNoted(t)'
      BY <2>1 DEF request, LoopInv, Noted, ThreadNoted
    <2>4. QED
      BY <1>1, <2>1, <2>2, <2>3, KeepsNumbers DEF tables
  <1>4. QED
    BY <1>2, <1>3, RequestLoop, ThreadStepLoop, DestructorLoop DEF Next

\* A number that a thread has verified, or that a removal in the queue names,
\* is another entry's only once every index has been tried since: what
\* CRefTable.h promises, for any size of the index space, and with it the
\* reason why a second removal of a reference finds nothing in practice.
THEOREM ReuseCorrect == Spec => []ReusedAfterALoop
  <1>1. Spec => []LoopInv
    BY InitLoop, NextLoop, PTL DEF Spec
  <1>2. QED
    BY <1>1, LoopSuffices, PTL

-----------------------------------------------------------------------------
(***************************************************************************)
(* Counting.  A step changes each map of pointers at one place at most.    *)
(***************************************************************************)
One(x, e) == IF x = e THEN 1 ELSE 0

\* A counter of the pointers to e goes from k to l when one pointer, to x or to
\* nothing, is replaced by one to y.
Shift(k, l, x, y, e) == l = k - One(x, e) + One(y, e)

LEMMA OneOrNone == \A x, e : One(x, e) \in 0..1
  BY DEF One

Within(s, F) == IF s \in F THEN 1 ELSE 0

LEMMA CountAfterUpdate ==
  ASSUME NEW S, IsFiniteSet(S), NEW F \in SUBSET S, NEW G \in SUBSET S, NEW s,
         F \ {s} = G \ {s}
  PROVE  Cardinality(G) = Cardinality(F) - Within(s, F) + Within(s, G)
  <1>1. IsFiniteSet(F) /\ IsFiniteSet(G) /\ Cardinality(F) \in Nat /\ Cardinality(G) \in Nat
    BY FS_Subset, FS_CardinalityType
  <1>2. /\ Cardinality(F \ {s}) = IF s \in F THEN Cardinality(F) - 1 ELSE Cardinality(F)
        /\ Cardinality(G \ {s}) = IF s \in G THEN Cardinality(G) - 1 ELSE Cardinality(G)
    BY <1>1, FS_RemoveElement
  <1>3. /\ Cardinality(F \ {s}) = Cardinality(F) - Within(s, F)
        /\ Cardinality(G \ {s}) = Cardinality(G) - Within(s, G)
    BY <1>1, <1>2 DEF Within
  <1>4. Cardinality(F) - Within(s, F) = Cardinality(G) - Within(s, G)
    BY <1>3
  <1>5. Within(s, F) \in 0..1 /\ Within(s, G) \in 0..1
    BY DEF Within
  <1>6. QED
    BY <1>1, <1>4, <1>5

LEMMA ObjectFinite == IsFiniteSet(Object)
  <1>1. 1 \in Int /\ MaxCalls \in Int
    OBVIOUS
  <1>2. QED
    BY <1>1, FS_Interval DEF Object

\* There are finitely many numbers.
LEMMA RefNumFinite == IsFiniteSet(RefNum)
  <1> DEFINE I == 0..(IndexSpace - 1)
             T == 1..5
             f == [x \in T \X I |-> x[1] * IndexSpace + x[2]]
             A == {f[x] : x \in T \X I}
  <1>1. IsFiniteSet(I) /\ IsFiniteSet(T)
    <2>1. 0 \in Int /\ IndexSpace - 1 \in Int /\ 1 \in Int /\ 5 \in Int
      OBVIOUS
    <2>2. QED
      BY <2>1, FS_Interval
  <1>2. IsFiniteSet(T \X I)
    BY <1>1, FS_Product
  <1>3. f \in Surjection(T \X I, A)
    BY DEF Surjection
  <1>4. IsFiniteSet(A)
    BY <1>2, <1>3, FS_Surjection
  <1>5. RefNum \subseteq A
    <2>1. SUFFICES ASSUME NEW n \in RefNum PROVE n \in A
      OBVIOUS
    <2>2. PICK ty \in RefType, i \in I : n = ty * IndexSpace + i
      BY DEF RefNum
    <2>3. ty \in T
      BY DEF RefType, eRefTypeDir, eRefTypeDirNode
    <2>4. <<ty, i>> \in T \X I /\ f[<<ty, i>>] = n
      BY <2>2, <2>3
    <2>5. QED
      BY <2>4
  <1>6. QED
    BY <1>4, <1>5, FS_Subset

LEMMA PairsFinite == IsFiniteSet(Object \X RefNum)
  BY ObjectFinite, RefNumFinite, FS_Product

\* Where a map, and where the lists of all the objects together, have e.
Places(f, S, e) == {x \in S : f[x] = e}
Slots(lists, e) == {x \in Object \X RefNum : lists[x[1]][x[2]] = e}

\* How the number of pointers to e in a map changes when its value at s does.
LEMMA MapCount ==
  ASSUME NEW S, IsFiniteSet(S), NEW f, NEW g, NEW s \in S, NEW e,
         \A x \in S \ {s} : g[x] = f[x]
  PROVE  Shift(Cardinality(Places(f, S, e)), Cardinality(Places(g, S, e)),
               f[s], g[s], e)
  <1> DEFINE F == Places(f, S, e)
             G == Places(g, S, e)
  <1>1. /\ F \in SUBSET S /\ G \in SUBSET S /\ F \ {s} = G \ {s}
        /\ s \in F <=> f[s] = e
        /\ s \in G <=> g[s] = e
    BY DEF Places
  <1> HIDE DEF F, G
  <1>2. Cardinality(G) = Cardinality(F) - Within(s, F) + Within(s, G)
    BY <1>1, CountAfterUpdate
  <1>3. Within(s, F) = One(f[s], e) /\ Within(s, G) = One(g[s], e)
    BY <1>1 DEF Within, One
  <1>4. QED
    BY <1>2, <1>3 DEF F, G, Shift

\* The same for the lists of references of all the objects together.
LEMMA ListCount ==
  ASSUME NEW lists, NEW after, NEW o \in Object, NEW n \in RefNum, NEW e,
         \A p \in Object, m \in RefNum : ~(p = o /\ m = n) => after[p][m] = lists[p][m]
  PROVE  Shift(Cardinality(Slots(lists, e)), Cardinality(Slots(after, e)),
               lists[o][n], after[o][n], e)
  <1> DEFINE S == Object \X RefNum
             F == Slots(lists, e)
             G == Slots(after, e)
             s == <<o, n>>
             x == lists[o][n]
             y == after[o][n]
  <1>1. s \in S /\ s[1] = o /\ s[2] = n
    OBVIOUS
  <1>2. \A w \in S : w # s => after[w[1]][w[2]] = lists[w[1]][w[2]]
    <2>1. TAKE w \in S
    <2>2. w[1] \in Object /\ w[2] \in RefNum /\ w = <<w[1], w[2]>>
      OBVIOUS
    <2>3. QED
      BY <2>2
  <1> HIDE DEF s
  <1>3. /\ F \in SUBSET S /\ G \in SUBSET S /\ F \ {s} = G \ {s}
        /\ s \in F <=> x = e
        /\ s \in G <=> y = e
    BY <1>1, <1>2 DEF Slots
  <1>4. IsFiniteSet(S)
    BY PairsFinite
  <1> HIDE DEF F, G, S, x, y, Shift
  <1>5. Cardinality(G) = Cardinality(F) - Within(s, F) + Within(s, G)
    BY <1>3, <1>4, CountAfterUpdate
  <1>6. Within(s, F) = One(x, e) /\ Within(s, G) = One(y, e)
    BY <1>3 DEF Within, One
  <1>7. QED
    BY <1>5, <1>6 DEF F, G, S, x, y, Shift

-----------------------------------------------------------------------------
(***************************************************************************)
(* The counters of the pointers to an entry and to a client.               *)
(***************************************************************************)
\* The entry a thread has retained for itself.
InHandOf(t) == IF pc[t] = "release" THEN entry[t] ELSE NULL

Finite == IsFiniteSet(Threads) /\ IsFiniteSet(Ports)

LEMMA SubsetCount ==
  ASSUME NEW S, IsFiniteSet(S), NEW F \in SUBSET S
  PROVE  Cardinality(F) \in Nat /\ (Cardinality(F) = 0 <=> F = {})
  BY FS_Subset, FS_CardinalityType, FS_EmptySet

\* Every counter is a number, and not zero when there is a pointer.
LEMMA EntryCounters ==
  ASSUME Finite, NEW e \in Object
  PROVE  /\ InTable(e) \in Nat /\ InClients(e) \in Nat /\ InParents(e) \in Nat
         /\ InHand(e) \in Nat /\ AsParent(e) \in Nat
         /\ \A n \in RefNum : fRefToEntry[n] = e => InTable(e) # 0
         /\ \A o \in Object, n \in RefNum : cSubRefs[o][n] = e => InClients(e) # 0
         /\ \A o \in Object, n \in RefNum : fSubRefs[o][n] = e => InParents(e) # 0
         /\ \A t \in Threads : pc[t] = "release" /\ entry[t] = e => InHand(e) # 0
         /\ \A t \in Threads : parent[t] = e => AsParent(e) # 0
  <1>1. InTable(e) \in Nat /\ \A n \in RefNum : fRefToEntry[n] = e => InTable(e) # 0
    <2> DEFINE F == {n \in RefNum : fRefToEntry[n] = e}
    <2>1. Cardinality(F) \in Nat /\ (Cardinality(F) = 0 <=> F = {})
      BY RefNumFinite, SubsetCount
    <2>2. QED
      BY <2>1 DEF InTable
  <1>2. InClients(e) \in Nat /\ \A o \in Object, n \in RefNum : cSubRefs[o][n] = e => InClients(e) # 0
    <2> DEFINE F == {x \in Object \X RefNum : cSubRefs[x[1]][x[2]] = e}
    <2>1. Cardinality(F) \in Nat /\ (Cardinality(F) = 0 <=> F = {})
      BY PairsFinite, SubsetCount
    <2>2. \A o \in Object, n \in RefNum : cSubRefs[o][n] = e => <<o, n>> \in F
      OBVIOUS
    <2> HIDE DEF F
    <2>3. Cardinality(F) \in Nat /\ \A o \in Object, n \in RefNum : cSubRefs[o][n] = e => Cardinality(F) # 0
      BY <2>1, <2>2
    <2>4. QED
      BY <2>3 DEF InClients, F
  <1>3. InParents(e) \in Nat /\ \A o \in Object, n \in RefNum : fSubRefs[o][n] = e => InParents(e) # 0
    <2> DEFINE F == {x \in Object \X RefNum : fSubRefs[x[1]][x[2]] = e}
    <2>1. Cardinality(F) \in Nat /\ (Cardinality(F) = 0 <=> F = {})
      BY PairsFinite, SubsetCount
    <2>2. \A o \in Object, n \in RefNum : fSubRefs[o][n] = e => <<o, n>> \in F
      OBVIOUS
    <2> HIDE DEF F
    <2>3. Cardinality(F) \in Nat /\ \A o \in Object, n \in RefNum : fSubRefs[o][n] = e => Cardinality(F) # 0
      BY <2>1, <2>2
    <2>4. QED
      BY <2>3 DEF InParents, F
  <1>4. InHand(e) \in Nat /\ \A t \in Threads : pc[t] = "release" /\ entry[t] = e => InHand(e) # 0
    <2> DEFINE F == {t \in Threads : pc[t] = "release" /\ entry[t] = e}
    <2>1. Cardinality(F) \in Nat /\ (Cardinality(F) = 0 <=> F = {})
      BY SubsetCount DEF Finite
    <2>2. QED
      BY <2>1 DEF InHand
  <1>5. AsParent(e) \in Nat /\ \A t \in Threads : parent[t] = e => AsParent(e) # 0
    <2> DEFINE F == {t \in Threads : parent[t] = e}
    <2>1. Cardinality(F) \in Nat /\ (Cardinality(F) = 0 <=> F = {})
      BY SubsetCount DEF Finite
    <2>2. QED
      BY <2>1 DEF AsParent
  <1>6. QED
    BY <1>1, <1>2, <1>3, <1>4, <1>5

LEMMA ClientCounters ==
  ASSUME Finite, NEW c \in Object
  PROVE  /\ OfNumbers(c) \in Nat /\ OfPorts(c) \in Nat /\ OfThreads(c) \in Nat
         /\ \A n \in RefNum : fRefToClientEntry[n] = c => OfNumbers(c) # 0
         /\ \A p \in Ports : fPortToClientEntry[p] = c => OfPorts(c) # 0
         /\ \A t \in Threads : client[t] = c => OfThreads(c) # 0
  <1>1. OfNumbers(c) \in Nat /\ \A n \in RefNum : fRefToClientEntry[n] = c => OfNumbers(c) # 0
    <2> DEFINE F == {n \in RefNum : fRefToClientEntry[n] = c}
    <2>1. Cardinality(F) \in Nat /\ (Cardinality(F) = 0 <=> F = {})
      BY RefNumFinite, SubsetCount
    <2>2. QED
      BY <2>1 DEF OfNumbers
  <1>2. OfPorts(c) \in Nat /\ \A p \in Ports : fPortToClientEntry[p] = c => OfPorts(c) # 0
    <2> DEFINE F == {p \in Ports : fPortToClientEntry[p] = c}
    <2>1. Cardinality(F) \in Nat /\ (Cardinality(F) = 0 <=> F = {})
      BY SubsetCount DEF Finite
    <2>2. QED
      BY <2>1 DEF OfPorts
  <1>3. OfThreads(c) \in Nat /\ \A t \in Threads : client[t] = c => OfThreads(c) # 0
    <2> DEFINE F == {t \in Threads : client[t] = c}
    <2>1. Cardinality(F) \in Nat /\ (Cardinality(F) = 0 <=> F = {})
      BY SubsetCount DEF Finite
    <2>2. QED
      BY <2>1 DEF OfThreads
  <1>4. QED
    BY <1>1, <1>2, <1>3

\* The change of each counter when its map changes at one place.
LEMMA TableStep ==
  ASSUME NEW n \in RefNum, NEW e \in Object,
         \A m \in RefNum \ {n} : fRefToEntry'[m] = fRefToEntry[m]
  PROVE  Shift(InTable(e), InTable(e)', fRefToEntry[n], fRefToEntry'[n], e)
  <1>1. Shift(Cardinality(Places(fRefToEntry, RefNum, e)), Cardinality(Places(fRefToEntry', RefNum, e)),
             fRefToEntry[n], fRefToEntry'[n], e)
    BY RefNumFinite, MapCount
  <1>2. QED
    BY <1>1 DEF InTable, Places

LEMMA ClientListStep ==
  ASSUME NEW o \in Object, NEW n \in RefNum, NEW e \in Object,
         \A p \in Object, m \in RefNum : ~(p = o /\ m = n) => cSubRefs'[p][m] = cSubRefs[p][m]
  PROVE  Shift(InClients(e), InClients(e)', cSubRefs[o][n], cSubRefs'[o][n], e)
  <1>1. Shift(Cardinality(Slots(cSubRefs, e)), Cardinality(Slots(cSubRefs', e)),
             cSubRefs[o][n], cSubRefs'[o][n], e)
    BY ListCount
  <1>2. QED
    BY <1>1 DEF InClients, Slots

LEMMA ParentListStep ==
  ASSUME NEW o \in Object, NEW n \in RefNum, NEW e \in Object,
         \A p \in Object, m \in RefNum : ~(p = o /\ m = n) => fSubRefs'[p][m] = fSubRefs[p][m]
  PROVE  Shift(InParents(e), InParents(e)', fSubRefs[o][n], fSubRefs'[o][n], e)
  <1>1. Shift(Cardinality(Slots(fSubRefs, e)), Cardinality(Slots(fSubRefs', e)),
             fSubRefs[o][n], fSubRefs'[o][n], e)
    BY ListCount
  <1>2. QED
    BY <1>1 DEF InParents, Slots

LEMMA HandStep ==
  ASSUME Finite, NEW t \in Threads, NEW e \in Object,
         \A u \in Threads \ {t} : InHandOf(u)' = InHandOf(u)
  PROVE  Shift(InHand(e), InHand(e)', InHandOf(t), InHandOf(t)', e)
  <1> DEFINE f == [u \in Threads |-> InHandOf(u)]
             g == [u \in Threads |-> InHandOf(u)']
  <1>1. /\ f[t] = InHandOf(t) /\ g[t] = InHandOf(t)'
        /\ \A u \in Threads \ {t} : g[u] = f[u]
    OBVIOUS
  <1>2. e # NULL
    BY DEF Object, NULL
  <1>3. /\ {u \in Threads : pc[u] = "release" /\ entry[u] = e} = Places(f, Threads, e)
        /\ {u \in Threads : pc'[u] = "release" /\ entry'[u] = e} = Places(g, Threads, e)
    BY <1>2 DEF InHandOf, Places
  <1> HIDE DEF f, g
  <1>4. Shift(Cardinality(Places(f, Threads, e)), Cardinality(Places(g, Threads, e)),
             f[t], g[t], e)
    BY <1>1, MapCount DEF Finite
  <1>5. QED
    BY <1>1, <1>3, <1>4 DEF InHand

LEMMA AsParentStep ==
  ASSUME Finite, NEW t \in Threads, NEW e \in Object,
         \A u \in Threads \ {t} : parent'[u] = parent[u]
  PROVE  Shift(AsParent(e), AsParent(e)', parent[t], parent'[t], e)
  <1>1. Shift(Cardinality(Places(parent, Threads, e)), Cardinality(Places(parent', Threads, e)),
             parent[t], parent'[t], e)
    BY MapCount DEF Finite
  <1>2. QED
    BY <1>1 DEF AsParent, Places

LEMMA NumbersStep ==
  ASSUME NEW n \in RefNum, NEW c \in Object,
         \A m \in RefNum \ {n} : fRefToClientEntry'[m] = fRefToClientEntry[m]
  PROVE  Shift(OfNumbers(c), OfNumbers(c)', fRefToClientEntry[n], fRefToClientEntry'[n], c)
  <1>1. Shift(Cardinality(Places(fRefToClientEntry, RefNum, c)), Cardinality(Places(fRefToClientEntry', RefNum, c)),
             fRefToClientEntry[n], fRefToClientEntry'[n], c)
    BY RefNumFinite, MapCount
  <1>2. QED
    BY <1>1 DEF OfNumbers, Places

LEMMA PortsStep ==
  ASSUME Finite, NEW p \in Ports, NEW c \in Object,
         \A q \in Ports \ {p} : fPortToClientEntry'[q] = fPortToClientEntry[q]
  PROVE  Shift(OfPorts(c), OfPorts(c)', fPortToClientEntry[p], fPortToClientEntry'[p], c)
  <1>1. Shift(Cardinality(Places(fPortToClientEntry, Ports, c)), Cardinality(Places(fPortToClientEntry', Ports, c)),
             fPortToClientEntry[p], fPortToClientEntry'[p], c)
    BY MapCount DEF Finite
  <1>2. QED
    BY <1>1 DEF OfPorts, Places

LEMMA ThreadsStep ==
  ASSUME Finite, NEW t \in Threads, NEW c \in Object,
         \A u \in Threads \ {t} : client'[u] = client[u]
  PROVE  Shift(OfThreads(c), OfThreads(c)', client[t], client'[t], c)
  <1>1. Shift(Cardinality(Places(client, Threads, c)), Cardinality(Places(client', Threads, c)),
             client[t], client'[t], c)
    BY MapCount DEF Finite
  <1>2. QED
    BY <1>1 DEF OfThreads, Places

-----------------------------------------------------------------------------
(***************************************************************************)
(* The invariant.                                                          *)
(***************************************************************************)
\* An object that is not made has no number, no children and, with the counts,
\* no pointer to it.
Made ==
  \A e \in Object :
    /\ fRefNum[e] = 0 <=> status[e] = "unmade"
    /\ fRefNum[e] = 0 => \A n \in RefNum : fSubRefs[e][n] = NULL

\* Only entries whose destructor has begun are in its loop or in the cleanup queue.
Gone == {"dying", "freed", "closed"}
Elems(s) == {s[i] : i \in 1..Len(s)}
DeadFrames(s) == \A f \in Elems(s) : f.kind = "entry" => status[f.obj] \in Gone
Dead ==
  /\ \A a \in Agents : DeadFrames(stack[a])
  /\ \A e \in Elems(cleanup) : status[e] \in Gone

\* What a thread points to at each point of its request.
HoldsClient == {"check", "plugin", "copy_name", "room", "insert", "cleaning", "release"}
HoldsParent == {"room", "insert", "release"}
HoldsNoEntry == {"idle", "clean", "cleaning", "plugin", "copy_name", "get_entry"}
LocalsOf(t) ==
  /\ client[t] # NULL => pc[t] \in HoldsClient
  /\ parent[t] # NULL => pc[t] \in HoldsParent /\ fRefNum[parent[t]] = ref[t]
  /\ pc[t] \in HoldsNoEntry => entry[t] = NULL
  /\ entry[t] # NULL => op[t] = "create" \/ pc[t] = "release"
  /\ pc[t] = "find_client" => entry[t] \in Object /\ cStatus[entry[t]] = "unmade"
Locals ==
  /\ \A t \in Threads : LocalsOf(t)
  /\ \A c \in Object : c > calls => cStatus[c] = "unmade"

\* A parent in the table lists only children that are in the table under it.
ParentsAgree ==
  \A p \in Object, n \in RefNum :
    /\ fRefNum[p] \in RefNum
    /\ fRefToEntry[fRefNum[p]] = p
    /\ fSubRefs[p][n] # NULL
    => fRefToEntry[n] = fSubRefs[p][n] /\ fParentID[fSubRefs[p][n]] = fRefNum[p]

\* No count is too low, and an object is live as long as it is counted.
EntryCounts ==
  \A e \in Object :
    retain[e] >= Pointers(e) /\ (status[e] = "live" <=> retain[e] >= 1)
ClientCounts ==
  \A c \in Object :
    cRetain[c] = ClientPointers(c) /\ (cStatus[c] = "live" <=> cRetain[c] >= 1)
Exact == \A e \in Object : retain[e] = Pointers(e)

HoldInv ==
  LoopInv /\ Made /\ Dead /\ Locals /\ ParentsAgree /\ EntryCounts /\ ClientCounts

-----------------------------------------------------------------------------
LEMMA PointersTyped ==
  ASSUME Finite, NEW e \in Object
  PROVE  Pointers(e) \in Nat
  BY EntryCounters DEF Pointers

LEMMA SomePositive ==
  ASSUME NEW a \in Nat, NEW b \in Nat, NEW c \in Nat, NEW d \in Nat, NEW f \in Nat,
         a # 0 \/ b # 0 \/ c # 0 \/ d # 0 \/ f # 0
  PROVE  a + b + c + d + f \in Nat /\ a + b + c + d + f >= 1
  OBVIOUS

LEMMA PointersTypedAfter ==
  ASSUME Finite, NEW e \in Object
  PROVE  Pointers(e)' \in Nat
  <1>1. IsFiniteSet(Threads) /\ IsFiniteSet(RefNum) /\ IsFiniteSet(Object \X RefNum)
    BY RefNumFinite, PairsFinite DEF Finite
  <1>2. InTable(e)' \in Nat
    BY <1>1, SubsetCount DEF InTable
  <1>3. InClients(e)' \in Nat
    BY <1>1, SubsetCount DEF InClients
  <1>4. InParents(e)' \in Nat
    BY <1>1, SubsetCount DEF InParents
  <1>5. InHand(e)' \in Nat
    BY <1>1, SubsetCount DEF InHand
  <1>6. AsParent(e)' \in Nat
    BY <1>1, SubsetCount DEF AsParent
  <1>7. QED
    BY <1>2, <1>3, <1>4, <1>5, <1>6 DEF Pointers

LEMMA ClientPointersTyped ==
  ASSUME Finite, NEW c \in Object
  PROVE  ClientPointers(c) \in Nat
  BY ClientCounters DEF ClientPointers

\* Where there is a pointer to an entry, the entry is live.
LEMMA PointedIsLive ==
  ASSUME Finite, Shape, EntryCounts, NEW e \in Object,
         \/ \E n \in RefNum : fRefToEntry[n] = e
         \/ \E o \in Object, n \in RefNum : cSubRefs[o][n] = e
         \/ \E o \in Object, n \in RefNum : fSubRefs[o][n] = e
         \/ \E t \in Threads : pc[t] = "release" /\ entry[t] = e
         \/ \E t \in Threads : parent[t] = e
  PROVE  status[e] = "live" /\ retain[e] >= 1
  <1>1. \/ InTable(e) # 0 \/ InClients(e) # 0 \/ InParents(e) # 0 \/ InHand(e) # 0
        \/ AsParent(e) # 0
    BY EntryCounters
  <1>t. /\ InTable(e) \in Nat /\ InClients(e) \in Nat /\ InParents(e) \in Nat
        /\ InHand(e) \in Nat /\ AsParent(e) \in Nat
    BY EntryCounters
  <1>2. Pointers(e) \in Nat /\ Pointers(e) >= 1
    BY <1>1, <1>t, SomePositive DEF Pointers
  <1>3. retain[e] \in Int
    BY DEF Shape, TypeOK, EntriesOK
  <1>4. QED
    BY <1>2, <1>3 DEF EntryCounts

LEMMA PointedClientIsLive ==
  ASSUME Finite, Shape, ClientCounts, NEW c \in Object,
         \/ \E n \in RefNum : fRefToClientEntry[n] = c
         \/ \E p \in Ports : fPortToClientEntry[p] = c
         \/ \E t \in Threads : client[t] = c
  PROVE  cStatus[c] = "live" /\ cRetain[c] >= 1
  <1>1. OfNumbers(c) # 0 \/ OfPorts(c) # 0 \/ OfThreads(c) # 0
    BY ClientCounters
  <1>2. ClientPointers(c) \in Nat /\ ClientPointers(c) >= 1
    BY <1>1, ClientCounters DEF ClientPointers
  <1>3. QED
    BY <1>2 DEF ClientCounts

\* An object that is not made is pointed to by nobody.
LEMMA UnmadeIsAlone ==
  ASSUME Finite, Shape, Made, EntryCounts, NEW e \in Object, fRefNum[e] = 0
  PROVE  Pointers(e) = 0 /\ retain[e] < 1
  <1>1. status[e] = "unmade"
    BY DEF Made
  <1>2. retain[e] \in Int /\ Pointers(e) \in Nat
    BY PointersTyped DEF Shape, TypeOK, EntriesOK
  <1>3. QED
    BY <1>1, <1>2 DEF EntryCounts

LEMMA UnmadeClientIsAlone ==
  ASSUME Finite, ClientCounts, NEW c \in Object, cStatus[c] = "unmade"
  PROVE  ClientPointers(c) = 0
  BY ClientPointersTyped DEF ClientCounts

\* A counter whose map does not change.
LEMMA Unmoved ==
  ASSUME NEW e \in Object
  PROVE  /\ UNCHANGED fRefToEntry => InTable(e)' = InTable(e)
         /\ UNCHANGED cSubRefs => InClients(e)' = InClients(e)
         /\ UNCHANGED fSubRefs => InParents(e)' = InParents(e)
         /\ (\A t \in Threads : InHandOf(t)' = InHandOf(t)) => InHand(e)' = InHand(e)
         /\ UNCHANGED parent => AsParent(e)' = AsParent(e)
         /\ UNCHANGED fRefToClientEntry => OfNumbers(e)' = OfNumbers(e)
         /\ UNCHANGED fPortToClientEntry => OfPorts(e)' = OfPorts(e)
         /\ UNCHANGED client => OfThreads(e)' = OfThreads(e)
  <1>1. ASSUME \A t \in Threads : InHandOf(t)' = InHandOf(t)
        PROVE  InHand(e)' = InHand(e)
    <2>1. e # NULL
      BY DEF Object, NULL
    <2>2. {t \in Threads : pc[t] = "release" /\ entry[t] = e}'
            = {t \in Threads : pc[t] = "release" /\ entry[t] = e}
      BY <1>1, <2>1 DEF InHandOf
    <2>3. QED
      BY <2>2 DEF InHand
  <1>2. QED
    BY <1>1 DEF InTable, InClients, InParents, AsParent, OfNumbers, OfPorts, OfThreads

\* A step that gains and loses as many counts of an entry as pointers to it.
Balanced(e) == retain'[e] - Pointers(e)' = retain[e] - Pointers(e)

LEMMA BalancedStep ==
  ASSUME Finite, Shape, Shape', EntryCounts, \A e \in Object : Balanced(e),
         \A e \in Object : status'[e] = "live" <=> retain'[e] >= 1
  PROVE  EntryCounts' /\ (Exact => Exact')
  <1>1. ASSUME NEW e \in Object
        PROVE  retain'[e] >= Pointers(e)' /\ (retain[e] = Pointers(e) => retain'[e] = Pointers(e)')
    <2>1. /\ retain[e] \in Int /\ retain'[e] \in Int
          /\ Pointers(e) \in Int /\ Pointers(e)' \in Int
      BY PointersTyped, PointersTypedAfter DEF Shape, TypeOK, EntriesOK
    <2>2. retain[e] >= Pointers(e) /\ retain'[e] - Pointers(e)' = retain[e] - Pointers(e)
      BY DEF EntryCounts, Balanced
    <2>3. QED
      BY <2>1, <2>2
  <1>2. QED
    BY <1>1 DEF EntryCounts, Exact

\* Nothing happens to the entries' counts and pointers.
LEMMA EntriesUntouched ==
  ASSUME Finite, EntryCounts,
         UNCHANGED <<fRefToEntry, cSubRefs, fSubRefs, parent, retain>>,
         \A t \in Threads : InHandOf(t)' = InHandOf(t),
         \A e \in Object : status'[e] = "live" <=> status[e] = "live"
  PROVE  EntryCounts' /\ (Exact => Exact')
  <1>1. \A e \in Object : Pointers(e)' = Pointers(e)
    BY Unmoved DEF Pointers
  <1>2. QED
    BY <1>1 DEF EntryCounts, Exact

LEMMA ClientsUntouched ==
  ASSUME Finite, ClientCounts,
         UNCHANGED <<fRefToClientEntry, fPortToClientEntry, client, cRetain>>,
         \A c \in Object : cStatus'[c] = "live" <=> cStatus[c] = "live"
  PROVE  ClientCounts'
  <1>1. \A c \in Object : ClientPointers(c)' = ClientPointers(c)
    BY Unmoved DEF ClientPointers
  <1>2. QED
    BY <1>1 DEF ClientCounts

-----------------------------------------------------------------------------
\* What a destructor's frames and the cleanup queue refer to stays gone.
LEMMA ElemsTail ==
  ASSUME NEW S, NEW s \in Seq(S), s # <<>>
  PROVE  Elems(Tail(s)) \subseteq Elems(s) /\ Head(s) \in Elems(s)
  <1>1. \A i \in 1..Len(Tail(s)) : i + 1 \in 1..Len(s) /\ Tail(s)[i] = s[i + 1]
    BY HeadTailProperties
  <1>2. 1 \in 1..Len(s) /\ Head(s) = s[1]
    BY HeadTailProperties
  <1>3. QED
    BY <1>1, <1>2 DEF Elems

LEMMA ElemsPushed ==
  ASSUME NEW S, NEW x \in S, NEW s \in Seq(S)
  PROVE  Elems(<<x>> \o s) \subseteq {x} \cup Elems(s)
  <1> DEFINE r == <<x>> \o s
  <1>1. <<x>> \in Seq(S) /\ Len(<<x>>) = 1
    OBVIOUS
  <1>2. Len(r) = 1 + Len(s) /\ \A i \in 1..Len(r) : r[i] = IF i <= 1 THEN <<x>>[i] ELSE s[i - 1]
    BY <1>1, ConcatProperties
  <1> HIDE DEF r
  <1>3. ASSUME NEW i \in 1..Len(r)
        PROVE  r[i] \in {x} \cup Elems(s)
    <2>1. CASE i = 1
      BY <1>2, <2>1
    <2>2. CASE i # 1
      <3>1. Len(s) \in Nat /\ i \in 1..(1 + Len(s))
        BY <1>2, LenProperties
      <3>2. i - 1 \in 1..Len(s) /\ r[i] = s[i - 1]
        BY <1>2, <2>2, <3>1
      <3>3. QED
        BY <3>2 DEF Elems
    <2>3. QED
      BY <2>1, <2>2
  <1>4. QED
    BY <1>3 DEF Elems, r

LEMMA ElemsAppended ==
  ASSUME NEW S, NEW x \in S, NEW s \in Seq(S)
  PROVE  Elems(Append(s, x)) \subseteq {x} \cup Elems(s)
  <1> DEFINE r == Append(s, x)
  <1>1. /\ Len(s) \in Nat /\ Len(r) = Len(s) + 1
        /\ \A i \in 1..Len(s) : r[i] = s[i]
        /\ r[Len(s) + 1] = x
    BY AppendProperties
  <1> HIDE DEF r
  <1>2. ASSUME NEW i \in 1..Len(r)
        PROVE  r[i] \in {x} \cup Elems(s)
    <2>1. CASE i = Len(s) + 1
      BY <1>1, <2>1
    <2>2. CASE i # Len(s) + 1
      <3>1. i \in 1..Len(s)
        BY <1>1, <2>2
      <3>2. QED
        BY <1>1, <3>1 DEF Elems
    <2>3. QED
      BY <2>1, <2>2
  <1>3. QED
    BY <1>2 DEF Elems, r

LEMMA ElemsTyped ==
  ASSUME NEW S, NEW s \in Seq(S)
  PROVE  Elems(s) \subseteq S
  BY ElementOfSeq DEF Elems

\* A destructor that has begun never begins again: no step makes such an
\* entry live, and an unmade one is made by an insertion only.
StaysGone == \A e \in Object : status[e] \in Gone => status'[e] \in Gone

LEMMA DeadStep ==
  ASSUME Shape, Dead, StaysGone,
         \A a \in Agents : \A f \in Elems(stack'[a]) :
           f \in Elems(stack[a]) \/ (f.kind = "entry" => status'[f.obj] \in Gone),
         \A e \in Elems(cleanup') : e \in Elems(cleanup) \/ status'[e] \in Gone
  PROVE  Dead'
  <1>1. \A a \in Agents : Elems(stack[a]) \subseteq Frame
    BY ElemsTyped DEF Shape, TypeOK, QueuesOK
  <1>2. Elems(cleanup) \subseteq Object
    BY ElemsTyped DEF Shape, TypeOK, QueuesOK
  <1>3. \A a \in Agents : \A f \in Elems(stack'[a]) : f.kind = "entry" => status'[f.obj] \in Gone
    BY <1>1 DEF Dead, DeadFrames, StaysGone, Frame
  <1>4. \A e \in Elems(cleanup') : status'[e] \in Gone
    BY <1>2 DEF Dead, StaysGone
  <1>5. QED
    BY <1>3, <1>4 DEF Dead, DeadFrames

LEMMA MadeStep ==
  ASSUME Made, UNCHANGED fRefNum,
         \A e \in Object : status'[e] = "unmade" <=> status[e] = "unmade",
         \A p \in Object, n \in RefNum : fSubRefs'[p][n] \in {fSubRefs[p][n], NULL}
  PROVE  Made'
  BY DEF Made

LEMMA ParentsStep ==
  ASSUME ParentsAgree, UNCHANGED <<fRefNum, fParentID, fRefToEntry>>,
         \A p \in Object, n \in RefNum : fSubRefs'[p][n] \in {fSubRefs[p][n], NULL}
  PROVE  ParentsAgree'
  BY DEF ParentsAgree

\* Release of an entry to which a pointer is given up.
LEMMA Released ==
  ASSUME Finite, Shape, Shape', Dead, EntryCounts,
         NEW a \in Agents, NEW f \in Object, NEW rest \in Seq(Frame),
         ReleaseEntry(a, f, rest), Elems(rest) \subseteq Elems(stack[a]),
         status[f] = "live", retain[f] >= 1, UNCHANGED cleanup,
         \A e \in Object : Pointers(e)' = Pointers(e) - One(f, e)
  PROVE  /\ EntryCounts' /\ (Exact => Exact') /\ Dead'
         /\ \A e \in Object : status'[e] = "unmade" <=> status[e] = "unmade"
  <1>1. /\ retain \in [Object -> Int] /\ stack \in [Agents -> Seq(Frame)]
        /\ status \in [Object -> {"unmade", "live", "dying", "freed", "closed"}]
    BY DEF Shape, TypeOK, EntriesOK, QueuesOK
  <1>2. /\ retain' = [retain EXCEPT ![f] = @ - 1]
        /\ retain[f] = 1 => /\ status' = [status EXCEPT ![f] = "dying"]
                            /\ stack' = [stack EXCEPT ![a] = <<EntryFrame(f)>> \o rest]
        /\ retain[f] # 1 => UNCHANGED status /\ stack' = [stack EXCEPT ![a] = rest]
    BY DEF ReleaseEntry
  <1>3. \A e \in Object : retain'[e] = retain[e] - One(f, e)
    BY <1>1, <1>2 DEF One
  <1>4. \A e \in Object : Balanced(e)
    <2>1. TAKE e \in Object
    <2>2. /\ retain[e] \in Int /\ Pointers(e) \in Int /\ One(f, e) \in Int
          /\ retain'[e] = retain[e] - One(f, e) /\ Pointers(e)' = Pointers(e) - One(f, e)
      BY <1>1, <1>3, PointersTyped, OneOrNone
    <2>3. QED
      BY <2>2 DEF Balanced
  <1>5. \A e \in Object : status'[e] = "live" <=> retain'[e] >= 1
    <2>1. TAKE e \in Object
    <2>2. CASE e # f
      BY <1>1, <1>2, <2>2 DEF EntryCounts
    <2>3. CASE e = f /\ retain[f] = 1
      BY <1>1, <1>2, <2>3
    <2>4. CASE e = f /\ retain[f] # 1
      BY <1>1, <1>2, <2>4
    <2>5. QED
      BY <2>2, <2>3, <2>4
  <1>6. StaysGone /\ \A e \in Object : status'[e] = "unmade" <=> status[e] = "unmade"
    BY <1>1, <1>2 DEF StaysGone, Gone
  <1>7. Dead'
    <2>1. ASSUME NEW b \in Agents, NEW x \in Elems(stack'[b])
          PROVE  x \in Elems(stack[b]) \/ (x.kind = "entry" => status'[x.obj] \in Gone)
      <3>1. CASE b # a
        BY <1>1, <1>2, <2>1, <3>1
      <3>2. CASE b = a /\ retain[f] # 1
        BY <1>1, <1>2, <2>1, <3>2
      <3>3. CASE b = a /\ retain[f] = 1
        <4>1. stack'[b] = <<EntryFrame(f)>> \o rest
          BY <1>1, <1>2, <3>3
        <4>2. EntryFrame(f) \in Frame
          BY DEF EntryFrame, Frame
        <4>3. x = EntryFrame(f) \/ x \in Elems(stack[b])
          BY <2>1, <3>3, <4>1, <4>2, ElemsPushed
        <4>4. status'[f] \in Gone /\ EntryFrame(f).obj = f
          BY <1>1, <1>2, <3>3 DEF Gone, EntryFrame
        <4>5. QED
          BY <4>3, <4>4
      <3>4. QED
        BY <3>1, <3>2, <3>3
    <2>2. QED
      BY <1>6, <2>1, DeadStep
  <1>8. QED
    BY <1>4, <1>5, <1>6, <1>7, BalancedStep

\* Retain of an entry, or of none, for a new pointer.
LEMMA Retained ==
  ASSUME Finite, Shape, Shape', EntryCounts, NEW f \in MaybeObject,
         f # NULL => status[f] = "live", UNCHANGED status,
         retain' = Kept(retain, f),
         \A e \in Object : Pointers(e)' = Pointers(e) + One(f, e)
  PROVE  EntryCounts' /\ (Exact => Exact')
  <1>1. retain \in [Object -> Int] /\ NULL \notin Object
    BY DEF Shape, TypeOK, EntriesOK, Object, NULL
  <1>2. \A e \in Object : retain'[e] = retain[e] + One(f, e)
    BY <1>1 DEF Kept, One, MaybeObject
  <1>3. \A e \in Object : Balanced(e)
    <2>1. TAKE e \in Object
    <2>2. /\ retain[e] \in Int /\ Pointers(e) \in Int /\ One(f, e) \in Int
          /\ retain'[e] = retain[e] + One(f, e) /\ Pointers(e)' = Pointers(e) + One(f, e)
      BY <1>1, <1>2, PointersTyped, OneOrNone
    <2>3. QED
      BY <2>2 DEF Balanced
  <1>4. \A e \in Object : status'[e] = "live" <=> retain'[e] >= 1
    <2>1. TAKE e \in Object
    <2>2. CASE e # f
      BY <1>1, <1>2, <2>2 DEF EntryCounts, One
    <2>3. CASE e = f
      <3>1. status[e] = "live" /\ retain[e] >= 1 /\ retain'[e] = retain[e] + 1
        BY <1>1, <1>2, <2>3 DEF EntryCounts, One
      <3>2. QED
        BY <1>1, <3>1
    <2>4. QED
      BY <2>2, <2>3
  <1>5. QED
    BY <1>3, <1>4, BalancedStep

\* The same for clients.
LEMMA ClientReleased ==
  ASSUME Finite, Shape, ClientCounts, NEW c \in Object,
         cStatus[c] = "live", cRetain[c] >= 1,
         cRetain' = [cRetain EXCEPT ![c] = @ - 1],
         cStatus' = IF cRetain[c] = 1 THEN [cStatus EXCEPT ![c] = "dying"] ELSE cStatus,
         \A d \in Object : ClientPointers(d)' = ClientPointers(d) - One(c, d)
  PROVE  /\ ClientCounts'
         /\ \A d \in Object : cStatus'[d] = "unmade" <=> cStatus[d] = "unmade"
  <1>1. /\ cRetain \in [Object -> Int]
        /\ cStatus \in [Object -> {"unmade", "live", "dying", "freed"}]
    BY DEF Shape, TypeOK, ClientsOK
  <1>2. ASSUME NEW d \in Object
        PROVE  cRetain'[d] = ClientPointers(d)'
    <2>1. cRetain'[d] = cRetain[d] - One(c, d)
      BY <1>1 DEF One
    <2>2. QED
      BY <2>1 DEF ClientCounts
  <1>3. ASSUME NEW d \in Object
        PROVE  cStatus'[d] = "live" <=> cRetain'[d] >= 1
    <2>1. CASE d # c
      BY <1>1, <2>1 DEF ClientCounts
    <2>2. CASE d = c /\ cRetain[c] = 1
      BY <1>1, <2>2
    <2>3. CASE d = c /\ cRetain[c] # 1
      BY <1>1, <2>3
    <2>4. QED
      BY <2>1, <2>2, <2>3
  <1>4. \A d \in Object : cStatus'[d] = "unmade" <=> cStatus[d] = "unmade"
    BY <1>1
  <1>5. QED
    BY <1>2, <1>3, <1>4 DEF ClientCounts

LEMMA ClientRetained ==
  ASSUME Finite, Shape, ClientCounts, NEW c \in MaybeObject,
         c # NULL => cStatus[c] = "live", UNCHANGED cStatus,
         cRetain' = Kept(cRetain, c),
         \A d \in Object : ClientPointers(d)' = ClientPointers(d) + One(c, d)
  PROVE  ClientCounts'
  <1>1. cRetain \in [Object -> Int] /\ NULL \notin Object
    BY DEF Shape, TypeOK, ClientsOK, Object, NULL
  <1>2. ASSUME NEW d \in Object
        PROVE  cRetain'[d] = cRetain[d] + One(c, d)
    BY <1>1 DEF Kept, One, MaybeObject
  <1>3. ASSUME NEW d \in Object
        PROVE  cStatus'[d] = "live" <=> cRetain'[d] >= 1
    <2>1. CASE d # c
      BY <1>1, <1>2, <2>1 DEF ClientCounts, One
    <2>2. CASE d = c
      <3>1. cStatus[d] = "live" /\ cRetain[d] >= 1 /\ cRetain'[d] = cRetain[d] + 1
        BY <1>1, <1>2, <2>2 DEF ClientCounts, One
      <3>2. QED
        BY <1>1, <3>1
    <2>3. QED
      BY <2>1, <2>2
  <1>4. QED
    BY <1>2, <1>3 DEF ClientCounts

-----------------------------------------------------------------------------
(***************************************************************************)
(* The destructors and the cleanup queue.                                  *)
(***************************************************************************)
\* The threads' locals when a step changes no thread and makes no client.
LEMMA LocalsStep ==
  ASSUME Locals, UNCHANGED <<fRefNum, calls, pc, op, ref, client, parent, entry>>,
         \A c \in Object : cStatus[c] = "unmade" => cStatus'[c] = "unmade"
  PROVE  Locals'
  BY DEF Locals, LocalsOf

LEMMA ReleaseSubRefHolds ==
  ASSUME Finite, HoldInv, LoopInv', NEW a \in Agents, ReleaseSubRef(a)
  PROVE  HoldInv' /\ (Exact => Exact')
  <1> DEFINE o == Head(stack[a]).obj
  <1>1. Shape /\ Shape' /\ stack[a] # <<>>
    BY DEF HoldInv, LoopInv, MapsInv, ReleaseSubRef, TopIs
  <1>2. o \in Object /\ stack[a] \in Seq(Frame)
    BY <1>1, FramesTyped
  <1>3. PICK n \in RefNum :
          /\ fSubRefs[o][n] # NULL
          /\ fSubRefs' = [fSubRefs EXCEPT ![o][n] = NULL]
          /\ ReleaseEntry(a, fSubRefs[o][n], stack[a])
    BY Zenon DEF ReleaseSubRef, IsLeast, Named, WithoutRef
  <1> DEFINE f == fSubRefs[o][n]
  <1>4. fSubRefs \in [Object -> RefMap] /\ f \in Object
    BY <1>1, <1>2, <1>3 DEF Shape, TypeOK, EntriesOK, RefMap, MaybeObject
  <1>5. /\ fSubRefs'[o][n] = NULL
        /\ \A p \in Object, m \in RefNum : ~(p = o /\ m = n) => fSubRefs'[p][m] = fSubRefs[p][m]
    BY <1>2, <1>3, <1>4 DEF RefMap
  <1>6. UNCHANGED <<tables, fRefNum, fParentID, clients, cleanup, request, pc,
                    client, parent, entry>>
    BY DEF ReleaseSubRef
  <1>7. status[f] = "live" /\ retain[f] >= 1
    BY <1>1, <1>2, <1>4, PointedIsLive DEF HoldInv
  <1>8. ASSUME NEW e \in Object
        PROVE  Pointers(e)' = Pointers(e) - One(f, e)
    <2>1. Shift(InParents(e), InParents(e)', f, NULL, e)
      BY <1>2, <1>5, ParentListStep
    <2>2. InParents(e)' = InParents(e) - One(f, e)
      <3>1. One(NULL, e) = 0
        BY DEF One, Object, NULL
      <3>2. InParents(e) \in Int /\ One(f, e) \in Int
        BY EntryCounters, OneOrNone
      <3> HIDE DEF f
      <3>3. QED
        BY <2>1, <3>1, <3>2 DEF Shift
    <2>3. /\ InTable(e)' = InTable(e) /\ InClients(e)' = InClients(e)
          /\ InHand(e)' = InHand(e) /\ AsParent(e)' = AsParent(e)
      BY <1>6, Unmoved DEF tables, clients, InHandOf
    <2> HIDE DEF f
    <2>4. QED
      BY <2>2, <2>3, EntryCounters, OneOrNone DEF Pointers
  <1>9. /\ EntryCounts' /\ (Exact => Exact') /\ Dead'
        /\ \A e \in Object : status'[e] = "unmade" <=> status[e] = "unmade"
    <2> HIDE DEF f
    <2>1. ReleaseEntry(a, f, stack[a])
      BY <1>3 DEF f
    <2>2. UNCHANGED cleanup
      BY <1>6
    <2>3. QED
      BY <1>1, <1>2, <1>4, <1>7, <1>8, <2>1, <2>2, Released DEF HoldInv
  <1>10. \A p \in Object, m \in RefNum : fSubRefs'[p][m] \in {fSubRefs[p][m], NULL}
    BY <1>5
  <1>11. Made' /\ ParentsAgree'
    BY <1>6, <1>9, <1>10, MadeStep, ParentsStep DEF HoldInv, tables
  <1>12. Locals' /\ ClientCounts'
    BY <1>6, LocalsStep, ClientsUntouched DEF HoldInv, clients, tables, request
  <1>13. QED
    BY <1>9, <1>11, <1>12 DEF HoldInv

LEMMA ClearChildRefHolds ==
  ASSUME Finite, HoldInv, LoopInv', NEW a \in Agents, ClearChildRef(a)
  PROVE  HoldInv' /\ (Exact => Exact')
  <1> DEFINE o == Head(stack[a]).obj
  <1>1. Shape /\ Shape' /\ stack[a] # <<>>
    BY DEF HoldInv, LoopInv, MapsInv, ClearChildRef, TopIs
  <1>2. o \in Object /\ stack[a] \in Seq(Frame)
    BY <1>1, FramesTyped
  <1>3. PICK n \in RefNum :
          /\ cSubRefs[o][n] # NULL
          /\ cSubRefs' = [cSubRefs EXCEPT ![o][n] = NULL]
          /\ ReleaseEntry(a, cSubRefs[o][n], stack[a])
    BY Zenon DEF ClearChildRef, IsLeast, Named, WithoutRef
  <1> DEFINE f == cSubRefs[o][n]
  <1>4. cSubRefs \in [Object -> RefMap] /\ f \in Object
    BY <1>1, <1>2, <1>3 DEF Shape, TypeOK, ClientsOK, RefMap, MaybeObject
  <1>5. /\ cSubRefs'[o][n] = NULL
        /\ \A p \in Object, m \in RefNum : ~(p = o /\ m = n) => cSubRefs'[p][m] = cSubRefs[p][m]
    BY <1>2, <1>3, <1>4 DEF RefMap
  <1>6. UNCHANGED <<tables, fRefNum, fParentID, fSubRefs, cStatus, portInfo, cRetain,
                    cleanup, request, pc, client, parent, entry>>
    BY DEF ClearChildRef
  <1>7. status[f] = "live" /\ retain[f] >= 1
    BY <1>1, <1>2, <1>4, PointedIsLive DEF HoldInv
  <1>8. ASSUME NEW e \in Object
        PROVE  Pointers(e)' = Pointers(e) - One(f, e)
    <2>1. Shift(InClients(e), InClients(e)', f, NULL, e)
      BY <1>2, <1>5, ClientListStep
    <2>2. InClients(e)' = InClients(e) - One(f, e)
      <3>1. One(NULL, e) = 0
        BY DEF One, Object, NULL
      <3>2. InClients(e) \in Int /\ One(f, e) \in Int
        BY EntryCounters, OneOrNone
      <3> HIDE DEF f
      <3>3. QED
        BY <2>1, <3>1, <3>2 DEF Shift
    <2>3. /\ InTable(e)' = InTable(e) /\ InParents(e)' = InParents(e)
          /\ InHand(e)' = InHand(e) /\ AsParent(e)' = AsParent(e)
      BY <1>6, Unmoved DEF tables, InHandOf
    <2> HIDE DEF f
    <2>4. QED
      BY <2>2, <2>3, EntryCounters, OneOrNone DEF Pointers
  <1>9. /\ EntryCounts' /\ (Exact => Exact') /\ Dead'
        /\ \A e \in Object : status'[e] = "unmade" <=> status[e] = "unmade"
    <2> HIDE DEF f
    <2>1. ReleaseEntry(a, f, stack[a])
      BY <1>3 DEF f
    <2>2. UNCHANGED cleanup
      BY <1>6
    <2>3. QED
      BY <1>1, <1>2, <1>4, <1>7, <1>8, <2>1, <2>2, Released DEF HoldInv
  <1>10. Made' /\ ParentsAgree'
    BY <1>6, <1>9, MadeStep, ParentsStep DEF HoldInv, tables
  <1>11. Locals' /\ ClientCounts'
    BY <1>6, LocalsStep, ClientsUntouched DEF HoldInv, tables, request
  <1>12. QED
    BY <1>9, <1>10, <1>11 DEF HoldInv

LEMMA FinishEntryHolds ==
  ASSUME Finite, HoldInv, LoopInv', NEW a \in Agents, FinishEntry(a)
  PROVE  HoldInv' /\ (Exact => Exact')
  <1> DEFINE e == Head(stack[a]).obj
  <1>1. Shape /\ Shape' /\ stack[a] # <<>> /\ Head(stack[a]).kind = "entry"
    BY DEF HoldInv, LoopInv, MapsInv, FinishEntry, TopIs
  <1>2. e \in Object /\ stack[a] \in Seq(Frame)
    BY <1>1, FramesTyped
  <1>3. status[e] \in Gone
    <2>1. Head(stack[a]) \in Elems(stack[a])
      BY <1>1, <1>2, ElemsTail
    <2>2. QED
      BY <1>1, <2>1 DEF HoldInv, Dead, DeadFrames
  <1>4. /\ status \in [Object -> {"unmade", "live", "dying", "freed", "closed"}]
        /\ stack \in [Agents -> Seq(Frame)] /\ cleanup \in Seq(Object)
    BY <1>1 DEF Shape, TypeOK, EntriesOK, QueuesOK
  <1>5. /\ status' = [status EXCEPT ![e] = "freed"]
        /\ stack' = [stack EXCEPT ![a] = Tail(@)]
        /\ cleanup' = Append(cleanup, e)
        /\ UNCHANGED <<tables, fRefNum, fParentID, retain, fSubRefs, clients, queue,
                       request, pc, client, parent, entry>>
    BY DEF FinishEntry
  <1>6. \A x \in Object : /\ status'[x] = "live" <=> status[x] = "live"
                          /\ status'[x] = "unmade" <=> status[x] = "unmade"
                          /\ status[x] \in Gone => status'[x] \in Gone
    BY <1>2, <1>3, <1>4, <1>5 DEF Gone
  <1>7. EntryCounts' /\ (Exact => Exact')
    BY <1>5, <1>6, EntriesUntouched DEF HoldInv, tables, clients, InHandOf
  <1>8. Dead'
    <2>1. \A b \in Agents : Elems(stack'[b]) \subseteq Elems(stack[b])
      BY <1>1, <1>4, <1>5, ElemsTail
    <2>2. Elems(cleanup') \subseteq {e} \cup Elems(cleanup)
      BY <1>2, <1>4, <1>5, ElemsAppended
    <2>3. status'[e] \in Gone
      BY <1>2, <1>4, <1>5 DEF Gone
    <2>4. QED
      BY <1>1, <1>6, <2>1, <2>2, <2>3, DeadStep DEF HoldInv, StaysGone
  <1>9. Made' /\ ParentsAgree'
    BY <1>5, <1>6, MadeStep, ParentsStep DEF HoldInv, tables
  <1>10. Locals' /\ ClientCounts'
    BY <1>5, LocalsStep, ClientsUntouched DEF HoldInv, clients, tables, request
  <1>11. QED
    BY <1>7, <1>8, <1>9, <1>10 DEF HoldInv

LEMMA FreeClientHolds ==
  ASSUME Finite, HoldInv, LoopInv', NEW a \in Agents, FreeClient(a)
  PROVE  HoldInv' /\ (Exact => Exact')
  <1> DEFINE c == Head(stack[a]).obj
  <1>1. Shape /\ Shape' /\ stack[a] # <<>>
    BY DEF HoldInv, LoopInv, MapsInv, FreeClient, TopIs
  <1>2. c \in Object
    BY <1>1, FramesTyped
  <1>3. /\ cStatus \in [Object -> {"unmade", "live", "dying", "freed"}]
        /\ stack \in [Agents -> Seq(Frame)]
    BY <1>1 DEF Shape, TypeOK, ClientsOK, QueuesOK
  <1>4. /\ cStatus[c] = "dying" /\ cStatus' = [cStatus EXCEPT ![c] = "freed"]
        /\ stack' = [stack EXCEPT ![a] = Tail(@)]
        /\ UNCHANGED <<tables, entries, portInfo, cRetain, cSubRefs, queue, cleanup,
                       request, pc, client, parent, entry>>
    BY DEF FreeClient
  <1>5. \A d \in Object : /\ cStatus'[d] = "live" <=> cStatus[d] = "live"
                          /\ cStatus[d] = "unmade" => cStatus'[d] = "unmade"
    BY <1>2, <1>3, <1>4
  <1>6. EntryCounts' /\ (Exact => Exact')
    BY <1>4, EntriesUntouched DEF HoldInv, tables, entries, InHandOf
  <1>7. Dead'
    <2>1. \A b \in Agents : Elems(stack'[b]) \subseteq Elems(stack[b])
      BY <1>1, <1>3, <1>4, ElemsTail
    <2>2. QED
      BY <1>1, <1>4, <2>1, DeadStep DEF HoldInv, StaysGone, entries
  <1>8. Made' /\ ParentsAgree'
    BY <1>4, MadeStep, ParentsStep DEF HoldInv, tables, entries
  <1>9. Locals' /\ ClientCounts'
    BY <1>4, <1>5, LocalsStep, ClientsUntouched DEF HoldInv, tables, entries, request
  <1>10. QED
    BY <1>6, <1>7, <1>8, <1>9 DEF HoldInv

LEMMA DeallocHolds ==
  ASSUME Finite, HoldInv, LoopInv', RunDealloc
  PROVE  HoldInv' /\ (Exact => Exact')
  <1> DEFINE e == Head(cleanup)
  <1>1. Shape /\ Shape' /\ cleanup # <<>>
    BY DEF HoldInv, LoopInv, MapsInv, RunDealloc
  <1>2. /\ status \in [Object -> {"unmade", "live", "dying", "freed", "closed"}]
        /\ cleanup \in Seq(Object) /\ e \in Object
    BY <1>1, HeadTailProperties DEF Shape, TypeOK, EntriesOK, QueuesOK
  <1>3. status[e] \in Gone /\ Elems(Tail(cleanup)) \subseteq Elems(cleanup)
    BY <1>1, <1>2, ElemsTail DEF HoldInv, Dead
  <1>4. /\ status' = [status EXCEPT ![e] = "closed"] /\ cleanup' = Tail(cleanup)
        /\ UNCHANGED <<tables, fRefNum, fParentID, retain, fSubRefs, clients, queue,
                       stack, request, pc, client, parent, entry>>
    BY DEF RunDealloc
  <1>5. \A x \in Object : /\ status'[x] = "live" <=> status[x] = "live"
                          /\ status'[x] = "unmade" <=> status[x] = "unmade"
                          /\ status[x] \in Gone => status'[x] \in Gone
    BY <1>2, <1>3, <1>4 DEF Gone
  <1>6. EntryCounts' /\ (Exact => Exact')
    BY <1>4, <1>5, EntriesUntouched DEF HoldInv, tables, clients, InHandOf
  <1>7. Dead'
    BY <1>1, <1>3, <1>4, <1>5, DeadStep DEF HoldInv, StaysGone
  <1>8. Made' /\ ParentsAgree'
    BY <1>4, <1>5, MadeStep, ParentsStep DEF HoldInv, tables
  <1>9. Locals' /\ ClientCounts'
    BY <1>4, LocalsStep, ClientsUntouched DEF HoldInv, clients, tables, request
  <1>10. QED
    BY <1>6, <1>7, <1>8, <1>9 DEF HoldInv

-----------------------------------------------------------------------------
(***************************************************************************)
(* Requests begin, and go on between two blocks.                           *)
(***************************************************************************)
LEMMA RequestLocals ==
  ASSUME HoldInv, NEW t \in Threads, NewRequest(t)
  PROVE  Locals'
  <1>1. /\ pc \in [Threads -> Where] /\ entry \in [Threads -> MaybeObject]
        /\ op \in [Threads -> {"none", "create", "close", "use", "clean"}]
        /\ ref \in [Threads -> RefNum \cup {0}] /\ calls \in 0..MaxCalls
    BY DEF HoldInv, LoopInv, MapsInv, Shape, TypeOK, RequestsOK, LocalsOK
  <1>2. ASSUME NEW o, NEW n, NEW ty, NEW next, Begin(t, o, n, ty, next),
               next \in {"find_client", "verify", "clean"},
               \/ /\ calls < MaxCalls /\ calls' = calls + 1 /\ o = "create" /\ next # "clean"
                  /\ entry' = [entry EXCEPT ![t] = calls + 1]
               \/ UNCHANGED <<calls, entry>> /\ next # "find_client"
        PROVE  Locals'
    <2>1. /\ pc[t] = "idle" /\ pc' = [pc EXCEPT ![t] = next]
          /\ op' = [op EXCEPT ![t] = o] /\ ref' = [ref EXCEPT ![t] = n]
          /\ UNCHANGED <<fRefNum, cStatus, client, parent>>
      BY <1>2 DEF Begin, Submit, entries, clients
    <2>2. client[t] = NULL /\ parent[t] = NULL /\ entry[t] = NULL
      BY <2>1 DEF HoldInv, Locals, LocalsOf, HoldsClient, HoldsParent, HoldsNoEntry
    <2>3. ASSUME NEW u \in Threads, u # t
          PROVE  LocalsOf(u)'
      BY <1>1, <1>2, <2>1, <2>3 DEF HoldInv, Locals, LocalsOf
    <2>4. LocalsOf(t)'
      <3>1. CASE UNCHANGED <<calls, entry>> /\ next # "find_client"
        BY <1>1, <1>2, <2>1, <2>2, <3>1 DEF LocalsOf
      <3>2. CASE /\ calls < MaxCalls /\ calls' = calls + 1 /\ o = "create" /\ next # "clean"
                 /\ entry' = [entry EXCEPT ![t] = calls + 1]
        <4>1. calls + 1 \in Object /\ calls + 1 > calls
          BY <1>1, <3>2 DEF Object
        <4>2. cStatus[calls + 1] = "unmade" /\ entry'[t] = calls + 1
          BY <1>1, <3>2, <4>1 DEF HoldInv, Locals
        <4>3. QED
          BY <1>1, <1>2, <2>1, <2>2, <3>2, <4>1, <4>2 DEF LocalsOf, HoldsNoEntry
      <3>3. QED
        BY <1>2, <3>1, <3>2
    <2>5. \A c \in Object : c > calls' => cStatus'[c] = "unmade"
      BY <1>1, <1>2, <2>1 DEF HoldInv, Locals, Object
    <2>6. QED
      BY <2>3, <2>4, <2>5 DEF Locals
  <1>3. CASE BeginOpenDir(t)
    BY <1>2, <1>3 DEF BeginOpenDir
  <1>4. ASSUME NEW n \in Issued, NEW ty \in RefType, BeginOpenChild(t, n, ty)
        PROVE  Locals'
    BY <1>2, <1>4 DEF BeginOpenChild
  <1>5. ASSUME NEW n \in Issued, BeginClose(t, n) \/ BeginUse(t, n)
        PROVE  Locals'
    BY <1>2, <1>5 DEF BeginClose, BeginUse
  <1>6. CASE BeginClean(t)
    BY <1>2, <1>6 DEF BeginClean
  <1>7. ASSUME NEW n \in Issued, Drop(t, n)
        PROVE  Locals'
    BY <1>7, LocalsStep DEF Drop, HoldInv, entries, clients
  <1>8. QED
    BY <1>3, <1>4, <1>5, <1>6, <1>7 DEF NewRequest

LEMMA RequestHolds ==
  ASSUME Finite, HoldInv, LoopInv', NEW t \in Threads, NewRequest(t)
  PROVE  HoldInv' /\ (Exact => Exact')
  <1>1. Shape
    BY DEF HoldInv, LoopInv, MapsInv
  <1>2. UNCHANGED <<tables, entries, clients, cleanup, stack, client, parent>>
    BY DEF NewRequest, BeginOpenDir, BeginOpenChild, BeginClose, BeginUse,
           BeginClean, Drop, Begin
  <1>3. ASSUME NEW u \in Threads
        PROVE  InHandOf(u)' = InHandOf(u)
    <2>1. pc[t] = "idle" /\ pc'[t] # "release"
      BY <1>1 DEF NewRequest, BeginOpenDir, BeginOpenChild, BeginClose, BeginUse,
         BeginClean, Drop, Begin, Submit, Shape, TypeOK, RequestsOK
    <2>2. u # t => pc'[u] = pc[u] /\ entry'[u] = entry[u]
      BY <1>1 DEF NewRequest, BeginOpenDir, BeginOpenChild, BeginClose, BeginUse,
         BeginClean, Drop, Begin, Submit, Shape, TypeOK, RequestsOK, LocalsOK
    <2>3. QED
      BY <2>1, <2>2 DEF InHandOf
  <1>4. EntryCounts' /\ (Exact => Exact')
    BY <1>2, <1>3, EntriesUntouched DEF HoldInv, tables, entries, clients
  <1>5. Dead'
    BY <1>1, <1>2, DeadStep DEF HoldInv, StaysGone, entries
  <1>6. Made' /\ ParentsAgree'
    BY <1>2, MadeStep, ParentsStep DEF HoldInv, tables, entries
  <1>7. ClientCounts'
    BY <1>2, ClientsUntouched DEF HoldInv, clients, tables
  <1>8. QED
    BY <1>4, <1>5, <1>6, <1>7, RequestLocals DEF HoldInv

\* A release of the client a thread holds, by the thread.
LEMMA GivesUpClient ==
  ASSUME Finite, HoldInv, NEW t \in Threads, NEW a, client[t] # NULL,
         ReleaseClient(a, client[t]), client' = [client EXCEPT ![t] = NULL],
         UNCHANGED <<fRefToClientEntry, fPortToClientEntry>>
  PROVE  /\ ClientCounts'
         /\ \A d \in Object : cStatus'[d] = "unmade" <=> cStatus[d] = "unmade"
  <1> DEFINE c == client[t]
  <1>1. Shape /\ client \in [Threads -> MaybeObject] /\ c \in Object
    BY DEF HoldInv, LoopInv, MapsInv, Shape, TypeOK, LocalsOK, MaybeObject
  <1>2. cStatus[c] = "live" /\ cRetain[c] >= 1
    BY <1>1, PointedClientIsLive DEF HoldInv
  <1>3. /\ cRetain' = [cRetain EXCEPT ![c] = @ - 1]
        /\ cStatus' = IF cRetain[c] = 1 THEN [cStatus EXCEPT ![c] = "dying"] ELSE cStatus
    BY DEF ReleaseClient
  <1>4. ASSUME NEW d \in Object
        PROVE  ClientPointers(d)' = ClientPointers(d) - One(c, d)
    <2>1. client'[t] = NULL /\ \A u \in Threads \ {t} : client'[u] = client[u]
      BY <1>1
    <2>2. Shift(OfThreads(d), OfThreads(d)', c, NULL, d)
      BY <2>1, ThreadsStep
    <2>3. OfNumbers(d)' = OfNumbers(d) /\ OfPorts(d)' = OfPorts(d)
      BY Unmoved
    <2>4. One(NULL, d) = 0
      BY DEF One, Object, NULL
    <2> HIDE DEF c
    <2>5. QED
      BY <2>2, <2>3, <2>4, ClientCounters, OneOrNone DEF ClientPointers, Shift
  <1> HIDE DEF c
  <1>5. QED
    BY <1>1, <1>2, <1>3, <1>4, ClientReleased DEF HoldInv

\* Pushing a client's frame leaves the entries' frames alone.
LEMMA ClientFramesDead ==
  ASSUME HoldInv, NEW a \in Agents, NEW c \in Object, ReleaseClient(a, c),
         UNCHANGED <<status, cleanup>>
  PROVE  Dead'
  <1>1. Shape /\ stack \in [Agents -> Seq(Frame)]
    BY DEF HoldInv, LoopInv, MapsInv, Shape, TypeOK, QueuesOK
  <1>2. ASSUME NEW b \in Agents, NEW x \in Elems(stack'[b])
        PROVE  x \in Elems(stack[b]) \/ x.kind # "entry"
    <2>1. CASE b # a \/ cRetain[c] # 1
      <3>1. stack'[b] = stack[b]
        BY <1>1, <2>1 DEF ReleaseClient
      <3>2. QED
        BY <1>2, <3>1
    <2>2. CASE b = a /\ cRetain[c] = 1
      <3>1. stack'[a] = <<ClientFrame(c)>> \o stack[a]
        BY <1>1, <2>2 DEF ReleaseClient
      <3>2. ClientFrame(c) \in Frame /\ ClientFrame(c).kind # "entry"
        BY DEF ClientFrame, Frame
      <3>3. QED
        BY <1>1, <1>2, <2>2, <3>1, <3>2, ElemsPushed
    <2>3. QED
      BY <2>1, <2>2
  <1>3. QED
    BY <1>1, <1>2, DeadStep DEF HoldInv, StaysGone

\* A step of thread t alone that makes nothing: the other threads' locals stay.
LEMMA OneThreadLocals ==
  ASSUME Locals, Shape, NEW t \in Threads, UNCHANGED <<fRefNum, calls>>,
         \A c \in Object : cStatus[c] = "unmade" => cStatus'[c] = "unmade",
         \A u \in Threads \ {t} : /\ pc'[u] = pc[u] /\ op'[u] = op[u] /\ ref'[u] = ref[u]
                                  /\ client'[u] = client[u] /\ parent'[u] = parent[u]
                                  /\ entry'[u] = entry[u],
         LocalsOf(t)'
  PROVE  Locals'
  <1>1. ASSUME NEW u \in Threads, u # t
        PROVE  LocalsOf(u)'
    BY <1>1 DEF Locals, LocalsOf
  <1>2. calls \in 0..MaxCalls
    BY DEF Shape, TypeOK, RequestsOK
  <1>3. QED
    BY <1>1, <1>2 DEF Locals

LEMMA ThreadStepLocals ==
  ASSUME HoldInv, NEW t \in Threads, ThreadStep(t),
         \A c \in Object : cStatus[c] = "unmade" => cStatus'[c] = "unmade"
  PROVE  Locals'
  <1>1. /\ Shape /\ LocalsOf(t) /\ Locals /\ RequestOK(t)
        /\ pc \in [Threads -> Where] /\ entry \in [Threads -> MaybeObject]
        /\ client \in [Threads -> MaybeObject] /\ parent \in [Threads -> MaybeObject]
        /\ op \in [Threads -> {"none", "create", "close", "use", "clean"}]
        /\ ref \in [Threads -> RefNum \cup {0}]
    BY DEF HoldInv, LoopInv, MapsInv, Shape, TypeOK, RequestsOK, LocalsOK, Locals
  <1>2. UNCHANGED <<fRefNum, calls>>
    BY DEF ThreadStep, CheckFails, CheckForUse, CheckPasses, SubmitRemove,
           SubmitLookup, CheckRoom, SubmitCopyName, ReleaseLocalClient,
           ReleaseLocalEntry, ReleaseLocalParent, Return, entries, request
  <1>3. \A u \in Threads \ {t} :
          /\ pc'[u] = pc[u] /\ op'[u] = op[u] /\ ref'[u] = ref[u]
          /\ client'[u] = client[u] /\ parent'[u] = parent[u] /\ entry'[u] = entry[u]
    BY <1>1 DEF ThreadStep, CheckFails, CheckForUse, CheckPasses, SubmitRemove,
           SubmitLookup, CheckRoom, SubmitCopyName, ReleaseLocalClient,
           ReleaseLocalEntry, ReleaseLocalParent, Return, Idle, Submit, request
  <1> USE DEF LocalsOf, HoldsClient, HoldsParent, HoldsNoEntry
  <1>4. CASE CheckFails(t) \/ CheckForUse(t)
    <2>1. LocalsOf(t)'
      BY <1>1, <1>4 DEF CheckFails, CheckForUse, Submit, request, entries
    <2>2. QED
      BY <1>1, <1>2, <1>3, <2>1, OneThreadLocals
  <1>5. CASE CheckPasses(t)
    <2>1. LocalsOf(t)'
      BY <1>1, <1>5 DEF CheckPasses, request, entries
    <2>2. QED
      BY <1>1, <1>2, <1>3, <2>1, OneThreadLocals
  <1>6. CASE SubmitRemove(t)
    <2>1. LocalsOf(t)'
      BY <1>1, <1>6 DEF SubmitRemove, Idle, entries
    <2>2. QED
      BY <1>1, <1>2, <1>3, <2>1, OneThreadLocals
  <1>7. CASE SubmitLookup(t)
    <2>1. LocalsOf(t)'
      BY <1>1, <1>7 DEF SubmitLookup, Submit, request, entries
    <2>2. QED
      BY <1>1, <1>2, <1>3, <2>1, OneThreadLocals
  <1>8. CASE CheckRoom(t)
    <2>1. op[t] = "create"
      BY <1>1, <1>8 DEF CheckRoom, RequestOK
    <2>2. LocalsOf(t)'
      BY <1>1, <1>8, <2>1 DEF CheckRoom, Submit, request, entries
    <2>3. QED
      BY <1>1, <1>2, <1>3, <2>2, OneThreadLocals
  <1>9. CASE SubmitCopyName(t)
    <2>1. LocalsOf(t)'
      BY <1>1, <1>9 DEF SubmitCopyName, Submit, request, entries
    <2>2. QED
      BY <1>1, <1>2, <1>3, <2>1, OneThreadLocals
  <1>10. CASE ReleaseLocalClient(t) \/ ReleaseLocalEntry(t) \/ ReleaseLocalParent(t)
    <2>1. LocalsOf(t)'
      BY <1>1, <1>10 DEF ReleaseLocalClient, ReleaseLocalEntry, ReleaseLocalParent,
         request, entries
    <2>2. QED
      BY <1>1, <1>2, <1>3, <2>1, OneThreadLocals
  <1>11. CASE Return(t)
    <2>1. LocalsOf(t)'
      BY <1>1, <1>11 DEF Return, Idle, entries
    <2>2. QED
      BY <1>1, <1>2, <1>3, <2>1, OneThreadLocals
  <1> QED
    BY <1>4, <1>5, <1>6, <1>7, <1>8, <1>9, <1>10, <1>11 DEF ThreadStep

\* The steps that release nothing, and those that release the client.
PlainStep(t) ==
  \/ CheckFails(t) \/ CheckForUse(t) \/ SubmitRemove(t) \/ SubmitLookup(t)
  \/ CheckRoom(t) \/ Return(t)
  \/ (SubmitCopyName(t) /\ client[t] = NULL)
ClientStep(t) ==
  \/ CheckPasses(t) \/ ReleaseLocalClient(t)
  \/ (SubmitCopyName(t) /\ client[t] # NULL)

LEMMA PlainStepHolds ==
  ASSUME Finite, HoldInv, LoopInv', NEW t \in Threads, ThreadStep(t), PlainStep(t)
  PROVE  HoldInv' /\ (Exact => Exact')
  <1>1. /\ Shape /\ LocalsOf(t)
        /\ pc \in [Threads -> Where] /\ entry \in [Threads -> MaybeObject]
    BY DEF HoldInv, LoopInv, MapsInv, Shape, TypeOK, RequestsOK, LocalsOK, Locals
  <1>2. UNCHANGED <<tables, entries, clients, cleanup, stack, client, parent>>
    BY DEF PlainStep, CheckFails, CheckForUse, SubmitRemove, SubmitLookup, CheckRoom, Return,
       SubmitCopyName, clients
  <1>3. ASSUME NEW u \in Threads
        PROVE  InHandOf(u)' = InHandOf(u)
    <2>1. CASE u # t
      BY <1>1, <2>1 DEF PlainStep, CheckFails, CheckForUse, SubmitRemove, SubmitLookup, CheckRoom,
         Return, SubmitCopyName, Idle, Submit, InHandOf
    <2>2. CASE u = t
      <3>1. InHandOf(t) = NULL
        BY DEF PlainStep, CheckFails, CheckForUse, SubmitRemove, SubmitLookup, CheckRoom,
           Return, SubmitCopyName, InHandOf
      <3>2. InHandOf(t)' = NULL
        BY <1>1 DEF PlainStep, CheckFails, CheckForUse, SubmitRemove, SubmitLookup, CheckRoom,
           Return, SubmitCopyName, Idle, Submit, InHandOf
      <3>3. QED
        BY <2>2, <3>1, <3>2
    <2>3. QED
      BY <2>1, <2>2
  <1>4. EntryCounts' /\ (Exact => Exact')
    BY <1>2, <1>3, EntriesUntouched DEF HoldInv, tables, entries, clients
  <1>5. Dead'
    BY <1>1, <1>2, DeadStep DEF HoldInv, StaysGone, entries
  <1>6. Made' /\ ParentsAgree'
    BY <1>2, MadeStep, ParentsStep DEF HoldInv, tables, entries
  <1>7. ClientCounts' /\ Locals'
    BY <1>2, ClientsUntouched, ThreadStepLocals DEF HoldInv, clients, tables
  <1>8. QED
    BY <1>4, <1>5, <1>6, <1>7 DEF HoldInv

LEMMA ClientStepHolds ==
  ASSUME Finite, HoldInv, LoopInv', NEW t \in Threads, ThreadStep(t), ClientStep(t)
  PROVE  HoldInv' /\ (Exact => Exact')
  <1>1. /\ Shape /\ LocalsOf(t) /\ t \in Agents
        /\ pc \in [Threads -> Where] /\ entry \in [Threads -> MaybeObject]
        /\ client \in [Threads -> MaybeObject]
    BY DEF HoldInv, LoopInv, MapsInv, Shape, TypeOK, RequestsOK, LocalsOK, Locals, Agents
  <1>2. /\ client[t] # NULL /\ ReleaseClient(t, client[t])
        /\ client' = [client EXCEPT ![t] = NULL]
        /\ UNCHANGED <<tables, entries, cSubRefs, cleanup, parent, entry>>
    BY DEF ClientStep, CheckPasses, ReleaseLocalClient, SubmitCopyName, Granted
  <1>3. ASSUME NEW u \in Threads
        PROVE  InHandOf(u)' = InHandOf(u)
    BY <1>1, <1>2 DEF ClientStep, CheckPasses, ReleaseLocalClient, SubmitCopyName, InHandOf
  <1>4. EntryCounts' /\ (Exact => Exact')
    BY <1>2, <1>3, EntriesUntouched DEF HoldInv, tables, entries
  <1>5. Dead'
    <2>1. client[t] \in Object
      BY <1>1, <1>2 DEF MaybeObject
    <2>2. QED
      BY <1>1, <1>2, <2>1, ClientFramesDead DEF entries
  <1>6. Made' /\ ParentsAgree'
    BY <1>2, MadeStep, ParentsStep DEF HoldInv, tables, entries
  <1>7. /\ ClientCounts'
        /\ \A d \in Object : cStatus'[d] = "unmade" <=> cStatus[d] = "unmade"
    BY <1>2, GivesUpClient DEF tables
  <1>8. Locals'
    BY <1>7, ThreadStepLocals
  <1>9. QED
    BY <1>4, <1>5, <1>6, <1>7, <1>8 DEF HoldInv

LEMMA ReleaseLocalEntryHolds ==
  ASSUME Finite, HoldInv, LoopInv', NEW t \in Threads, ReleaseLocalEntry(t)
  PROVE  HoldInv' /\ (Exact => Exact')
  <1> DEFINE f == entry[t]
  <1>1. /\ Shape /\ Shape' /\ t \in Agents /\ ThreadStep(t)
        /\ entry \in [Threads -> MaybeObject] /\ pc \in [Threads -> Where]
    BY DEF HoldInv, LoopInv, MapsInv, Shape, TypeOK, RequestsOK, LocalsOK, Agents,
       ThreadStep
  <1>2. /\ pc[t] = "release" /\ entry[t] # NULL /\ ReleaseEntry(t, entry[t], <<>>)
        /\ entry' = [entry EXCEPT ![t] = NULL]
        /\ UNCHANGED <<tables, fRefNum, fParentID, fSubRefs, clients, queue, cleanup,
                       request, pc, client, parent>>
    BY DEF ReleaseLocalEntry
  <1>3. f \in Object
    BY <1>1, <1>2 DEF MaybeObject
  <1>4. status[f] = "live" /\ retain[f] >= 1
    BY <1>1, <1>2, <1>3, PointedIsLive DEF HoldInv
  <1>5. ASSUME NEW e \in Object
        PROVE  Pointers(e)' = Pointers(e) - One(f, e)
    <2>1. /\ InHandOf(t) = f /\ InHandOf(t)' = NULL
          /\ \A u \in Threads \ {t} : InHandOf(u)' = InHandOf(u)
      BY <1>1, <1>2 DEF InHandOf
    <2>2. Shift(InHand(e), InHand(e)', f, NULL, e)
      BY <2>1, HandStep
    <2>3. One(NULL, e) = 0
      BY DEF One, Object, NULL
    <2>4. /\ InTable(e)' = InTable(e) /\ InClients(e)' = InClients(e)
          /\ InParents(e)' = InParents(e) /\ AsParent(e)' = AsParent(e)
      BY <1>2, Unmoved DEF tables, clients
    <2> HIDE DEF f
    <2>5. InHand(e)' = InHand(e) - One(f, e)
      BY <2>2, <2>3, EntryCounters, OneOrNone DEF Shift
    <2>6. QED
      BY <2>4, <2>5, EntryCounters, OneOrNone DEF Pointers
  <1>6. /\ EntryCounts' /\ (Exact => Exact') /\ Dead'
        /\ \A e \in Object : status'[e] = "unmade" <=> status[e] = "unmade"
    <2>1. <<>> \in Seq(Frame) /\ Elems(<<>>) = {}
      BY DEF Elems
    <2>2. ReleaseEntry(t, f, <<>>) /\ UNCHANGED cleanup
      BY <1>2
    <2> HIDE DEF f
    <2>3. QED
      BY <1>1, <1>3, <1>4, <1>5, <2>1, <2>2, Released DEF HoldInv
  <1>7. Made' /\ ParentsAgree'
    BY <1>2, <1>6, MadeStep, ParentsStep DEF HoldInv, tables
  <1>8. Locals' /\ ClientCounts'
    BY <1>1, <1>2, ThreadStepLocals, ClientsUntouched DEF HoldInv, clients, tables
  <1>9. QED
    BY <1>6, <1>7, <1>8 DEF HoldInv

LEMMA ReleaseLocalParentHolds ==
  ASSUME Finite, HoldInv, LoopInv', NEW t \in Threads, ReleaseLocalParent(t)
  PROVE  HoldInv' /\ (Exact => Exact')
  <1> DEFINE f == parent[t]
  <1>1. /\ Shape /\ Shape' /\ t \in Agents /\ ThreadStep(t)
        /\ parent \in [Threads -> MaybeObject] /\ pc \in [Threads -> Where]
    BY DEF HoldInv, LoopInv, MapsInv, Shape, TypeOK, RequestsOK, LocalsOK, Agents,
       ThreadStep
  <1>2. /\ parent[t] # NULL /\ ReleaseEntry(t, parent[t], <<>>)
        /\ parent' = [parent EXCEPT ![t] = NULL]
        /\ UNCHANGED <<tables, fRefNum, fParentID, fSubRefs, clients, queue, cleanup,
                       request, pc, client, entry>>
    BY DEF ReleaseLocalParent
  <1>3. f \in Object
    BY <1>1, <1>2 DEF MaybeObject
  <1>4. status[f] = "live" /\ retain[f] >= 1
    BY <1>1, <1>2, <1>3, PointedIsLive DEF HoldInv
  <1>5. ASSUME NEW e \in Object
        PROVE  Pointers(e)' = Pointers(e) - One(f, e)
    <2>1. parent'[t] = NULL /\ \A u \in Threads \ {t} : parent'[u] = parent[u]
      BY <1>1, <1>2
    <2>2. Shift(AsParent(e), AsParent(e)', f, NULL, e)
      BY <2>1, AsParentStep
    <2>3. One(NULL, e) = 0
      BY DEF One, Object, NULL
    <2>4. /\ InTable(e)' = InTable(e) /\ InClients(e)' = InClients(e)
          /\ InParents(e)' = InParents(e) /\ InHand(e)' = InHand(e)
      BY <1>2, Unmoved DEF tables, clients, InHandOf
    <2> HIDE DEF f
    <2>5. AsParent(e)' = AsParent(e) - One(f, e)
      BY <2>2, <2>3, EntryCounters, OneOrNone DEF Shift
    <2>6. QED
      BY <2>4, <2>5, EntryCounters, OneOrNone DEF Pointers
  <1>6. /\ EntryCounts' /\ (Exact => Exact') /\ Dead'
        /\ \A e \in Object : status'[e] = "unmade" <=> status[e] = "unmade"
    <2>1. <<>> \in Seq(Frame) /\ Elems(<<>>) = {}
      BY DEF Elems
    <2>2. ReleaseEntry(t, f, <<>>) /\ UNCHANGED cleanup
      BY <1>2
    <2> HIDE DEF f
    <2>3. QED
      BY <1>1, <1>3, <1>4, <1>5, <2>1, <2>2, Released DEF HoldInv
  <1>7. Made' /\ ParentsAgree'
    BY <1>2, <1>6, MadeStep, ParentsStep DEF HoldInv, tables
  <1>8. Locals' /\ ClientCounts'
    BY <1>1, <1>2, ThreadStepLocals, ClientsUntouched DEF HoldInv, clients, tables
  <1>9. QED
    BY <1>6, <1>7, <1>8 DEF HoldInv

LEMMA ThreadStepHolds ==
  ASSUME Finite, HoldInv, LoopInv', NEW t \in Threads, ThreadStep(t)
  PROVE  HoldInv' /\ (Exact => Exact')
  <1>1. CASE PlainStep(t)
    BY <1>1, PlainStepHolds
  <1>2. CASE ClientStep(t)
    BY <1>2, ClientStepHolds
  <1>3. CASE ReleaseLocalEntry(t)
    BY <1>3, ReleaseLocalEntryHolds
  <1>4. CASE ReleaseLocalParent(t)
    BY <1>4, ReleaseLocalParentHolds
  <1>5. SubmitCopyName(t) => PlainStep(t) \/ ClientStep(t)
    BY DEF PlainStep, ClientStep
  <1>6. PlainStep(t) \/ ClientStep(t) \/ ReleaseLocalEntry(t) \/ ReleaseLocalParent(t)
    BY <1>5 DEF ThreadStep, PlainStep, ClientStep
  <1>7. QED
    BY <1>1, <1>2, <1>3, <1>4, <1>6

-----------------------------------------------------------------------------
(***************************************************************************)
(* The blocks of fQueue.                                                   *)
(***************************************************************************)
\* What a block of a thread changes of another thread: nothing.
LEMMA BlockIsOneThreads ==
  ASSUME Shape, NEW t \in Threads,
         \/ RunVerify(t) \/ RunLookup(t) \/ RunFindClient(t) \/ RunInsert(t)
         \/ RunPlugin(t) \/ RunGetEntry(t) \/ RunClean(t) \/ FinishClean(t)
  PROVE  /\ calls' = calls
         /\ \A u \in Threads \ {t} :
              /\ pc'[u] = pc[u] /\ op'[u] = op[u] /\ ref'[u] = ref[u]
              /\ client'[u] = client[u] /\ parent'[u] = parent[u] /\ entry'[u] = entry[u]
  BY DEF RunVerify, RunLookup, RunFindClient, RunInsert, RunPlugin, RunGetEntry,
     RunClean, FinishClean, Idle, request, Shape, TypeOK, RequestsOK, LocalsOK

\* A thread takes a client, or none, into its hands.
LEMMA TakesClient ==
  ASSUME Finite, HoldInv, NEW t \in Threads, NEW c \in MaybeObject, client[t] = NULL,
         client' = [client EXCEPT ![t] = c], cRetain' = Kept(cRetain, c),
         c # NULL => cStatus[c] = "live",
         UNCHANGED <<fRefToClientEntry, fPortToClientEntry, cStatus>>
  PROVE  ClientCounts'
  <1>1. Shape /\ client \in [Threads -> MaybeObject]
    BY DEF HoldInv, LoopInv, MapsInv, Shape, TypeOK, LocalsOK
  <1>2. ASSUME NEW d \in Object
        PROVE  ClientPointers(d)' = ClientPointers(d) + One(c, d)
    <2>1. client'[t] = c /\ \A u \in Threads \ {t} : client'[u] = client[u]
      BY <1>1
    <2>2. Shift(OfThreads(d), OfThreads(d)', NULL, c, d)
      BY <2>1, ThreadsStep
    <2>3. OfNumbers(d)' = OfNumbers(d) /\ OfPorts(d)' = OfPorts(d)
      BY Unmoved
    <2>4. One(NULL, d) = 0
      BY DEF One, Object, NULL
    <2>5. QED
      BY <2>2, <2>3, <2>4, ClientCounters, OneOrNone DEF ClientPointers, Shift
  <1>3. QED
    BY <1>1, <1>2, ClientRetained DEF HoldInv

LEMMA RunVerifyHolds ==
  ASSUME Finite, HoldInv, LoopInv', NEW t \in Threads, RunVerify(t)
  PROVE  HoldInv' /\ (Exact => Exact')
  <1> DEFINE c == fRefToClientEntry[ref[t]]
  <1>1. /\ Shape /\ LocalsOf(t) /\ RequestOK(t)
        /\ pc \in [Threads -> Where] /\ client \in [Threads -> MaybeObject]
    BY DEF HoldInv, LoopInv, MapsInv, Shape, TypeOK, RequestsOK, LocalsOK, Locals
  <1>2. pc[t] = "verify" /\ ref[t] \in RefNum /\ client[t] = NULL /\ parent[t] = NULL
    BY <1>1 DEF RunVerify, Runs, RequestOK, LocalsOf, HoldsClient, HoldsParent
  <1>3. /\ client' = [client EXCEPT ![t] = c] /\ cRetain' = Kept(cRetain, c)
        /\ pc' = [pc EXCEPT ![t] = "check"]
        /\ UNCHANGED <<tables, entries, cStatus, portInfo, cSubRefs, cleanup, stack,
                       calls, op, ref, parent, entry>>
    BY DEF RunVerify
  <1>4. c \in MaybeObject /\ (c # NULL => cStatus[c] = "live")
    <2>1. c \in MaybeObject
      BY <1>1, <1>2 DEF Shape, TypeOK, TablesOK, RefMap
    <2>2. QED
      BY <1>1, <1>2, <2>1, PointedClientIsLive DEF HoldInv, MaybeObject
  <1>5. ClientCounts'
    BY <1>2, <1>3, <1>4, TakesClient DEF tables
  <1>6. EntryCounts' /\ (Exact => Exact')
    <2>1. \A u \in Threads : InHandOf(u)' = InHandOf(u)
      BY <1>1, <1>2, <1>3 DEF InHandOf
    <2>2. QED
      BY <1>3, <2>1, EntriesUntouched DEF HoldInv, tables, entries
  <1>7. Dead'
    BY <1>1, <1>3, DeadStep DEF HoldInv, StaysGone, entries
  <1>8. Made' /\ ParentsAgree'
    BY <1>3, MadeStep, ParentsStep DEF HoldInv, tables, entries
  <1>9. Locals'
    <2>1. LocalsOf(t)'
      BY <1>1, <1>2, <1>3 DEF LocalsOf, HoldsClient, HoldsParent, HoldsNoEntry
    <2>2. QED
      BY <1>1, <1>3, <2>1, OneThreadLocals, BlockIsOneThreads DEF HoldInv, entries
  <1>10. QED
    BY <1>5, <1>6, <1>7, <1>8, <1>9 DEF HoldInv

LEMMA RunLookupHolds ==
  ASSUME Finite, HoldInv, LoopInv', NEW t \in Threads, RunLookup(t)
  PROVE  HoldInv' /\ (Exact => Exact')
  <1> DEFINE p == fRefToEntry[ref[t]]
             c == fRefToClientEntry[ref[t]]
  <1>1. /\ Shape /\ Shape' /\ LocalsOf(t) /\ RequestOK(t) /\ Finite /\ MapsAgree
        /\ pc \in [Threads -> Where] /\ client \in [Threads -> MaybeObject]
        /\ parent \in [Threads -> MaybeObject] /\ entry \in [Threads -> MaybeObject]
    BY DEF HoldInv, LoopInv, MapsInv, Shape, TypeOK, RequestsOK, LocalsOK, Locals
  <1>2. /\ pc[t] = "lookup" /\ ref[t] \in RefNum /\ client[t] = NULL /\ parent[t] = NULL
        /\ op[t] = "create"
    BY <1>1 DEF RunLookup, Runs, RequestOK, LocalsOf, HoldsClient, HoldsParent
  <1>3. UNCHANGED <<tables, status, fRefNum, fParentID, fSubRefs, cStatus, portInfo,
                    cSubRefs, cleanup, stack, request>>
    BY DEF RunLookup
  <1>4. /\ p \in MaybeObject /\ c \in MaybeObject
        /\ (c # NULL => cStatus[c] = "live") /\ (p # NULL => status[p] = "live")
    <2>1. p \in MaybeObject /\ c \in MaybeObject
      BY <1>1, <1>2 DEF Shape, TypeOK, TablesOK, RefMap
    <2>2. c # NULL => cStatus[c] = "live"
      BY <1>1, <1>2, <2>1, PointedClientIsLive DEF HoldInv, MaybeObject
    <2>3. p # NULL => status[p] = "live"
      BY <1>1, <1>2, <2>1, PointedIsLive DEF HoldInv, MaybeObject
    <2>4. QED
      BY <2>1, <2>2, <2>3
  <1>5. Dead'
    BY <1>1, <1>3, DeadStep DEF HoldInv, StaysGone
  <1>6. Made' /\ ParentsAgree'
    BY <1>3, MadeStep, ParentsStep DEF HoldInv, tables
  <1>7. CASE p = NULL
    <2>1. /\ pc' = [pc EXCEPT ![t] = "release"] /\ entry' = [entry EXCEPT ![t] = NULL]
          /\ UNCHANGED <<retain, cRetain, client, parent>>
      BY <1>7 DEF RunLookup
    <2>2. \A u \in Threads : InHandOf(u)' = InHandOf(u)
      BY <1>1, <1>2, <2>1 DEF InHandOf
    <2>3. EntryCounts' /\ (Exact => Exact')
      BY <1>3, <2>1, <2>2, EntriesUntouched DEF HoldInv, tables
    <2>4. ClientCounts'
      BY <1>3, <2>1, ClientsUntouched DEF HoldInv, tables
    <2>5. LocalsOf(t)'
      BY <1>1, <1>2, <1>3, <2>1 DEF LocalsOf, HoldsClient, HoldsParent, HoldsNoEntry, request
    <2>6. Locals'
      BY <1>1, <1>3, <2>5, OneThreadLocals, BlockIsOneThreads DEF HoldInv
    <2>7. QED
      BY <1>5, <1>6, <2>3, <2>4, <2>6 DEF HoldInv
  <1>8. CASE p # NULL
    <2>1. /\ parent' = [parent EXCEPT ![t] = p] /\ retain' = Kept(retain, p)
          /\ client' = [client EXCEPT ![t] = c] /\ cRetain' = Kept(cRetain, c)
          /\ pc' = [pc EXCEPT ![t] = "room"] /\ UNCHANGED entry
      BY <1>8 DEF RunLookup
    <2>2. ClientCounts'
      BY <1>2, <1>3, <1>4, <2>1, TakesClient DEF tables
    <2>3. ASSUME NEW e \in Object
          PROVE  Pointers(e)' = Pointers(e) + One(p, e)
      <3>1. parent'[t] = p /\ \A u \in Threads \ {t} : parent'[u] = parent[u]
        BY <1>1, <2>1
      <3>2. Shift(AsParent(e), AsParent(e)', NULL, p, e)
        BY <1>2, <3>1, AsParentStep
      <3>3. One(NULL, e) = 0
        BY DEF One, Object, NULL
      <3>4. \A u \in Threads : InHandOf(u)' = InHandOf(u)
        BY <1>1, <1>2, <2>1 DEF InHandOf
      <3>5. /\ InTable(e)' = InTable(e) /\ InClients(e)' = InClients(e)
            /\ InParents(e)' = InParents(e) /\ InHand(e)' = InHand(e)
        BY <1>3, <3>4, Unmoved DEF tables
      <3> HIDE DEF p
      <3>6. AsParent(e)' = AsParent(e) + One(p, e)
        BY <3>2, <3>3, EntryCounters, OneOrNone DEF Shift
      <3>7. QED
        BY <3>5, <3>6, EntryCounters, OneOrNone DEF Pointers
    <2>4. EntryCounts' /\ (Exact => Exact')
      <3>1. retain' = Kept(retain, p) /\ UNCHANGED status
        BY <1>3, <2>1
      <3> HIDE DEF p
      <3>2. QED
        BY <1>1, <1>4, <2>3, <3>1, Retained DEF HoldInv
    <2>5. fRefNum[p] = ref[t]
      BY <1>1, <1>2, <1>8 DEF MapsAgree
    <2>6. LocalsOf(t)'
      BY <1>1, <1>2, <1>3, <2>1, <2>5
         DEF LocalsOf, HoldsClient, HoldsParent, HoldsNoEntry, request
    <2>7. Locals'
      BY <1>1, <1>3, <2>6, OneThreadLocals, BlockIsOneThreads DEF HoldInv
    <2>8. QED
      BY <1>5, <1>6, <2>2, <2>4, <2>7 DEF HoldInv
  <1>9. QED
    BY <1>7, <1>8

LEMMA RunFindClientHolds ==
  ASSUME Finite, HoldInv, LoopInv', NEW t \in Threads, RunFindClient(t)
  PROVE  HoldInv' /\ (Exact => Exact')
  <1> DEFINE c == fPortToClientEntry[PortOf[t]]
             new == entry[t]
  <1>1. /\ Shape /\ LocalsOf(t) /\ RequestOK(t) /\ NewEntries /\ PortOf[t] \in Ports
        /\ pc \in [Threads -> Where] /\ client \in [Threads -> MaybeObject]
        /\ entry \in [Threads -> MaybeObject] /\ calls \in 0..MaxCalls
        /\ fPortToClientEntry \in [Ports -> MaybeObject]
        /\ cRetain \in [Object -> Int]
        /\ cStatus \in [Object -> {"unmade", "live", "dying", "freed"}]
    BY DEF HoldInv, LoopInv, MapsInv, Shape, TypeOK, RequestsOK, LocalsOK, Locals,
       TablesOK, ClientsOK
  <1>2. /\ pc[t] = "find_client" /\ client[t] = NULL /\ parent[t] = NULL
        /\ op[t] = "create" /\ new \in Object /\ cStatus[new] = "unmade" /\ c \in MaybeObject
    BY <1>1 DEF RunFindClient, Runs, RequestOK, LocalsOf, HoldsClient, HoldsParent
  <1>3. /\ pc' = [pc EXCEPT ![t] = "room"]
        /\ UNCHANGED <<numbering, fRefToEntry, fRefToClientEntry, entries, cSubRefs,
                       cleanup, stack, request, parent, entry>>
    BY DEF RunFindClient
  <1>4. Dead'
    BY <1>1, <1>3, DeadStep DEF HoldInv, StaysGone, entries
  <1>5. Made' /\ ParentsAgree'
    BY <1>3, MadeStep, ParentsStep DEF HoldInv, entries
  <1>6. EntryCounts' /\ (Exact => Exact')
    <2>1. \A u \in Threads : InHandOf(u)' = InHandOf(u)
      BY <1>1, <1>2, <1>3 DEF InHandOf
    <2>2. QED
      BY <1>3, <2>1, EntriesUntouched DEF HoldInv, entries
  <1>7. CASE c # NULL
    <2>1. /\ client' = [client EXCEPT ![t] = c] /\ cRetain' = Kept(cRetain, c)
          /\ UNCHANGED <<cStatus, portInfo, fPortToClientEntry>>
      BY <1>7 DEF RunFindClient
    <2>2. cStatus[c] = "live"
      BY <1>1, <1>2, <1>7, PointedClientIsLive DEF HoldInv, MaybeObject
    <2>3. ClientCounts'
      BY <1>2, <1>3, <2>1, <2>2, TakesClient
    <2>4. LocalsOf(t)'
      BY <1>1, <1>2, <1>3, <2>1
         DEF LocalsOf, HoldsClient, HoldsParent, HoldsNoEntry, request
    <2>5. Locals'
      BY <1>1, <1>3, <2>1, <2>4, OneThreadLocals, BlockIsOneThreads DEF HoldInv, entries
    <2>6. QED
      BY <1>4, <1>5, <1>6, <2>3, <2>5 DEF HoldInv
  <1>8. CASE c = NULL
    <2>1. /\ client' = [client EXCEPT ![t] = new]
          /\ cRetain' = [cRetain EXCEPT ![new] = 2]
          /\ cStatus' = [cStatus EXCEPT ![new] = "live"]
          /\ fPortToClientEntry' = [fPortToClientEntry EXCEPT ![PortOf[t]] = new]
      BY <1>8 DEF RunFindClient
    <2>2. ClientPointers(new) = 0
      BY <1>2, UnmadeClientIsAlone DEF HoldInv
    <2>3. ASSUME NEW d \in Object
          PROVE  ClientPointers(d)' = ClientPointers(d) + One(new, d) + One(new, d)
      <3>1. client'[t] = new /\ \A u \in Threads \ {t} : client'[u] = client[u]
        BY <1>1, <2>1
      <3>2. Shift(OfThreads(d), OfThreads(d)', NULL, new, d)
        BY <1>2, <3>1, ThreadsStep
      <3>3. /\ fPortToClientEntry'[PortOf[t]] = new
            /\ \A q \in Ports \ {PortOf[t]} : fPortToClientEntry'[q] = fPortToClientEntry[q]
        BY <1>1, <2>1
      <3>4. Shift(OfPorts(d), OfPorts(d)', NULL, new, d)
        BY <1>1, <1>8, <3>3, PortsStep
      <3>5. One(NULL, d) = 0
        BY DEF One, Object, NULL
      <3>6. OfNumbers(d)' = OfNumbers(d)
        BY <1>3, Unmoved
      <3> HIDE DEF new
      <3>7. QED
        BY <3>2, <3>4, <3>5, <3>6, ClientCounters, OneOrNone DEF ClientPointers, Shift
    <2>4. ASSUME NEW d \in Object
          PROVE  cRetain'[d] = ClientPointers(d)' /\ (cStatus'[d] = "live" <=> cRetain'[d] >= 1)
      <3>1. CASE d = new
        <4>1. cRetain'[d] = 2 /\ cStatus'[d] = "live" /\ One(new, d) = 1
          BY <1>1, <1>2, <2>1, <3>1 DEF One
        <4>2. QED
          BY <2>2, <2>3, <3>1, <4>1
      <3>2. CASE d # new
        <4>1. cRetain'[d] = cRetain[d] /\ cStatus'[d] = cStatus[d] /\ One(new, d) = 0
          BY <1>1, <1>2, <2>1, <3>2 DEF One
        <4>2. ClientPointers(d) \in Nat
          BY ClientPointersTyped
        <4>3. QED
          BY <2>3, <4>1, <4>2 DEF HoldInv, ClientCounts
      <3>3. QED
        BY <3>1, <3>2
    <2>5. ClientCounts'
      BY <2>4 DEF ClientCounts
    <2>6. Locals'
      <3>1. Pending(t) /\ new \in 1..calls
        BY <1>1, <1>2 DEF Pending, NewEntries
      <3>2. ASSUME NEW u \in Threads, u # t
            PROVE  LocalsOf(u)'
        <4>1. pc[u] = "find_client" => Pending(u)
          BY <1>1 DEF Pending, Shape, RequestOK
        <4>2. pc[u] = "find_client" => entry[u] # new
          BY <1>1, <3>1, <3>2, <4>1 DEF NewEntries
        <4>3. /\ pc'[u] = pc[u] /\ op'[u] = op[u] /\ ref'[u] = ref[u]
              /\ client'[u] = client[u] /\ parent'[u] = parent[u] /\ entry'[u] = entry[u]
          BY <1>1, <3>2, BlockIsOneThreads
        <4>4. \A x \in Object : x # new => cStatus'[x] = cStatus[x]
          BY <1>1, <1>2, <2>1
        <4>5. LocalsOf(u) /\ UNCHANGED fRefNum
          BY <1>3 DEF HoldInv, Locals, entries
        <4>6. QED
          BY <4>2, <4>3, <4>4, <4>5 DEF LocalsOf
      <3>3. LocalsOf(t)'
        BY <1>1, <1>2, <1>3, <2>1
           DEF LocalsOf, HoldsClient, HoldsParent, HoldsNoEntry, request
      <3>4. \A x \in Object : x > calls' => cStatus'[x] = "unmade"
        <4>1. new <= calls /\ calls' = calls
          BY <1>1, <1>3, <3>1 DEF request
        <4>2. QED
          BY <1>1, <1>2, <2>1, <4>1 DEF HoldInv, Locals, Object
      <3>5. QED
        BY <3>2, <3>3, <3>4 DEF Locals
    <2>7. QED
      BY <1>4, <1>5, <1>6, <2>5, <2>6 DEF HoldInv
  <1>9. QED
    BY <1>7, <1>8

LEMMA RunPluginHolds ==
  ASSUME Finite, HoldInv, LoopInv', NEW t \in Threads, RunPlugin(t)
  PROVE  HoldInv' /\ (Exact => Exact')
  <1>1. /\ Shape /\ LocalsOf(t) /\ pc \in [Threads -> Where]
        /\ entry \in [Threads -> MaybeObject]
    BY DEF HoldInv, LoopInv, MapsInv, Shape, TypeOK, RequestsOK, LocalsOK, Locals
  <1>2. pc[t] = "plugin" /\ parent[t] = NULL /\ entry[t] = NULL
    BY <1>1 DEF RunPlugin, Runs, LocalsOf, HoldsParent, HoldsNoEntry
  <1>3. /\ pc' = [pc EXCEPT ![t] = pc'[t]] /\ pc'[t] \in {"release", "copy_name"}
        /\ UNCHANGED <<tables, entries, clients, cleanup, stack, request, client,
                       parent, entry>>
    BY <1>1 DEF RunPlugin
  <1>4. EntryCounts' /\ (Exact => Exact')
    <2>1. \A u \in Threads : InHandOf(u)' = InHandOf(u)
      BY <1>1, <1>2, <1>3 DEF InHandOf
    <2>2. QED
      BY <1>3, <2>1, EntriesUntouched DEF HoldInv, tables, entries, clients
  <1>5. Dead'
    BY <1>1, <1>3, DeadStep DEF HoldInv, StaysGone, entries
  <1>6. Made' /\ ParentsAgree'
    BY <1>3, MadeStep, ParentsStep DEF HoldInv, tables, entries
  <1>7. ClientCounts'
    BY <1>3, ClientsUntouched DEF HoldInv, tables, clients
  <1>8. Locals'
    <2>1. LocalsOf(t)'
      BY <1>1, <1>2, <1>3 DEF LocalsOf, HoldsClient, HoldsNoEntry, request
    <2>2. QED
      BY <1>1, <1>3, <2>1, OneThreadLocals, BlockIsOneThreads DEF HoldInv, entries, clients
  <1>9. QED
    BY <1>4, <1>5, <1>6, <1>7, <1>8 DEF HoldInv

LEMMA RunGetEntryHolds ==
  ASSUME Finite, HoldInv, LoopInv', NEW t \in Threads, RunGetEntry(t)
  PROVE  HoldInv' /\ (Exact => Exact')
  <1> DEFINE f == fRefToEntry[ref[t]]
  <1>1. /\ Shape /\ Shape' /\ LocalsOf(t) /\ RequestOK(t) /\ pc \in [Threads -> Where]
        /\ entry \in [Threads -> MaybeObject]
    BY DEF HoldInv, LoopInv, MapsInv, Shape, TypeOK, RequestsOK, LocalsOK, Locals
  <1>2. pc[t] = "get_entry" /\ parent[t] = NULL /\ client[t] = NULL /\ ref[t] \in RefNum
    BY <1>1 DEF RunGetEntry, Runs, LocalsOf, HoldsParent, HoldsClient, RequestOK
  <1>3. /\ entry' = [entry EXCEPT ![t] = f] /\ retain' = Kept(retain, f)
        /\ pc' = [pc EXCEPT ![t] = "release"]
        /\ UNCHANGED <<tables, status, fRefNum, fParentID, fSubRefs, clients, cleanup,
                       stack, request, client, parent>>
    BY DEF RunGetEntry
  <1>4. f \in MaybeObject /\ (f # NULL => status[f] = "live")
    <2>1. f \in MaybeObject
      BY <1>1, <1>2 DEF Shape, TypeOK, TablesOK, RefMap
    <2>2. QED
      BY <1>1, <1>2, <2>1, PointedIsLive DEF HoldInv, MaybeObject
  <1>5. ASSUME NEW e \in Object
        PROVE  Pointers(e)' = Pointers(e) + One(f, e)
    <2>1. /\ InHandOf(t) = NULL /\ InHandOf(t)' = f
          /\ \A u \in Threads \ {t} : InHandOf(u)' = InHandOf(u)
      BY <1>1, <1>2, <1>3 DEF InHandOf
    <2>2. Shift(InHand(e), InHand(e)', NULL, f, e)
      BY <2>1, HandStep
    <2>3. One(NULL, e) = 0
      BY DEF One, Object, NULL
    <2>4. /\ InTable(e)' = InTable(e) /\ InClients(e)' = InClients(e)
          /\ InParents(e)' = InParents(e) /\ AsParent(e)' = AsParent(e)
      BY <1>3, Unmoved DEF tables, clients
    <2> HIDE DEF f
    <2>5. InHand(e)' = InHand(e) + One(f, e)
      BY <2>2, <2>3, EntryCounters, OneOrNone DEF Shift
    <2>6. QED
      BY <2>4, <2>5, EntryCounters, OneOrNone DEF Pointers
  <1>6. EntryCounts' /\ (Exact => Exact')
    <2>1. retain' = Kept(retain, f) /\ UNCHANGED status
      BY <1>3
    <2> HIDE DEF f
    <2>2. QED
      BY <1>1, <1>4, <1>5, <2>1, Retained DEF HoldInv
  <1>7. Dead'
    BY <1>1, <1>3, DeadStep DEF HoldInv, StaysGone
  <1>8. Made' /\ ParentsAgree'
    BY <1>3, MadeStep, ParentsStep DEF HoldInv, tables
  <1>9. ClientCounts'
    BY <1>3, ClientsUntouched DEF HoldInv, tables, clients
  <1>10. Locals'
    <2>1. LocalsOf(t)'
      BY <1>1, <1>2, <1>3 DEF LocalsOf, HoldsClient, HoldsParent, HoldsNoEntry, request
    <2>2. QED
      BY <1>1, <1>3, <2>1, OneThreadLocals, BlockIsOneThreads DEF HoldInv, clients
  <1>11. QED
    BY <1>6, <1>7, <1>8, <1>9, <1>10 DEF HoldInv

\* A frame put on the queue's own stack for a client.
LEMMA WorkerFrameDead ==
  ASSUME HoldInv, NEW c \in Object, stack' = [stack EXCEPT ![Worker] = <<ClientFrame(c)>>],
         UNCHANGED <<status, cleanup>>
  PROVE  Dead'
  <1>1. Shape /\ stack \in [Agents -> Seq(Frame)] /\ Worker \in Agents
    BY DEF HoldInv, LoopInv, MapsInv, Shape, TypeOK, QueuesOK, Agents
  <1>2. ClientFrame(c).kind # "entry"
    BY DEF ClientFrame
  <1> HIDE DEF Worker
  <1>3. ASSUME NEW b \in Agents, NEW x \in Elems(stack'[b])
        PROVE  x \in Elems(stack[b]) \/ x.kind # "entry"
    <2>1. CASE b # Worker
      BY <1>1, <1>3, <2>1
    <2>2. CASE b = Worker
      <3>1. stack'[b] = <<ClientFrame(c)>>
        BY <1>1, <2>2
      <3>2. x = ClientFrame(c)
        BY <1>3, <3>1 DEF Elems
      <3>3. QED
        BY <1>2, <3>2
    <2>3. QED
      BY <2>1, <2>2
  <1>4. QED
    BY <1>1, <1>3, DeadStep DEF HoldInv, StaysGone

LEMMA RunCleanHolds ==
  ASSUME Finite, HoldInv, LoopInv', NEW t \in Threads, RunClean(t)
  PROVE  HoldInv' /\ (Exact => Exact')
  <1> DEFINE p == PortOf[t]
             c == fPortToClientEntry[p]
  <1>1. /\ Shape /\ LocalsOf(t) /\ p \in Ports
        /\ pc \in [Threads -> Where] /\ client \in [Threads -> MaybeObject]
        /\ entry \in [Threads -> MaybeObject]
        /\ fPortToClientEntry \in [Ports -> MaybeObject]
        /\ op \in [Threads -> {"none", "create", "close", "use", "clean"}]
        /\ ref \in [Threads -> RefNum \cup {0}]
    BY DEF HoldInv, LoopInv, MapsInv, Shape, TypeOK, RequestsOK, LocalsOK, Locals,
       TablesOK
  <1>2. pc[t] = "clean" /\ client[t] = NULL /\ parent[t] = NULL /\ entry[t] = NULL
    BY <1>1 DEF RunClean, Runs, LocalsOf, HoldsClient, HoldsParent, HoldsNoEntry
  <1>3. /\ UNCHANGED <<numbering, fRefToEntry, fRefToClientEntry, entries, clients,
                       cleanup, calls, parent, entry>>
        /\ pc' = [pc EXCEPT ![t] = pc'[t]] /\ pc'[t] \in {"idle", "cleaning"}
    BY <1>1 DEF RunClean, Idle
  <1>4. EntryCounts' /\ (Exact => Exact')
    <2>1. \A u \in Threads : InHandOf(u)' = InHandOf(u)
      BY <1>1, <1>2, <1>3 DEF InHandOf
    <2>2. QED
      BY <1>3, <2>1, EntriesUntouched DEF HoldInv, entries, clients
  <1>5. Made' /\ ParentsAgree'
    BY <1>3, MadeStep, ParentsStep DEF HoldInv, entries
  <1>6. CASE c = NULL
    <2>1. Idle(t) /\ UNCHANGED <<fPortToClientEntry, stack, client>>
      BY <1>6 DEF RunClean
    <2>2. ClientCounts'
      BY <1>3, <2>1, ClientsUntouched DEF HoldInv, clients
    <2>3. Dead'
      BY <1>1, <1>3, <2>1, DeadStep DEF HoldInv, StaysGone, entries
    <2>4. LocalsOf(t)'
      BY <1>1, <1>2, <1>3, <2>1
         DEF LocalsOf, HoldsClient, HoldsParent, HoldsNoEntry, Idle
    <2>5. Locals'
      BY <1>1, <1>3, <2>4, OneThreadLocals, BlockIsOneThreads DEF HoldInv, entries, clients
    <2>6. QED
      BY <1>4, <1>5, <2>2, <2>3, <2>5 DEF HoldInv
  <1>7. CASE c # NULL
    <2>1. /\ fPortToClientEntry' = [fPortToClientEntry EXCEPT ![p] = NULL]
          /\ stack' = [stack EXCEPT ![Worker] = <<ClientFrame(c)>>]
          /\ client' = [client EXCEPT ![t] = c]
          /\ pc' = [pc EXCEPT ![t] = "cleaning"]
          /\ UNCHANGED <<op, ref>>
      BY <1>7 DEF RunClean
    <2>2. c \in Object
      BY <1>1, <1>7 DEF MaybeObject
    <2>3. ASSUME NEW d \in Object
          PROVE  ClientPointers(d)' = ClientPointers(d)
      <3>1. client'[t] = c /\ \A u \in Threads \ {t} : client'[u] = client[u]
        BY <1>1, <2>1
      <3>2. Shift(OfThreads(d), OfThreads(d)', NULL, c, d)
        BY <1>2, <3>1, ThreadsStep
      <3>3. /\ fPortToClientEntry'[p] = NULL
            /\ \A q \in Ports \ {p} : fPortToClientEntry'[q] = fPortToClientEntry[q]
        BY <1>1, <2>1
      <3>4. Shift(OfPorts(d), OfPorts(d)', c, NULL, d)
        BY <1>1, <3>3, PortsStep
      <3>5. One(NULL, d) = 0
        BY DEF One, Object, NULL
      <3>6. OfNumbers(d)' = OfNumbers(d)
        BY <1>3, Unmoved
      <3> HIDE DEF c
      <3>7. QED
        BY <3>2, <3>4, <3>5, <3>6, ClientCounters, OneOrNone DEF ClientPointers, Shift
    <2>4. ClientCounts'
      BY <1>3, <2>3 DEF HoldInv, ClientCounts, clients
    <2>5. Dead'
      BY <1>3, <2>1, <2>2, WorkerFrameDead DEF entries
    <2>6. LocalsOf(t)'
      BY <1>1, <1>2, <1>3, <2>1
         DEF LocalsOf, HoldsClient, HoldsParent, HoldsNoEntry
    <2>7. Locals'
      BY <1>1, <1>3, <2>6, OneThreadLocals, BlockIsOneThreads DEF HoldInv, entries, clients
    <2>8. QED
      BY <1>4, <1>5, <2>4, <2>5, <2>7 DEF HoldInv
  <1>8. QED
    BY <1>6, <1>7

LEMMA FinishCleanHolds ==
  ASSUME Finite, HoldInv, LoopInv', NEW t \in Threads, FinishClean(t)
  PROVE  HoldInv' /\ (Exact => Exact')
  <1> DEFINE c == client[t]
  <1>1. /\ Shape /\ LocalsOf(t) /\ Worker \in Agents
        /\ pc \in [Threads -> Where] /\ client \in [Threads -> MaybeObject]
        /\ entry \in [Threads -> MaybeObject]
        /\ stack \in [Agents -> Seq(Frame)]
        /\ op \in [Threads -> {"none", "create", "close", "use", "clean"}]
        /\ ref \in [Threads -> RefNum \cup {0}]
    BY DEF HoldInv, LoopInv, MapsInv, Shape, TypeOK, RequestsOK, LocalsOK, Locals,
       QueuesOK, Agents
  <1>2. /\ pc[t] = "cleaning" /\ stack[Worker] # <<>> /\ c = Head(stack[Worker]).obj
        /\ cStatus[c] = "live" /\ cRetain' = [cRetain EXCEPT ![c] = @ - 1]
        /\ cStatus' = IF cRetain[c] = 1 THEN [cStatus EXCEPT ![c] = "dying"] ELSE cStatus
        /\ stack' = IF cRetain[c] = 1 THEN stack ELSE [stack EXCEPT ![Worker] = Tail(@)]
        /\ client' = [client EXCEPT ![t] = NULL]
        /\ Idle(t)
        /\ UNCHANGED <<tables, entries, portInfo, cSubRefs, queue, cleanup, calls,
                       requests, parent, entry>>
    BY DEF FinishClean, TopIs
  <1>3. parent[t] = NULL /\ entry[t] = NULL
    BY <1>1, <1>2 DEF LocalsOf, HoldsParent, HoldsNoEntry
  <1>4. c \in Object
    BY <1>1, <1>2, FramesTyped
  <1>5. cStatus[c] = "live" /\ cRetain[c] >= 1
    BY <1>1, <1>4, PointedClientIsLive DEF HoldInv
  <1>6. ASSUME NEW d \in Object
        PROVE  ClientPointers(d)' = ClientPointers(d) - One(c, d)
    <2>1. client'[t] = NULL /\ \A u \in Threads \ {t} : client'[u] = client[u]
      BY <1>1, <1>2
    <2>2. Shift(OfThreads(d), OfThreads(d)', c, NULL, d)
      BY <2>1, ThreadsStep
    <2>3. OfNumbers(d)' = OfNumbers(d) /\ OfPorts(d)' = OfPorts(d)
      BY <1>2, Unmoved DEF tables
    <2>4. One(NULL, d) = 0
      BY DEF One, Object, NULL
    <2> HIDE DEF c
    <2>5. QED
      BY <2>2, <2>3, <2>4, ClientCounters, OneOrNone DEF ClientPointers, Shift
  <1>7. /\ ClientCounts'
        /\ \A d \in Object : cStatus'[d] = "unmade" <=> cStatus[d] = "unmade"
    <2>1. /\ cRetain' = [cRetain EXCEPT ![c] = @ - 1]
          /\ cStatus' = IF cRetain[c] = 1 THEN [cStatus EXCEPT ![c] = "dying"] ELSE cStatus
      BY <1>2
    <2> HIDE DEF c
    <2>2. QED
      BY <1>1, <1>4, <1>5, <1>6, <2>1, ClientReleased DEF HoldInv
  <1>8. EntryCounts' /\ (Exact => Exact')
    <2>1. \A u \in Threads : InHandOf(u)' = InHandOf(u)
      BY <1>1, <1>2, <1>3 DEF InHandOf, Idle
    <2>2. QED
      BY <1>2, <2>1, EntriesUntouched DEF HoldInv, tables, entries
  <1>9. Dead'
    <2>1. \A b \in Agents : Elems(stack'[b]) \subseteq Elems(stack[b])
      BY <1>1, <1>2, ElemsTail
    <2>2. QED
      BY <1>1, <1>2, <2>1, DeadStep DEF HoldInv, StaysGone, entries
  <1>10. Made' /\ ParentsAgree'
    BY <1>2, MadeStep, ParentsStep DEF HoldInv, tables, entries
  <1>11. Locals'
    <2>1. LocalsOf(t)'
      BY <1>1, <1>2, <1>3 DEF LocalsOf, HoldsParent, HoldsNoEntry, Idle
    <2>2. QED
      BY <1>1, <1>2, <1>7, <2>1, OneThreadLocals, BlockIsOneThreads DEF HoldInv, entries
  <1>12. QED
    BY <1>7, <1>8, <1>9, <1>10, <1>11 DEF HoldInv

-----------------------------------------------------------------------------
\* The insertion, with the number n it gives to the entry.
Under(t, x) == IF parent[t] # NULL THEN x ELSE NULL
Inserts(t, n) ==
  /\ fRefToEntry[n] = NULL
  /\ fRefToEntry' = [fRefToEntry EXCEPT ![n] = entry[t]]
  /\ fRefToClientEntry' = [fRefToClientEntry EXCEPT ![n] = client[t]]
  /\ status' = [status EXCEPT ![entry[t]] = "live"]
  /\ fRefNum' = [fRefNum EXCEPT ![entry[t]] = n]
  /\ fParentID' = [fParentID EXCEPT ![entry[t]] = ref[t]]
  /\ retain' = [retain EXCEPT ![entry[t]] = IF parent[t] # NULL THEN 4 ELSE 3]
  /\ cSubRefs' = [cSubRefs EXCEPT ![client[t]][n] = entry[t]]
  /\ cRetain' = Kept(cRetain, client[t])
  /\ fSubRefs' = IF parent[t] # NULL THEN [fSubRefs EXCEPT ![parent[t]][n] = entry[t]]
                                     ELSE fSubRefs
  /\ pc' = [pc EXCEPT ![t] = "release"]
  /\ UNCHANGED <<fPortToClientEntry, cStatus, portInfo, cleanup, stack, request,
                 client, parent, entry>>

\* What is known of the thread's new entry, its client and its parent.
Ready(t) ==
  /\ pc[t] = "insert"
  /\ entry[t] \in Object /\ fRefNum[entry[t]] = 0 /\ status[entry[t]] = "unmade"
  /\ client[t] \in Object /\ cStatus[client[t]] = "live"
  /\ parent[t] \in MaybeObject
  /\ parent[t] # NULL => /\ fRefNum[parent[t]] = ref[t] /\ fRefNum[parent[t]] # 0
                         /\ parent[t] # entry[t]

LEMMA InsertReady ==
  ASSUME Finite, HoldInv, NEW t \in Threads, RunInsert(t)
  PROVE  Ready(t)
  <1>1. /\ Shape /\ NewEntries /\ ForAClient /\ LocalsOf(t) /\ RequestOK(t)
        /\ client[t] \in MaybeObject /\ parent[t] \in MaybeObject /\ calls \in 0..MaxCalls
    BY DEF HoldInv, LoopInv, MapsInv, Shape, TypeOK, RequestsOK, LocalsOK, Locals
  <1>2. pc[t] = "insert"
    BY DEF RunInsert, Runs
  <1>3. entry[t] \in Object /\ fRefNum[entry[t]] = 0
    <2>1. Pending(t)
      BY <1>1, <1>2 DEF Pending, RequestOK
    <2>2. QED
      BY <1>1, <2>1 DEF NewEntries, Object
  <1>4. status[entry[t]] = "unmade"
    BY <1>3 DEF HoldInv, Made
  <1>5. client[t] \in Object
    BY <1>1, <1>2 DEF ForAClient, MaybeObject
  <1>6. cStatus[client[t]] = "live"
    BY <1>1, <1>5, PointedClientIsLive DEF HoldInv
  <1>7. parent[t] # NULL => /\ fRefNum[parent[t]] = ref[t] /\ fRefNum[parent[t]] # 0
                            /\ parent[t] # entry[t]
    <2>1. SUFFICES ASSUME parent[t] # NULL
                   PROVE  /\ fRefNum[parent[t]] = ref[t] /\ fRefNum[parent[t]] # 0
                          /\ parent[t] # entry[t]
      OBVIOUS
    <2>2. parent[t] \in Object
      BY <1>1, <2>1 DEF MaybeObject
    <2>3. status[parent[t]] = "live"
      BY <1>1, <2>2, PointedIsLive DEF HoldInv
    <2>4. fRefNum[parent[t]] # 0
      BY <2>2, <2>3 DEF HoldInv, Made
    <2>5. QED
      BY <1>1, <1>3, <2>1, <2>4 DEF LocalsOf
  <1>8. QED
    BY <1>1, <1>2, <1>3, <1>4, <1>5, <1>6, <1>7 DEF Ready

LEMMA InsertNumber ==
  ASSUME Finite, HoldInv, NEW t \in Threads, RunInsert(t)
  PROVE  \E n \in RefNum : Inserts(t, n)
  <1>1. Ready(t)
    BY InsertReady
  <1>2. /\ Shape /\ fNextIndex \in 0..(IndexSpace - 1) /\ type[t] \in RefType
    BY DEF HoldInv, LoopInv, MapsInv, Shape, TypeOK, TablesOK, RunInsert, Runs, RequestOK
  <1>3. client[t] # NULL
    BY <1>1 DEF Ready, Object, NULL
  <1>4. PICK k \in 0..(IndexSpace - 1) :
          LET n == type[t] * IndexSpace + Probe(k)
          IN /\ fRefToEntry[n] = NULL
             /\ fRefToEntry' = [fRefToEntry EXCEPT ![n] = entry[t]]
             /\ fRefToClientEntry' = [fRefToClientEntry EXCEPT ![n] = client[t]]
             /\ status' = [status EXCEPT ![entry[t]] = "live"]
             /\ fRefNum' = [fRefNum EXCEPT ![entry[t]] = n]
             /\ fParentID' = [fParentID EXCEPT ![entry[t]] = ref[t]]
             /\ retain' = [retain EXCEPT ![entry[t]] =
                             2 + (IF client[t] # NULL THEN 1 ELSE 0)
                               + (IF parent[t] # NULL THEN 1 ELSE 0)]
             /\ cSubRefs' = IF client[t] # NULL
                              THEN [cSubRefs EXCEPT ![client[t]][n] = entry[t]]
                              ELSE cSubRefs
             /\ cRetain' = Kept(cRetain, client[t])
             /\ fSubRefs' = IF parent[t] # NULL
                              THEN [fSubRefs EXCEPT ![parent[t]][n] = entry[t]]
                              ELSE fSubRefs
    BY DEF RunInsert, IsLeast, FreeProbes
  <1> DEFINE n == type[t] * IndexSpace + Probe(k)
  <1>5. n \in RefNum
    BY <1>2, ProbeFacts, RefNumFacts
  <1>6. /\ pc' = [pc EXCEPT ![t] = "release"]
        /\ UNCHANGED <<fPortToClientEntry, cStatus, portInfo, cleanup, stack, request,
                       client, parent, entry>>
    BY DEF RunInsert
  <1>7. 2 + (IF client[t] # NULL THEN 1 ELSE 0) + (IF parent[t] # NULL THEN 1 ELSE 0)
          = IF parent[t] # NULL THEN 4 ELSE 3
    BY <1>3
  <1>8. /\ fRefToEntry[n] = NULL
        /\ fRefToEntry' = [fRefToEntry EXCEPT ![n] = entry[t]]
        /\ fRefToClientEntry' = [fRefToClientEntry EXCEPT ![n] = client[t]]
        /\ fRefNum' = [fRefNum EXCEPT ![entry[t]] = n]
        /\ cSubRefs' = [cSubRefs EXCEPT ![client[t]][n] = entry[t]]
        /\ fSubRefs' = IF parent[t] # NULL THEN [fSubRefs EXCEPT ![parent[t]][n] = entry[t]]
                                           ELSE fSubRefs
    BY <1>3, <1>4
  <1>9. /\ status' = [status EXCEPT ![entry[t]] = "live"]
        /\ fParentID' = [fParentID EXCEPT ![entry[t]] = ref[t]]
        /\ retain' = [retain EXCEPT ![entry[t]] = IF parent[t] # NULL THEN 4 ELSE 3]
        /\ cRetain' = Kept(cRetain, client[t])
    BY <1>4, <1>7
  <1> HIDE DEF n
  <1>10. Inserts(t, n)
    BY <1>6, <1>8, <1>9 DEF Inserts
  <1>11. QED
    BY <1>5, <1>10

\* As long as no index is used again, the parent's list has nothing there.
LEMMA NothingOverwritten ==
  ASSUME Finite, HoldInv, LoopInv', NEW t \in Threads, Ready(t), NEW n \in RefNum,
         Inserts(t, n), NoIndexRecycled', parent[t] # NULL
  PROVE  fSubRefs[parent[t]][n] = NULL
  <1> DEFINE e == entry[t]
             g == fSubRefs[parent[t]][n]
  <1>1. /\ Shape /\ fSubRefs \in [Object -> RefMap]
        /\ fRefToEntry \in RefMap /\ fRefNum \in [Object -> RefNum \cup {0}]
    BY DEF HoldInv, LoopInv, MapsInv, Shape, TypeOK, TablesOK, EntriesOK
  <1>2. e \in Object /\ fRefNum[e] = 0 /\ parent[t] \in Object
    BY DEF Ready, MaybeObject
  <1>3. SUFFICES ASSUME g # NULL PROVE FALSE
    OBVIOUS
  <1>4. g \in Object /\ fRefNum[g] = n /\ n # 0
    BY <1>1, <1>2, <1>3, RefNumFacts
       DEF HoldInv, LoopInv, Noted, ListsNoted, RefMap, MaybeObject
  <1>5. g # e /\ fRefNum'[g] = n /\ fRefNum'[e] = n /\ fRefToEntry'[n] = e /\ e # NULL
    BY <1>1, <1>2, <1>4 DEF Inserts, RefMap, Object, NULL
  <1>6. Spaced' /\ Counted' /\ tried' \in Nat
    BY DEF LoopInv, MapsInv, Shape, TypeOK, TablesOK
  <1>7. born'[e] - born'[g] >= IndexSpace
    BY <1>4, <1>5, <1>6 DEF Spaced
  <1>8. born'[e] \in 1..tried' /\ born'[g] \in 1..tried'
    BY <1>2, <1>4, <1>5, <1>6 DEF Counted
  <1>9. tried' <= IndexSpace
    BY DEF NoIndexRecycled
  <1> HIDE DEF e, g
  <1>10. QED
    BY <1>6, <1>7, <1>8, <1>9

\* The pointers before and after: the table, the client's list and the thread
\* have the entry now, and so has the parent, in the place of g or of nothing.
LEMMA InsertPointers ==
  ASSUME Finite, HoldInv, NEW t \in Threads, Ready(t), NEW n \in RefNum,
         Inserts(t, n), NEW x \in Object
  PROVE  Pointers(x)' = Pointers(x) + 3 * One(entry[t], x) + One(Under(t, entry[t]), x)
                          - One(Under(t, fSubRefs[parent[t]][n]), x)
  <1> DEFINE e == entry[t]
             c == client[t]
             q == Under(t, e)
             g == Under(t, fSubRefs[parent[t]][n])
  <1>1. /\ Shape /\ MapsAgree /\ fSubRefs \in [Object -> RefMap]
        /\ cSubRefs \in [Object -> RefMap]
        /\ fRefToEntry \in RefMap /\ pc \in [Threads -> Where]
    BY DEF HoldInv, LoopInv, MapsInv, Shape, TypeOK, TablesOK, EntriesOK, ClientsOK,
       RequestsOK
  <1>2. e \in Object /\ c \in Object /\ pc[t] = "insert"
        /\ parent[t] \in MaybeObject /\ One(NULL, x) = 0
    BY DEF Ready, One, Object, NULL
  <1>3. Shift(InTable(x), InTable(x)', NULL, e, x)
    <2>1. /\ fRefToEntry[n] = NULL /\ fRefToEntry'[n] = e
          /\ \A m \in RefNum \ {n} : fRefToEntry'[m] = fRefToEntry[m]
      BY <1>1 DEF Inserts, RefMap
    <2>2. QED
      BY <2>1, TableStep
  <1>4. Shift(InClients(x), InClients(x)', NULL, e, x)
    <2>1. cSubRefs[c][n] = NULL
      BY <1>1, <1>2 DEF Inserts, MapsAgree
    <2>2. /\ cSubRefs'[c][n] = e
          /\ \A o \in Object, m \in RefNum : ~(o = c /\ m = n) => cSubRefs'[o][m] = cSubRefs[o][m]
      BY <1>1, <1>2 DEF Inserts, RefMap
    <2>3. QED
      BY <1>2, <2>1, <2>2, ClientListStep
  <1>5. Shift(InHand(x), InHand(x)', NULL, e, x)
    <2>1. /\ InHandOf(t) = NULL /\ InHandOf(t)' = e
          /\ \A u \in Threads \ {t} : InHandOf(u)' = InHandOf(u)
      BY <1>1, <1>2 DEF Inserts, InHandOf
    <2>2. QED
      BY <2>1, HandStep
  <1>6. AsParent(x)' = AsParent(x)
    BY Unmoved DEF Inserts
  <1>7. Shift(InParents(x), InParents(x)', g, q, x)
    <2>1. CASE parent[t] = NULL
      <3>1. g = NULL /\ q = NULL /\ InParents(x)' = InParents(x)
        BY <2>1, Unmoved DEF Inserts, Under
      <3>2. InParents(x) \in Int
        BY EntryCounters
      <3> HIDE DEF g, q
      <3>3. QED
        BY <1>2, <3>1, <3>2 DEF Shift
    <2>2. CASE parent[t] # NULL
      <3> DEFINE p == parent[t]
      <3>1. p \in Object /\ g = fSubRefs[p][n] /\ q = e
        BY <1>2, <2>2 DEF Under, MaybeObject
      <3>2. /\ fSubRefs'[p][n] = e
            /\ \A o \in Object, m \in RefNum : ~(o = p /\ m = n) => fSubRefs'[o][m] = fSubRefs[o][m]
        BY <1>1, <1>2, <2>2, <3>1 DEF Inserts, RefMap
      <3> HIDE DEF p, g, q
      <3>3. Shift(InParents(x), InParents(x)', fSubRefs[p][n], fSubRefs'[p][n], x)
        BY <3>1, <3>2, ParentListStep
      <3>4. QED
        BY <3>1, <3>2, <3>3
    <2>3. QED
      BY <2>1, <2>2
  <1>8. /\ One(e, x) \in Int /\ One(q, x) \in Int /\ One(g, x) \in Int
        /\ InTable(x) \in Int /\ InClients(x) \in Int /\ InParents(x) \in Int
        /\ InHand(x) \in Int /\ AsParent(x) \in Int
    BY EntryCounters, OneOrNone
  <1> HIDE DEF e, q, g
  <1>9. /\ InTable(x)' = InTable(x) + One(e, x) /\ InClients(x)' = InClients(x) + One(e, x)
        /\ InHand(x)' = InHand(x) + One(e, x)
        /\ InParents(x)' = InParents(x) - One(g, x) + One(q, x)
    BY <1>2, <1>3, <1>4, <1>5, <1>7, <1>8 DEF Shift
  <1>10. Pointers(x)' = Pointers(x) + 3 * One(e, x) + One(q, x) - One(g, x)
    BY <1>6, <1>8, <1>9 DEF Pointers
  <1>11. QED
    BY <1>10 DEF e, q, g

LEMMA InsertCounts ==
  ASSUME Finite, HoldInv, LoopInv', NEW t \in Threads, Ready(t), NEW n \in RefNum,
         Inserts(t, n)
  PROVE  EntryCounts' /\ (Exact /\ NoIndexRecycled' => Exact')
  <1>0. PICK e \in Object : e = entry[t]
    BY DEF Ready
  <1> DEFINE q == Under(t, e)
             g == Under(t, fSubRefs[parent[t]][n])
  <1>1. /\ Shape /\ retain \in [Object -> Int] /\ fSubRefs \in [Object -> RefMap]
        /\ status \in [Object -> {"unmade", "live", "dying", "freed", "closed"}]
    BY DEF HoldInv, LoopInv, MapsInv, Shape, TypeOK, EntriesOK
  <1>2. e \in Object /\ e # NULL /\ parent[t] \in MaybeObject /\ status[e] = "unmade"
    BY <1>0 DEF Ready, Object, NULL
  <1>3. /\ retain' = [retain EXCEPT ![e] = IF parent[t] # NULL THEN 4 ELSE 3]
        /\ status' = [status EXCEPT ![e] = "live"]
    BY <1>0 DEF Inserts
  <1>4. Pointers(e) = 0
    BY <1>0, <1>1, UnmadeIsAlone DEF HoldInv, Ready
  <1>5. g # e
    <2>1. CASE parent[t] = NULL
      BY <1>2, <2>1 DEF Under
    <2>2. CASE parent[t] # NULL
      <3>1. parent[t] \in Object /\ g = fSubRefs[parent[t]][n]
        BY <1>2, <2>2 DEF MaybeObject, Under
      <3>2. g \in Object => status[g] = "live"
        BY <1>1, <3>1, PointedIsLive DEF HoldInv
      <3>3. QED
        BY <1>2, <3>2
    <2>3. QED
      BY <2>1, <2>2
  <1>6. retain'[e] = 3 + One(q, e)
    BY <1>1, <1>2, <1>3 DEF Under, One
  <1>7. \A x \in Object : x # e => retain'[x] = retain[x] /\ status'[x] = status[x]
    BY <1>1, <1>3
  <1>8. One(e, e) = 1 /\ One(g, e) = 0
    BY <1>5 DEF One
  <1>9. \A x \in Object : x # e => One(e, x) = 0 /\ One(q, x) = 0
    BY <1>2 DEF One, Under, Object, NULL
  <1>10. /\ \A x \in Object : One(g, x) \in 0..1 /\ Pointers(x) \in Nat /\ retain[x] \in Int
         /\ One(q, e) \in 0..1
    BY <1>1, OneOrNone, PointersTyped
  <1>11. \A x \in Object :
           Pointers(x)' = Pointers(x) + 3 * One(e, x) + One(q, x) - One(g, x)
    BY <1>0, InsertPointers
  <1>12. status'[e] = "live"
    BY <1>1, <1>2, <1>3
  <1>13. NoIndexRecycled' => \A x \in Object : One(g, x) = 0
    <2>1. SUFFICES ASSUME NoIndexRecycled', NEW x \in Object PROVE One(g, x) = 0
      OBVIOUS
    <2>2. g = NULL
      <3>1. CASE parent[t] = NULL
        BY <3>1 DEF Under
      <3>2. CASE parent[t] # NULL
        BY <2>1, <3>2, NothingOverwritten DEF Under
      <3>3. QED
        BY <3>1, <3>2
    <2>3. QED
      BY <2>2 DEF One, Object, NULL
  <1> HIDE DEF q, g
  <1>14. Pointers(e)' = 3 + One(q, e) /\ retain'[e] = Pointers(e)' /\ retain'[e] >= 1
    <2>1. Pointers(e)' = Pointers(e) + 3 * One(e, e) + One(q, e) - One(g, e)
      BY <1>11
    <2>2. QED
      BY <1>4, <1>6, <1>8, <1>10, <2>1
  <1>15. ASSUME NEW x \in Object, x # e
         PROVE  Pointers(x)' = Pointers(x) - One(g, x)
    <2>1. Pointers(x)' = Pointers(x) + 3 * One(e, x) + One(q, x) - One(g, x)
      BY <1>11
    <2>2. One(e, x) = 0 /\ One(q, x) = 0 /\ One(g, x) \in 0..1 /\ Pointers(x) \in Nat
      BY <1>9, <1>10, <1>15
    <2>3. QED
      BY <2>1, <2>2
  <1>16. ASSUME NEW x \in Object
         PROVE  retain'[x] >= Pointers(x)' /\ (status'[x] = "live" <=> retain'[x] >= 1)
    <2>1. CASE x = e
      BY <1>10, <1>12, <1>14, <2>1
    <2>2. CASE x # e
      <3>1. /\ Pointers(x)' = Pointers(x) - One(g, x) /\ retain'[x] = retain[x]
            /\ status'[x] = status[x]
        BY <1>7, <1>15, <2>2
      <3>2. retain[x] >= Pointers(x) /\ (status[x] = "live" <=> retain[x] >= 1)
        BY DEF HoldInv, EntryCounts
      <3>3. QED
        BY <1>10, <3>1, <3>2
    <2>3. QED
      BY <2>1, <2>2
  <1>17. ASSUME Exact, NoIndexRecycled', NEW x \in Object
         PROVE  retain'[x] = Pointers(x)'
    <2>1. CASE x = e
      BY <1>14, <2>1
    <2>2. CASE x # e
      <3>1. /\ Pointers(x)' = Pointers(x) - One(g, x) /\ retain'[x] = retain[x]
            /\ One(g, x) = 0 /\ retain[x] = Pointers(x)
        BY <1>7, <1>13, <1>15, <1>17, <2>2 DEF Exact
      <3>2. QED
        BY <1>10, <3>1
    <2>3. QED
      BY <2>1, <2>2
  <1>18. QED
    BY <1>16, <1>17 DEF EntryCounts, Exact

LEMMA InsertClients ==
  ASSUME Finite, HoldInv, NEW t \in Threads, Ready(t), NEW n \in RefNum, Inserts(t, n)
  PROVE  ClientCounts'
  <1>1. /\ Shape /\ MapsAgree /\ fRefToClientEntry \in RefMap
    BY DEF HoldInv, LoopInv, MapsInv, Shape, TypeOK, TablesOK
  <1>2. PICK c \in Object : c = client[t] /\ cStatus[c] = "live"
    BY DEF Ready
  <1>3. ASSUME NEW d \in Object
        PROVE  ClientPointers(d)' = ClientPointers(d) + One(c, d)
    <2>1. /\ fRefToClientEntry[n] = NULL /\ fRefToClientEntry'[n] = c
          /\ \A m \in RefNum \ {n} : fRefToClientEntry'[m] = fRefToClientEntry[m]
      BY <1>1, <1>2 DEF Inserts, MapsAgree, RefMap
    <2>2. Shift(OfNumbers(d), OfNumbers(d)', NULL, c, d)
      BY <2>1, NumbersStep
    <2>3. OfThreads(d)' = OfThreads(d) /\ OfPorts(d)' = OfPorts(d)
      BY Unmoved DEF Inserts
    <2>4. One(NULL, d) = 0
      BY DEF One, Object, NULL
    <2>5. QED
      BY <2>2, <2>3, <2>4, ClientCounters, OneOrNone DEF ClientPointers, Shift
  <1>4. cRetain' = Kept(cRetain, c) /\ UNCHANGED cStatus
    BY <1>2 DEF Inserts
  <1>5. QED
    BY <1>1, <1>2, <1>3, <1>4, ClientRetained DEF HoldInv, MaybeObject

LEMMA InsertParents ==
  ASSUME Finite, HoldInv, NEW t \in Threads, Ready(t), NEW n \in RefNum, Inserts(t, n)
  PROVE  Made' /\ ParentsAgree'
  <1>1. /\ Shape /\ MapsAgree /\ fSubRefs \in [Object -> RefMap]
        /\ fRefToEntry \in RefMap /\ fRefNum \in [Object -> RefNum \cup {0}]
        /\ fParentID \in [Object -> RefNum \cup {0}]
        /\ status \in [Object -> {"unmade", "live", "dying", "freed", "closed"}]
    BY DEF HoldInv, LoopInv, MapsInv, Shape, TypeOK, TablesOK, EntriesOK
  <1>2. PICK e \in Object : e = entry[t]
    BY DEF Ready
  <1>3. /\ fRefNum[e] = 0 /\ e # NULL /\ n # 0 /\ 0 \notin RefNum
        /\ parent[t] \in MaybeObject
        /\ parent[t] # NULL => /\ fRefNum[parent[t]] = ref[t] /\ fRefNum[parent[t]] # 0
                               /\ parent[t] # e
    BY <1>2, RefNumFacts DEF Ready, Object, NULL
  <1>4. /\ fRefNum'[e] = n /\ fParentID'[e] = ref[t] /\ status'[e] = "live"
        /\ \A x \in Object : x # e => /\ fRefNum'[x] = fRefNum[x]
                                      /\ fParentID'[x] = fParentID[x]
                                      /\ status'[x] = status[x]
        /\ fRefToEntry[n] = NULL /\ fRefToEntry'[n] = e
        /\ \A m \in RefNum : m # n => fRefToEntry'[m] = fRefToEntry[m]
    BY <1>1, <1>2 DEF Inserts, RefMap
  <1>5. /\ \A x \in Object, m \in RefNum :
             ~(x = parent[t] /\ m = n) => fSubRefs'[x][m] = fSubRefs[x][m]
        /\ parent[t] # NULL => fSubRefs'[parent[t]][n] = e
    BY <1>1, <1>2, <1>3 DEF Inserts, RefMap, MaybeObject
  <1>6. \A m \in RefNum : fSubRefs[e][m] = NULL
    BY <1>3 DEF HoldInv, Made
  <1>7. ASSUME NEW x \in Object
        PROVE  /\ fRefNum'[x] = 0 <=> status'[x] = "unmade"
               /\ fRefNum'[x] = 0 => \A m \in RefNum : fSubRefs'[x][m] = NULL
    <2>1. CASE x = e
      BY <1>3, <1>4, <2>1
    <2>2. CASE x # e
      <3>1. fRefNum'[x] = 0 => x # parent[t]
        BY <1>3, <1>4, <2>2 DEF Object, NULL
      <3>2. QED
        BY <1>4, <1>5, <2>2, <3>1 DEF HoldInv, Made
    <2>3. QED
      BY <2>1, <2>2
  <1>8. ASSUME NEW x \in Object, NEW m \in RefNum, fRefNum'[x] \in RefNum,
               fRefToEntry'[fRefNum'[x]] = x, fSubRefs'[x][m] # NULL
        PROVE  /\ fRefToEntry'[m] = fSubRefs'[x][m]
               /\ fParentID'[fSubRefs'[x][m]] = fRefNum'[x]
    <2>1. x # e
      BY <1>3, <1>5, <1>6, <1>8
    <2>2. fRefNum'[x] = fRefNum[x] /\ fRefToEntry[fRefNum[x]] = x /\ fRefNum[x] \in RefNum
      BY <1>4, <1>8, <2>1
    <2>3. CASE x = parent[t] /\ m = n
      <3>1. parent[t] # NULL
        BY <2>3 DEF Object, NULL
      <3>2. QED
        BY <1>3, <1>4, <1>5, <2>2, <2>3, <3>1
    <2>4. CASE ~(x = parent[t] /\ m = n)
      <3>1. fSubRefs'[x][m] = fSubRefs[x][m]
        BY <1>5, <2>4
      <3>2. fRefToEntry[m] = fSubRefs[x][m] /\ fParentID[fSubRefs[x][m]] = fRefNum[x]
        BY <1>8, <2>2, <3>1 DEF HoldInv, ParentsAgree
      <3>3. fSubRefs[x][m] \in Object /\ m # n
        BY <1>1, <1>4, <1>8, <3>1, <3>2 DEF RefMap, MaybeObject
      <3>4. fSubRefs[x][m] # e
        <4>1. fRefNum[fSubRefs[x][m]] = m
          BY <1>8, <3>1, <3>2, <1>1 DEF MapsAgree
        <4>2. QED
          BY <1>3, <4>1
      <3>5. QED
        BY <1>4, <2>2, <3>1, <3>2, <3>3, <3>4
    <2>5. QED
      BY <2>3, <2>4
  <1>9. Made'
    BY <1>7 DEF Made
  <1>10. ParentsAgree'
    BY <1>8 DEF ParentsAgree
  <1>11. QED
    BY <1>9, <1>10

LEMMA InsertLocals ==
  ASSUME Finite, HoldInv, NEW t \in Threads, Ready(t), NEW n \in RefNum, Inserts(t, n)
  PROVE  Locals'
  <1>1. /\ Shape /\ Locals /\ pc \in [Threads -> Where] /\ parent \in [Threads -> MaybeObject]
        /\ fRefNum \in [Object -> RefNum \cup {0}]
    BY DEF HoldInv, LoopInv, MapsInv, Shape, TypeOK, EntriesOK, RequestsOK, LocalsOK
  <1>2. /\ UNCHANGED <<cStatus, calls, op, ref, client, parent, entry>>
        /\ pc' = [pc EXCEPT ![t] = "release"]
        /\ fRefNum' = [fRefNum EXCEPT ![entry[t]] = n]
    BY DEF Inserts, request
  <1>3. PICK e \in Object : e = entry[t] /\ fRefNum[e] = 0
    BY DEF Ready
  <1>4. ASSUME NEW u \in Threads, parent[u] # NULL
        PROVE  fRefNum'[parent[u]] = fRefNum[parent[u]]
    <2>1. parent[u] \in Object
      BY <1>1, <1>4 DEF MaybeObject
    <2>2. status[parent[u]] = "live"
      BY <1>1, <2>1, PointedIsLive DEF HoldInv
    <2>3. parent[u] # e
      BY <1>3, <2>2 DEF HoldInv, Made
    <2>4. QED
      BY <1>1, <1>2, <1>3, <2>1, <2>3
  <1>5. ASSUME NEW u \in Threads
        PROVE  LocalsOf(u)'
    <2>1. LocalsOf(u)
      BY <1>1 DEF Locals
    <2>2. CASE u # t
      BY <1>1, <1>2, <1>4, <2>1, <2>2 DEF LocalsOf
    <2>3. CASE u = t
      BY <1>1, <1>2, <1>4, <2>1, <2>3 DEF LocalsOf, HoldsClient, HoldsParent, HoldsNoEntry
    <2>4. QED
      BY <2>2, <2>3
  <1>6. \A c \in Object : c > calls' => cStatus'[c] = "unmade"
    BY <1>1, <1>2 DEF Locals
  <1>7. QED
    BY <1>5, <1>6 DEF Locals

LEMMA RunInsertHolds ==
  ASSUME Finite, HoldInv, LoopInv', NEW t \in Threads, RunInsert(t)
  PROVE  HoldInv' /\ (Exact /\ NoIndexRecycled' => Exact')
  <1>1. Ready(t)
    BY InsertReady
  <1>2. PICK n \in RefNum : Inserts(t, n)
    BY InsertNumber
  <1>3. EntryCounts' /\ (Exact /\ NoIndexRecycled' => Exact')
    BY <1>1, <1>2, InsertCounts
  <1>4. ClientCounts'
    BY <1>1, <1>2, InsertClients
  <1>5. Made' /\ ParentsAgree'
    BY <1>1, <1>2, InsertParents
  <1>6. Locals'
    BY <1>1, <1>2, InsertLocals
  <1>7. Dead'
    <2>1. /\ Shape /\ StaysGone
      BY <1>1, <1>2 DEF HoldInv, LoopInv, MapsInv, Shape, TypeOK, EntriesOK, StaysGone,
         Gone, Inserts, Ready
    <2>2. UNCHANGED <<stack, cleanup>>
      BY <1>2 DEF Inserts
    <2>3. QED
      BY <2>1, <2>2, DeadStep DEF HoldInv
  <1>8. QED
    BY <1>3, <1>4, <1>5, <1>6, <1>7 DEF HoldInv

-----------------------------------------------------------------------------
\* The removal of the number n: the entry e leaves the table, the list of its
\* client c, which has q there, and the list of its parent p, which has g.
Drops(e, q, g) == 1 + One(q, e) + One(g, e)
Removes(n, c, e, p, q, g) ==
  /\ q \in {e, NULL} /\ g \in {e, NULL}
  /\ p = IF fParentID[e] = 0 THEN NULL ELSE fRefToEntry[fParentID[e]]
  /\ fRefToEntry[n] = e /\ fRefToClientEntry[n] = c /\ cSubRefs[c][n] = q
  /\ IF p = NULL THEN g = NULL ELSE fSubRefs[p][n] = g
  /\ \A m \in RefNum :
       /\ fRefToEntry'[m] = IF m = n THEN NULL ELSE fRefToEntry[m]
       /\ fRefToClientEntry'[m] = IF m = n THEN NULL ELSE fRefToClientEntry[m]
  /\ \A o \in Object, m \in RefNum :
       /\ cSubRefs'[o][m] = IF o = c /\ m = n THEN NULL ELSE cSubRefs[o][m]
       /\ fSubRefs'[o][m] = IF o = p /\ m = n THEN NULL ELSE fSubRefs[o][m]
  /\ cRetain' = [cRetain EXCEPT ![c] = @ - 1]
  /\ cStatus' = IF cRetain[c] = 1 THEN [cStatus EXCEPT ![c] = "dying"] ELSE cStatus
  /\ retain' = [retain EXCEPT ![e] = @ - Drops(e, q, g)]
  /\ status' = IF retain[e] = Drops(e, q, g) THEN [status EXCEPT ![e] = "dying"] ELSE status
  /\ stack' = [stack EXCEPT ![Worker] =
                 (IF cRetain[c] = 1 THEN <<ClientFrame(c)>> ELSE <<>>)
                 \o (IF retain[e] = Drops(e, q, g) THEN <<EntryFrame(e)>> ELSE <<>>)]
  /\ UNCHANGED <<fPortToClientEntry, fRefNum, fParentID, cleanup, request,
                 pc, client, parent, entry>>

LEMMA RemoveNumber ==
  ASSUME HoldInv, RunRemove
  PROVE  Head(queue).num \in RefNum
  <1>1. /\ queue \in Seq(Block)
        /\ queue # <<>> /\ Head(queue).op = "remove"
    <2>1. queue \in Seq(Block)
      BY DEF HoldInv, LoopInv, MapsInv, Shape, TypeOK, QueuesOK
    <2>2. queue # <<>> /\ Head(queue).op = "remove"
      BY Zenon DEF RunRemove
    <2>3. QED
      BY <2>1, <2>2
  <1>2. Head(queue) \in Block
    BY <1>1, HeadTailProperties
  <1>3. QED
    BY <1>1, <1>2 DEF Block

\* What RunRemove does when the number is in the table.
LEMMA RemoveFound ==
  ASSUME Finite, HoldInv, RunRemove, fRefToEntry[Head(queue).num] # NULL
  PROVE  \E n \in RefNum, c \in Object, e \in Object :
           \E p, q, g \in MaybeObject : Removes(n, c, e, p, q, g)
  <1>1. PICK n \in RefNum : n = Head(queue).num
    BY RemoveNumber
  <1>2. /\ MapsAgree /\ fRefToEntry \in RefMap /\ fRefToClientEntry \in RefMap
        /\ cSubRefs \in [Object -> RefMap] /\ fSubRefs \in [Object -> RefMap]
        /\ fParentID \in [Object -> RefNum \cup {0}] /\ 0 \notin RefNum
    BY RefNumFacts
       DEF HoldInv, LoopInv, MapsInv, Shape, TypeOK, TablesOK, EntriesOK, ClientsOK
  <1>3. PICK e \in Object, c \in Object :
          e = fRefToEntry[n] /\ c = fRefToClientEntry[n] /\ e # NULL /\ c # NULL
    BY <1>1, <1>2 DEF MapsAgree, RefMap, MaybeObject
  <1>4. PICK p \in MaybeObject :
          /\ p = IF e = NULL \/ fParentID[e] = 0 THEN NULL ELSE fRefToEntry[fParentID[e]]
          /\ p # NULL => /\ p \in Object /\ fRefNum[p] = fParentID[e]
                         /\ fRefNum[p] \in RefNum /\ fRefToEntry[fRefNum[p]] = p
    <2> DEFINE r == IF e = NULL \/ fParentID[e] = 0 THEN NULL ELSE fRefToEntry[fParentID[e]]
    <2>1. CASE fParentID[e] = 0
      BY <1>3, <2>1 DEF MaybeObject
    <2>2. CASE fParentID[e] # 0
      <3>1. fParentID[e] \in RefNum /\ r = fRefToEntry[fParentID[e]]
        BY <1>2, <1>3, <2>2
      <3>2. r \in MaybeObject /\ (r # NULL => fRefNum[r] = fParentID[e])
        BY <1>2, <3>1 DEF MapsAgree, RefMap
      <3>3. QED
        BY <3>1, <3>2 DEF MaybeObject
    <2>3. QED
      BY <2>1, <2>2
  <1> DEFINE q == cSubRefs[c][n]
             g == IF p = NULL THEN NULL ELSE fSubRefs[p][n]
             drops == 1 + (IF c # NULL /\ cSubRefs[c][n] # NULL THEN 1 ELSE 0)
                        + (IF p # NULL /\ fSubRefs[p][n] # NULL THEN 1 ELSE 0)
  <1>5. q \in {e, NULL}
    BY <1>1, <1>2, <1>3 DEF MapsAgree
  <1>6. g \in {e, NULL}
    <2>1. CASE p = NULL
      BY <2>1
    <2>2. CASE p # NULL
      <3>1. fSubRefs[p][n] # NULL => fRefToEntry[n] = fSubRefs[p][n]
        BY <1>4, <2>2 DEF HoldInv, ParentsAgree
      <3>2. QED
        BY <1>3, <2>2, <3>1
    <2>3. QED
      BY <2>1, <2>2
  <1>7. drops = Drops(e, q, g)
    <2>1. One(q, e) = IF c # NULL /\ cSubRefs[c][n] # NULL THEN 1 ELSE 0
      BY <1>3, <1>5 DEF One
    <2>2. One(g, e) = IF p # NULL /\ fSubRefs[p][n] # NULL THEN 1 ELSE 0
      BY <1>3, <1>6 DEF One
    <2>3. QED
      BY <2>1, <2>2 DEF Drops
  <1>16. p = IF fParentID[e] = 0 THEN NULL ELSE fRefToEntry[fParentID[e]]
    BY <1>3, <1>4
  <1>8. /\ fRefToClientEntry' = [fRefToClientEntry EXCEPT ![n] = NULL]
        /\ fRefToEntry' = [fRefToEntry EXCEPT ![n] = NULL]
        /\ cSubRefs' = IF q # NULL THEN [cSubRefs EXCEPT ![c][n] = NULL] ELSE cSubRefs
        /\ fSubRefs' = IF g # NULL THEN [fSubRefs EXCEPT ![p][n] = NULL] ELSE fSubRefs
        /\ cRetain' = [cRetain EXCEPT ![c] = @ - 1]
        /\ cStatus' = IF cRetain[c] = 1 THEN [cStatus EXCEPT ![c] = "dying"] ELSE cStatus
        /\ retain' = [retain EXCEPT ![e] = @ - Drops(e, q, g)]
        /\ status' = IF retain[e] = Drops(e, q, g) THEN [status EXCEPT ![e] = "dying"] ELSE status
        /\ stack' = [stack EXCEPT ![Worker] =
                       (IF cRetain[c] = 1 THEN <<ClientFrame(c)>> ELSE <<>>)
                       \o (IF retain[e] = Drops(e, q, g) THEN <<EntryFrame(e)>> ELSE <<>>)]
    <2> DEFINE N == Head(queue).num
               C == fRefToClientEntry[N]
               E == fRefToEntry[N]
               P == IF E = NULL \/ fParentID[E] = 0 THEN NULL ELSE fRefToEntry[fParentID[E]]
               byClient == C # NULL /\ cSubRefs[C][N] # NULL
               byParent == P # NULL /\ fSubRefs[P][N] # NULL
               D == 1 + (IF byClient THEN 1 ELSE 0) + (IF byParent THEN 1 ELSE 0)
               lastOfClient == C # NULL /\ cRetain[C] = 1
               lastOfEntry == E # NULL /\ retain[E] = D
    <2>1. N = n /\ C = c /\ E = e /\ P = p
      BY <1>1, <1>3, <1>4, Zenon
    <2>2. /\ fRefToClientEntry' = [fRefToClientEntry EXCEPT ![N] = NULL]
          /\ cSubRefs' = IF byClient THEN WithoutRef(cSubRefs, C, N) ELSE cSubRefs
          /\ cRetain' = IF C # NULL THEN [cRetain EXCEPT ![C] = @ - 1] ELSE cRetain
          /\ cStatus' = IF lastOfClient THEN [cStatus EXCEPT ![C] = "dying"] ELSE cStatus
          /\ fRefToEntry' = [fRefToEntry EXCEPT ![N] = NULL]
          /\ fSubRefs' = IF byParent THEN WithoutRef(fSubRefs, P, N) ELSE fSubRefs
          /\ retain' = IF E # NULL THEN [retain EXCEPT ![E] = @ - D] ELSE retain
          /\ status' = IF lastOfEntry THEN [status EXCEPT ![E] = "dying"] ELSE status
          /\ stack' = [stack EXCEPT ![Worker] =
                         (IF lastOfClient THEN <<ClientFrame(C)>> ELSE <<>>)
                         \o (IF lastOfEntry THEN <<EntryFrame(E)>> ELSE <<>>)]
      BY Zenon DEF RunRemove
    <2> HIDE DEF N, C, E, P
    <2>3. /\ byClient = (q # NULL) /\ byParent = (g # NULL) /\ D = Drops(e, q, g)
          /\ lastOfClient = (cRetain[c] = 1) /\ lastOfEntry = (retain[e] = Drops(e, q, g))
      BY <1>3, <1>7, <2>1
    <2> HIDE DEF byClient, byParent, D, lastOfClient, lastOfEntry, q, g
    <2>4. QED
      BY <1>3, <2>1, <2>2, <2>3 DEF WithoutRef
  <1>9. UNCHANGED <<fPortToClientEntry, fRefNum, fParentID, cleanup, request,
                    pc, client, parent, entry>>
    BY Zenon DEF RunRemove
  <1>10. /\ \A m \in RefNum :
              /\ fRefToEntry'[m] = IF m = n THEN NULL ELSE fRefToEntry[m]
              /\ fRefToClientEntry'[m] = IF m = n THEN NULL ELSE fRefToClientEntry[m]
         /\ \A o \in Object, m \in RefNum :
              cSubRefs'[o][m] = IF o = c /\ m = n THEN NULL ELSE cSubRefs[o][m]
    BY <1>1, <1>2, <1>3, <1>8, Zenon DEF RefMap
  <1>11. \A o \in Object, m \in RefNum :
           fSubRefs'[o][m] = IF o = p /\ m = n THEN NULL ELSE fSubRefs[o][m]
    <2>1. CASE g = NULL
      <3>1. fSubRefs' = fSubRefs
        BY <1>8, <2>1
      <3>2. p # NULL => fSubRefs[p][n] = NULL
        BY <2>1
      <3>3. \A o \in Object : o # NULL
        BY DEF Object, NULL
      <3> HIDE DEF g
      <3>4. QED
        BY <3>1, <3>2, <3>3
    <2>2. CASE g # NULL
      <3>1. fSubRefs' = [fSubRefs EXCEPT ![p][n] = NULL] /\ p \in Object
        BY <1>4, <1>8, <2>2
      <3> HIDE DEF g
      <3>2. QED
        BY <1>1, <1>2, <3>1 DEF RefMap
    <2>3. QED
      BY <2>1, <2>2
  <1>12. IF p = NULL THEN g = NULL ELSE fSubRefs[p][n] = g
    OBVIOUS
  <1>13. fRefToEntry[n] = e /\ fRefToClientEntry[n] = c /\ cSubRefs[c][n] = q
    BY <1>3
  <1> HIDE DEF q, g, drops
  <1>14. Removes(n, c, e, p, q, g)
    BY <1>5, <1>6, <1>16, <1>8, <1>9, <1>10, <1>11, <1>12, <1>13 DEF Removes
  <1>15. QED
    BY <1>5, <1>6, <1>14 DEF MaybeObject

LEMMA RemovePointers ==
  ASSUME Finite, HoldInv, NEW n \in RefNum, NEW c \in Object, NEW e \in Object,
         NEW p \in MaybeObject, NEW q \in MaybeObject, NEW g \in MaybeObject,
         Removes(n, c, e, p, q, g), NEW x \in Object
  PROVE  Pointers(x)' = Pointers(x) - One(e, x) - One(q, x) - One(g, x)
  <1>1. One(NULL, x) = 0
    BY DEF One, Object, NULL
  <1>2. Shift(InTable(x), InTable(x)', e, NULL, x)
    <2>1. /\ fRefToEntry[n] = e /\ fRefToEntry'[n] = NULL
          /\ \A m \in RefNum \ {n} : fRefToEntry'[m] = fRefToEntry[m]
      BY DEF Removes
    <2>2. QED
      BY <2>1, TableStep
  <1>3. Shift(InClients(x), InClients(x)', q, NULL, x)
    <2>1. /\ cSubRefs[c][n] = q /\ cSubRefs'[c][n] = NULL
          /\ \A o \in Object, m \in RefNum : ~(o = c /\ m = n) => cSubRefs'[o][m] = cSubRefs[o][m]
      BY DEF Removes
    <2>2. QED
      BY <2>1, ClientListStep
  <1>4. Shift(InParents(x), InParents(x)', g, NULL, x)
    <2>1. CASE p = NULL
      <3>1. g = NULL /\ \A o \in Object, m \in RefNum : fSubRefs'[o][m] = fSubRefs[o][m]
        BY <2>1 DEF Removes, Object, NULL
      <3>2. Shift(InParents(x), InParents(x)', fSubRefs[e][n], fSubRefs'[e][n], x)
        BY <3>1, ParentListStep
      <3>3. /\ fSubRefs'[e][n] = fSubRefs[e][n] /\ InParents(x) \in Int
            /\ One(fSubRefs[e][n], x) \in Int
        BY <3>1, EntryCounters, OneOrNone
      <3>4. QED
        BY <1>1, <3>1, <3>2, <3>3 DEF Shift
    <2>2. CASE p # NULL
      <3>1. /\ p \in Object /\ fSubRefs[p][n] = g /\ fSubRefs'[p][n] = NULL
            /\ \A o \in Object, m \in RefNum : ~(o = p /\ m = n) => fSubRefs'[o][m] = fSubRefs[o][m]
        BY <2>2 DEF Removes, MaybeObject
      <3>2. QED
        BY <3>1, ParentListStep
    <2>3. QED
      BY <2>1, <2>2
  <1>5. InHand(x)' = InHand(x) /\ AsParent(x)' = AsParent(x)
    BY Unmoved DEF Removes, InHandOf
  <1>6. /\ One(e, x) \in Int /\ One(q, x) \in Int /\ One(g, x) \in Int
        /\ InTable(x) \in Int /\ InClients(x) \in Int /\ InParents(x) \in Int
        /\ InHand(x) \in Int /\ AsParent(x) \in Int
    BY EntryCounters, OneOrNone
  <1>7. /\ InTable(x)' = InTable(x) - One(e, x) /\ InClients(x)' = InClients(x) - One(q, x)
        /\ InParents(x)' = InParents(x) - One(g, x)
    BY <1>1, <1>2, <1>3, <1>4, <1>6 DEF Shift
  <1>8. QED
    BY <1>5, <1>6, <1>7 DEF Pointers

LEMMA RemoveCounts ==
  ASSUME Finite, HoldInv, Shape', NEW n \in RefNum, NEW c \in Object, NEW e \in Object,
         NEW p \in MaybeObject, NEW q \in MaybeObject, NEW g \in MaybeObject,
         Removes(n, c, e, p, q, g)
  PROVE  /\ EntryCounts' /\ (Exact => Exact')
         /\ \A x \in Object : status'[x] = "unmade" <=> status[x] = "unmade"
  <1> DEFINE d == Drops(e, q, g)
  <1>1. /\ Shape /\ retain \in [Object -> Int]
        /\ status \in [Object -> {"unmade", "live", "dying", "freed", "closed"}]
    BY DEF HoldInv, LoopInv, MapsInv, Shape, TypeOK, EntriesOK
  <1>2. /\ retain' = [retain EXCEPT ![e] = @ - d]
        /\ status' = IF retain[e] = d THEN [status EXCEPT ![e] = "dying"] ELSE status
    BY DEF Removes
  <1>3. d \in Int /\ d >= 1 /\ d = One(e, e) + One(q, e) + One(g, e)
    BY OneOrNone DEF Drops, One
  <1>4. \A x \in Object : x # e => One(e, x) = 0 /\ One(q, x) = 0 /\ One(g, x) = 0
    BY DEF One, Object, NULL, Removes
  <1>5. /\ One(e, e) \in Int /\ One(q, e) \in Int /\ One(g, e) \in Int
        /\ \A x \in Object : Pointers(x) \in Nat /\ Pointers(x)' \in Nat
    BY OneOrNone, PointersTyped, PointersTypedAfter
  <1>6. Pointers(e)' = Pointers(e) - One(e, e) - One(q, e) - One(g, e)
    BY RemovePointers
  <1> HIDE DEF d
  <1>7. Pointers(e)' = Pointers(e) - d
    BY <1>3, <1>5, <1>6
  <1>8. retain[e] >= Pointers(e) /\ status[e] = "live"
    <2>1. fRefToEntry[n] = e
      BY DEF Removes
    <2>2. QED
      BY <1>1, <2>1, PointedIsLive DEF HoldInv, EntryCounts
  <1>9. retain[e] >= d
    BY <1>1, <1>3, <1>5, <1>7, <1>8
  <1>10. ASSUME NEW x \in Object
         PROVE  Balanced(x)
    <2>1. CASE x = e
      BY <1>1, <1>2, <1>3, <1>5, <1>7, <2>1 DEF Balanced
    <2>2. CASE x # e
      <3>1. Pointers(x)' = Pointers(x) - One(e, x) - One(q, x) - One(g, x)
        BY RemovePointers
      <3>2. Pointers(x)' = Pointers(x) /\ retain'[x] = retain[x]
        BY <1>1, <1>2, <1>4, <1>5, <2>2, <3>1
      <3>3. QED
        BY <3>2 DEF Balanced
    <2>3. QED
      BY <2>1, <2>2
  <1>11. ASSUME NEW x \in Object
         PROVE  status'[x] = "live" <=> retain'[x] >= 1
    <2>1. CASE x # e
      BY <1>1, <1>2, <2>1 DEF HoldInv, EntryCounts
    <2>2. CASE x = e /\ retain[e] = d
      BY <1>1, <1>2, <1>3, <2>2
    <2>3. CASE x = e /\ retain[e] # d
      BY <1>1, <1>2, <1>3, <1>8, <1>9, <2>3
    <2>4. QED
      BY <2>1, <2>2, <2>3
  <1>12. \A x \in Object : status'[x] = "unmade" <=> status[x] = "unmade"
    BY <1>1, <1>2, <1>8
  <1>13. QED
    BY <1>1, <1>10, <1>11, <1>12, BalancedStep DEF HoldInv

LEMMA ElemsConcat ==
  ASSUME NEW S, NEW r \in Seq(S), NEW s \in Seq(S)
  PROVE  Elems(r \o s) \subseteq Elems(r) \cup Elems(s)
  <1> DEFINE w == r \o s
  <1>1. /\ Len(r) \in Nat /\ Len(s) \in Nat /\ Len(w) = Len(r) + Len(s)
        /\ \A i \in 1..Len(w) : w[i] = IF i <= Len(r) THEN r[i] ELSE s[i - Len(r)]
    BY ConcatProperties
  <1> HIDE DEF w
  <1>2. ASSUME NEW i \in 1..Len(w)
        PROVE  w[i] \in Elems(r) \cup Elems(s)
    <2>1. CASE i <= Len(r)
      <3>1. i \in 1..Len(r) /\ w[i] = r[i]
        BY <1>1, <2>1
      <3>2. QED
        BY <3>1 DEF Elems
    <2>2. CASE ~(i <= Len(r))
      <3>1. i - Len(r) \in 1..Len(s) /\ w[i] = s[i - Len(r)]
        BY <1>1, <2>2
      <3>2. QED
        BY <3>1 DEF Elems
    <2>3. QED
      BY <2>1, <2>2
  <1>3. QED
    BY <1>2 DEF Elems, w

LEMMA RemoveDead ==
  ASSUME HoldInv, NEW n \in RefNum, NEW c \in Object, NEW e \in Object,
         NEW p \in MaybeObject, NEW q \in MaybeObject, NEW g \in MaybeObject,
         Removes(n, c, e, p, q, g)
  PROVE  Dead'
  <1> DEFINE r == IF cRetain[c] = 1 THEN <<ClientFrame(c)>> ELSE <<>>
             s == IF retain[e] = Drops(e, q, g) THEN <<EntryFrame(e)>> ELSE <<>>
  <1>1. /\ Shape /\ stack \in [Agents -> Seq(Frame)] /\ Worker \in Agents
        /\ status \in [Object -> {"unmade", "live", "dying", "freed", "closed"}]
    BY DEF HoldInv, LoopInv, MapsInv, Shape, TypeOK, EntriesOK, QueuesOK, Agents
  <1>2. /\ status' = IF retain[e] = Drops(e, q, g) THEN [status EXCEPT ![e] = "dying"] ELSE status
        /\ stack' = [stack EXCEPT ![Worker] = r \o s]
        /\ UNCHANGED cleanup
    BY DEF Removes
  <1>3. ClientFrame(c) \in Frame /\ EntryFrame(e) \in Frame
    BY DEF ClientFrame, EntryFrame, Frame
  <1>4. /\ r \in Seq(Frame) /\ \A f \in Elems(r) : f = ClientFrame(c)
        /\ s \in Seq(Frame) /\ \A f \in Elems(s) : f = EntryFrame(e) /\ retain[e] = Drops(e, q, g)
    BY <1>3 DEF Elems
  <1>5. StaysGone
    BY <1>1, <1>2 DEF StaysGone, Gone
  <1> HIDE DEF r, s, Worker
  <1>6. Elems(r \o s) \subseteq Elems(r) \cup Elems(s)
    BY <1>4, ElemsConcat
  <1>7. ASSUME NEW b \in Agents, NEW x \in Elems(stack'[b])
        PROVE  x \in Elems(stack[b]) \/ (x.kind = "entry" => status'[x.obj] \in Gone)
    <2>1. CASE b # Worker
      BY <1>1, <1>2, <1>7, <2>1
    <2>2. CASE b = Worker
      <3>1. x \in Elems(r) \/ x \in Elems(s)
        BY <1>1, <1>2, <1>6, <1>7, <2>2
      <3>2. CASE x \in Elems(r)
        BY <1>4, <3>2 DEF ClientFrame
      <3>3. CASE x \in Elems(s)
        <4>1. x = EntryFrame(e) /\ status'[e] = "dying"
          BY <1>1, <1>2, <1>4, <3>3
        <4>2. QED
          BY <4>1 DEF EntryFrame, Gone
      <3>4. QED
        BY <3>1, <3>2, <3>3
    <2>3. QED
      BY <2>1, <2>2
  <1>8. QED
    BY <1>1, <1>2, <1>5, <1>7, DeadStep DEF HoldInv

LEMMA RemoveClients ==
  ASSUME Finite, HoldInv, NEW n \in RefNum, NEW c \in Object, NEW e \in Object,
         NEW p \in MaybeObject, NEW q \in MaybeObject, NEW g \in MaybeObject,
         Removes(n, c, e, p, q, g)
  PROVE  /\ ClientCounts'
         /\ \A d \in Object : cStatus'[d] = "unmade" <=> cStatus[d] = "unmade"
  <1>1. Shape
    BY DEF HoldInv, LoopInv, MapsInv
  <1>2. /\ fRefToClientEntry[n] = c /\ fRefToClientEntry'[n] = NULL
        /\ \A m \in RefNum \ {n} : fRefToClientEntry'[m] = fRefToClientEntry[m]
    BY DEF Removes
  <1>3. cStatus[c] = "live" /\ cRetain[c] >= 1
    BY <1>1, <1>2, PointedClientIsLive DEF HoldInv
  <1>4. ASSUME NEW d \in Object
        PROVE  ClientPointers(d)' = ClientPointers(d) - One(c, d)
    <2>1. Shift(OfNumbers(d), OfNumbers(d)', c, NULL, d)
      BY <1>2, NumbersStep
    <2>2. OfThreads(d)' = OfThreads(d) /\ OfPorts(d)' = OfPorts(d)
      BY Unmoved DEF Removes
    <2>3. One(NULL, d) = 0
      BY DEF One, Object, NULL
    <2>4. QED
      BY <2>1, <2>2, <2>3, ClientCounters, OneOrNone DEF ClientPointers, Shift
  <1>5. /\ cRetain' = [cRetain EXCEPT ![c] = @ - 1]
        /\ cStatus' = IF cRetain[c] = 1 THEN [cStatus EXCEPT ![c] = "dying"] ELSE cStatus
    BY DEF Removes
  <1>6. QED
    BY <1>1, <1>3, <1>4, <1>5, ClientReleased DEF HoldInv

LEMMA RemoveParents ==
  ASSUME HoldInv, NEW n \in RefNum, NEW c \in Object, NEW e \in Object,
         NEW p \in MaybeObject, NEW q \in MaybeObject, NEW g \in MaybeObject,
         Removes(n, c, e, p, q, g)
  PROVE  ParentsAgree'
  <1>1. /\ fRefToEntry[n] = e /\ UNCHANGED <<fRefNum, fParentID>>
        /\ p = IF fParentID[e] = 0 THEN NULL ELSE fRefToEntry[fParentID[e]]
        /\ \A m \in RefNum : fRefToEntry'[m] = IF m = n THEN NULL ELSE fRefToEntry[m]
        /\ \A o \in Object, m \in RefNum :
             fSubRefs'[o][m] = IF o = p /\ m = n THEN NULL ELSE fSubRefs[o][m]
    BY DEF Removes
  <1>2. ASSUME NEW x \in Object, NEW m \in RefNum, fRefNum[x] \in RefNum,
               fRefToEntry'[fRefNum[x]] = x, fSubRefs'[x][m] # NULL
        PROVE  /\ fRefToEntry'[m] = fSubRefs'[x][m]
               /\ fParentID[fSubRefs'[x][m]] = fRefNum[x]
    <2>1. x # NULL /\ 0 \notin RefNum
      BY RefNumFacts DEF Object, NULL
    <2>2. fRefToEntry[fRefNum[x]] = x /\ fSubRefs'[x][m] = fSubRefs[x][m]
      BY <1>1, <1>2, <2>1
    <2>3. fRefToEntry[m] = fSubRefs[x][m] /\ fParentID[fSubRefs[x][m]] = fRefNum[x]
      BY <1>2, <2>2 DEF HoldInv, ParentsAgree
    <2>4. m # n
      <3>1. SUFFICES ASSUME m = n PROVE FALSE
        OBVIOUS
      <3>2. fParentID[e] = fRefNum[x] /\ fParentID[e] # 0
        BY <1>1, <1>2, <2>1, <2>3, <3>1
      <3>3. p = x
        BY <1>1, <2>2, <3>2
      <3>4. QED
        BY <1>1, <1>2, <3>1, <3>3
    <2>5. QED
      BY <1>1, <2>2, <2>3, <2>4
  <1>3. QED
    BY <1>1, <1>2 DEF ParentsAgree

\* The number is not in the table: a removal of it came before.
LEMMA RemoveNothing ==
  ASSUME Finite, HoldInv, RunRemove, fRefToEntry[Head(queue).num] = NULL
  PROVE  UNCHANGED <<tables, entries, clients, cleanup, stack, request, pc, client,
                     parent, entry>>
  <1>1. PICK n \in RefNum : n = Head(queue).num
    BY RemoveNumber
  <1>2. /\ fRefToEntry \in RefMap /\ fRefToClientEntry \in RefMap /\ stack \in [Agents -> Seq(Frame)]
        /\ MapsAgree
    BY DEF HoldInv, LoopInv, MapsInv, Shape, TypeOK, TablesOK, QueuesOK
  <1>3. fRefToEntry[n] = NULL /\ fRefToClientEntry[n] = NULL /\ stack[Worker] = <<>>
    BY <1>1, <1>2 DEF MapsAgree, RunRemove
  <1>4. /\ fRefToClientEntry' = [fRefToClientEntry EXCEPT ![n] = NULL]
        /\ fRefToEntry' = [fRefToEntry EXCEPT ![n] = NULL]
        /\ UNCHANGED <<cSubRefs, cRetain, cStatus, fSubRefs, retain, status>>
        /\ stack' = [stack EXCEPT ![Worker] = <<>> \o <<>>]
    BY <1>1, <1>3 DEF RunRemove
  <1>5. UNCHANGED <<fRefToEntry, fRefToClientEntry>>
    BY <1>2, <1>3, <1>4 DEF RefMap
  <1>6. UNCHANGED stack
    <2>1. <<>> \o <<>> = <<>>
      OBVIOUS
    <2>2. QED
      BY <1>2, <1>3, <1>4, <2>1
  <1>7. UNCHANGED <<numbering, fPortToClientEntry, fRefNum, fParentID, portInfo,
                    cleanup, request, pc, client, parent, entry>>
    BY DEF RunRemove
  <1>8. QED
    BY <1>4, <1>5, <1>6, <1>7 DEF tables, entries, clients

LEMMA NothingHappens ==
  ASSUME Finite, HoldInv, LoopInv',
         UNCHANGED <<tables, entries, clients, cleanup, stack, request, pc, client,
                     parent, entry>>
  PROVE  HoldInv' /\ (Exact => Exact')
  <1>1. EntryCounts' /\ (Exact => Exact')
    BY EntriesUntouched DEF HoldInv, tables, entries, clients, InHandOf
  <1>2. ClientCounts' /\ Locals'
    BY ClientsUntouched, LocalsStep DEF HoldInv, tables, entries, clients, request
  <1>3. Made' /\ ParentsAgree'
    BY MadeStep, ParentsStep DEF HoldInv, tables, entries
  <1>4. Dead'
    BY DeadStep DEF HoldInv, LoopInv, MapsInv, StaysGone, entries
  <1>5. QED
    BY <1>1, <1>2, <1>3, <1>4 DEF HoldInv

LEMMA RunRemoveHolds ==
  ASSUME Finite, HoldInv, LoopInv', RunRemove
  PROVE  HoldInv' /\ (Exact => Exact')
  <1>1. CASE fRefToEntry[Head(queue).num] = NULL
    BY <1>1, RemoveNothing, NothingHappens
  <1>2. CASE fRefToEntry[Head(queue).num] # NULL
    <2>1. PICK n \in RefNum, c \in Object, e \in Object, p \in MaybeObject,
               q \in MaybeObject, g \in MaybeObject : Removes(n, c, e, p, q, g)
      BY <1>2, RemoveFound
    <2>2. Shape'
      BY DEF LoopInv, MapsInv
    <2>3. /\ EntryCounts' /\ (Exact => Exact')
          /\ \A x \in Object : status'[x] = "unmade" <=> status[x] = "unmade"
      BY <2>1, <2>2, RemoveCounts
    <2>4. /\ ClientCounts'
          /\ \A d \in Object : cStatus'[d] = "unmade" <=> cStatus[d] = "unmade"
      BY <2>1, RemoveClients
    <2>5. Dead' /\ ParentsAgree'
      BY <2>1, RemoveDead, RemoveParents
    <2>6. /\ UNCHANGED <<fRefNum, calls, pc, op, ref, client, parent, entry>>
          /\ \A o \in Object, m \in RefNum : fSubRefs'[o][m] \in {fSubRefs[o][m], NULL}
      BY <2>1 DEF Removes, request
    <2>7. Made' /\ Locals'
      BY <2>3, <2>4, <2>6, MadeStep, LocalsStep DEF HoldInv
    <2>8. QED
      BY <2>3, <2>4, <2>5, <2>7 DEF HoldInv
  <1>3. QED
    BY <1>1, <1>2

LEMMA BlockHolds ==
  ASSUME Finite, HoldInv, LoopInv', RunBlock
  PROVE  HoldInv' /\ (Exact /\ NoIndexRecycled' => Exact')
  <1>1. CASE RunRemove
    BY <1>1, RunRemoveHolds
  <1>2. ASSUME NEW t \in Threads, RunVerify(t)
        PROVE  HoldInv' /\ (Exact => Exact')
    BY <1>2, RunVerifyHolds
  <1>3. ASSUME NEW t \in Threads, RunLookup(t)
        PROVE  HoldInv' /\ (Exact => Exact')
    BY <1>3, RunLookupHolds
  <1>4. ASSUME NEW t \in Threads, RunFindClient(t)
        PROVE  HoldInv' /\ (Exact => Exact')
    BY <1>4, RunFindClientHolds
  <1>5. ASSUME NEW t \in Threads, RunInsert(t)
        PROVE  HoldInv' /\ (Exact /\ NoIndexRecycled' => Exact')
    BY <1>5, RunInsertHolds
  <1>6. ASSUME NEW t \in Threads, RunPlugin(t)
        PROVE  HoldInv' /\ (Exact => Exact')
    BY <1>6, RunPluginHolds
  <1>7. ASSUME NEW t \in Threads, RunGetEntry(t)
        PROVE  HoldInv' /\ (Exact => Exact')
    BY <1>7, RunGetEntryHolds
  <1>8. ASSUME NEW t \in Threads, RunClean(t)
        PROVE  HoldInv' /\ (Exact => Exact')
    BY <1>8, RunCleanHolds
  <1>9. ASSUME NEW t \in Threads, FinishClean(t)
        PROVE  HoldInv' /\ (Exact => Exact')
    BY <1>9, FinishCleanHolds
  <1>10. QED
    BY <1>1, <1>2, <1>3, <1>4, <1>5, <1>6, <1>7, <1>8, <1>9 DEF RunBlock

LEMMA DestructorHolds ==
  ASSUME Finite, HoldInv, LoopInv', NEW a \in Agents, Destructor(a)
  PROVE  HoldInv' /\ (Exact => Exact')
  BY ReleaseSubRefHolds, FinishEntryHolds, ClearChildRefHolds, FreeClientHolds
     DEF Destructor

LEMMA NextHolds ==
  ASSUME Finite, HoldInv, [Next]_vars
  PROVE  HoldInv' /\ (Exact /\ NoIndexRecycled' => Exact')
  <1>1. LoopInv'
    BY NextLoop DEF HoldInv
  <1>2. ASSUME NEW t \in Threads, NewRequest(t)
        PROVE  HoldInv' /\ (Exact => Exact')
    BY <1>1, <1>2, RequestHolds
  <1>3. ASSUME NEW t \in Threads, ThreadStep(t)
        PROVE  HoldInv' /\ (Exact => Exact')
    BY <1>1, <1>3, ThreadStepHolds
  <1>4. ASSUME NEW a \in Agents, Destructor(a)
        PROVE  HoldInv' /\ (Exact => Exact')
    BY <1>1, <1>4, DestructorHolds
  <1>5. CASE RunBlock
    BY <1>1, <1>5, BlockHolds
  <1>6. CASE RunDealloc
    BY <1>1, <1>6, DeallocHolds
  <1>7. CASE Rest \/ UNCHANGED vars
    <2>1. UNCHANGED <<tables, entries, clients, cleanup, stack, request, pc, client,
                      parent, entry>>
      BY <1>7 DEF Rest, vars
    <2>2. QED
      BY <1>1, <2>1, NothingHappens
  <1>8. QED
    BY <1>2, <1>3, <1>4, <1>5, <1>6, <1>7 DEF Next

\* At the start there is nothing, and nothing points to it.
LEMMA InitHolds ==
  ASSUME Finite, Init
  PROVE  HoldInv /\ Exact
  <1>1. LoopInv
    BY InitLoop
  <1>2. ASSUME NEW e \in Object
        PROVE  Pointers(e) = 0 /\ ClientPointers(e) = 0
    <2>1. e # NULL
      BY DEF Object, NULL
    <2>2. /\ {n \in RefNum : fRefToEntry[n] = e} = {}
          /\ {x \in Object \X RefNum : cSubRefs[x[1]][x[2]] = e} = {}
          /\ {x \in Object \X RefNum : fSubRefs[x[1]][x[2]] = e} = {}
          /\ {t \in Threads : pc[t] = "release" /\ entry[t] = e} = {}
          /\ {t \in Threads : parent[t] = e} = {}
          /\ {n \in RefNum : fRefToClientEntry[n] = e} = {}
          /\ {p \in Ports : fPortToClientEntry[p] = e} = {}
          /\ {t \in Threads : client[t] = e} = {}
      BY <2>1 DEF Init
    <2>3. /\ InTable(e) = 0 /\ InClients(e) = 0 /\ InParents(e) = 0 /\ InHand(e) = 0
          /\ AsParent(e) = 0 /\ OfNumbers(e) = 0 /\ OfPorts(e) = 0 /\ OfThreads(e) = 0
      BY <2>2, FS_EmptySet DEF InTable, InClients, InParents, InHand, AsParent, OfNumbers,
         OfPorts, OfThreads
    <2>4. QED
      BY <2>3 DEF Pointers, ClientPointers
  <1>3. EntryCounts /\ ClientCounts /\ Exact
    BY <1>2 DEF Init, EntryCounts, ClientCounts, Exact
  <1>4. Made /\ ParentsAgree
    BY RefNumFacts DEF Init, Made, ParentsAgree
  <1>5. Dead
    <2>1. Elems(<<>>) = {}
      BY DEF Elems
    <2>2. QED
      BY <2>1 DEF Init, Dead, DeadFrames
  <1>6. Locals
    BY DEF Init, Locals, LocalsOf, HoldsClient, HoldsParent, HoldsNoEntry
  <1>7. QED
    BY <1>1, <1>3, <1>4, <1>5, <1>6 DEF HoldInv

\* The indices tried only grow in number.
LEMMA TriedGrows ==
  ASSUME LoopInv, [Next]_vars, NoIndexRecycled'
  PROVE  NoIndexRecycled
  <1>1. tried \in Nat
    BY DEF LoopInv, MapsInv, Shape, TypeOK, TablesOK
  <1>2. ASSUME NEW t \in Threads, RunInsert(t)
        PROVE  \E k \in 0..(IndexSpace - 1) : tried' = tried + k + 1
    BY <1>2 DEF RunInsert
  <1>3. ASSUME NEW t \in Threads, NewRequest(t)
        PROVE  tried' = tried
    BY <1>3 DEF NewRequest, BeginOpenDir, BeginOpenChild, BeginClose, BeginUse,
       BeginClean, Drop, Begin, tables
  <1>4. ASSUME NEW t \in Threads, ThreadStep(t)
        PROVE  tried' = tried
    BY <1>4 DEF ThreadStep, CheckFails, CheckForUse, CheckPasses,
       SubmitRemove, SubmitLookup, CheckRoom, SubmitCopyName, ReleaseLocalClient,
       ReleaseLocalEntry, ReleaseLocalParent, Return, tables
  <1>5. ASSUME NEW a \in Agents, Destructor(a)
        PROVE  tried' = tried
    BY <1>5 DEF Destructor, ReleaseSubRef, FinishEntry, ClearChildRef, FreeClient, tables
  <1>6. ASSUME RunBlock
        PROVE  tried' = tried \/ \E t \in Threads : RunInsert(t)
    <2>1. ASSUME RunRemove
          PROVE  tried' = tried
      BY <2>1, Zenon DEF RunRemove
    <2>2. ASSUME NEW t \in Threads,
                 \/ RunVerify(t) \/ RunLookup(t) \/ RunFindClient(t) \/ RunPlugin(t)
                 \/ RunGetEntry(t) \/ RunClean(t) \/ FinishClean(t)
          PROVE  tried' = tried
      BY <2>2 DEF RunVerify, RunLookup, RunFindClient, RunPlugin, RunGetEntry,
         RunClean, FinishClean, tables
    <2>3. QED
      BY <1>6, <2>1, <2>2 DEF RunBlock
  <1>7. ASSUME RunDealloc \/ Rest \/ UNCHANGED vars
        PROVE  tried' = tried
    BY <1>7 DEF RunDealloc, Rest, vars, tables
  <1>8. tried' = tried \/ \E k \in 0..(IndexSpace - 1) : tried' = tried + k + 1
    BY <1>2, <1>3, <1>4, <1>5, <1>6, <1>7 DEF Next
  <1>9. QED
    BY <1>1, <1>8 DEF NoIndexRecycled

-----------------------------------------------------------------------------
CountInv == HoldInv /\ (NoIndexRecycled => Exact)

LEMMA CountInvHolds ==
  ASSUME Finite
  PROVE  Spec => []CountInv
  <1>1. Init => CountInv
    BY InitHolds DEF CountInv
  <1>2. CountInv /\ [Next]_vars => CountInv'
    <2>1. SUFFICES ASSUME CountInv, [Next]_vars PROVE CountInv'
      OBVIOUS
    <2>2. HoldInv' /\ (Exact /\ NoIndexRecycled' => Exact')
      BY <2>1, NextHolds DEF CountInv
    <2>3. NoIndexRecycled' => NoIndexRecycled
      BY <2>1, TriedGrows DEF CountInv, HoldInv
    <2>4. QED
      BY <2>1, <2>2, <2>3 DEF CountInv
  <1>3. QED
    BY <1>1, <1>2, PTL DEF Spec

LEMMA HoldSuffices ==
  ASSUME Finite, HoldInv
  PROVE  NoDangling
  <1>1. Shape /\ EntryCounts /\ ClientCounts
    BY DEF HoldInv, LoopInv, MapsInv
  <1>2. /\ fRefToEntry \in RefMap /\ fRefToClientEntry \in RefMap
        /\ fPortToClientEntry \in [Ports -> MaybeObject]
        /\ fSubRefs \in [Object -> RefMap] /\ cSubRefs \in [Object -> RefMap]
        /\ client \in [Threads -> MaybeObject] /\ parent \in [Threads -> MaybeObject]
        /\ entry \in [Threads -> MaybeObject]
    BY <1>1 DEF Shape, TypeOK, TablesOK, EntriesOK, ClientsOK, LocalsOK
  <1>3. ASSUME NEW n \in RefNum
        PROVE  Live(fRefToEntry[n]) /\ LiveClient(fRefToClientEntry[n])
    <2>1. fRefToEntry[n] \in MaybeObject /\ fRefToClientEntry[n] \in MaybeObject
      BY <1>2 DEF RefMap
    <2>2. QED
      BY <1>1, <2>1, PointedIsLive, PointedClientIsLive DEF Live, LiveClient, MaybeObject
  <1>4. ASSUME NEW p \in Ports
        PROVE  LiveClient(fPortToClientEntry[p])
    BY <1>1, <1>2, PointedClientIsLive DEF LiveClient, MaybeObject
  <1>5. ASSUME NEW o \in Object, NEW n \in RefNum
        PROVE  Live(fSubRefs[o][n]) /\ Live(cSubRefs[o][n])
    <2>1. fSubRefs[o][n] \in MaybeObject /\ cSubRefs[o][n] \in MaybeObject
      BY <1>2 DEF RefMap
    <2>2. QED
      BY <1>1, <2>1, PointedIsLive DEF Live, MaybeObject
  <1>6. ASSUME NEW t \in Threads
        PROVE  Live(parent[t]) /\ LiveClient(client[t]) /\ (pc[t] = "release" => Live(entry[t]))
    <2>1. Live(parent[t])
      BY <1>1, <1>2, PointedIsLive DEF Live, MaybeObject
    <2>2. LiveClient(client[t])
      BY <1>1, <1>2, PointedClientIsLive DEF LiveClient, MaybeObject
    <2>3. pc[t] = "release" => Live(entry[t])
      BY <1>1, <1>2, PointedIsLive DEF Live, MaybeObject
    <2>4. QED
      BY <2>1, <2>2, <2>3
  <1>7. QED
    BY <1>3, <1>4, <1>5, <1>6 DEF NoDangling

\* No pointer that the daemon keeps leads to an object whose destructor has
\* run (Server/CRefTable.cpp and CRefTable.h, Retain and Release): every one is
\* counted, and an object that is counted is live.
THEOREM NoDanglingCorrect ==
  ASSUME IsFiniteSet(Threads), IsFiniteSet(Ports)
  PROVE  Spec => []NoDangling
  <1>1. Finite
    BY DEF Finite
  <1>2. CountInv => NoDangling
    BY <1>1, HoldSuffices DEF CountInv
  <1>3. Spec => []CountInv
    BY <1>1, CountInvHolds
  <1>4. QED
    BY <1>2, <1>3, PTL

\* The counts are the numbers of pointers: of a client always, of an entry
\* until an index is used a second time (Server/CRefTable.cpp).
THEOREM CountsCorrect ==
  ASSUME IsFiniteSet(Threads), IsFiniteSet(Ports)
  PROVE  Spec => []RetainCountsExact
  <1>1. Finite
    BY DEF Finite
  <1>2. CountInv => RetainCountsExact
    BY DEF CountInv, HoldInv, ClientCounts, Exact, RetainCountsExact
  <1>3. Spec => []CountInv
    BY <1>1, CountInvHolds
  <1>4. QED
    BY <1>2, <1>3, PTL

-----------------------------------------------------------------------------
(***************************************************************************)
(* A child goes to the client of the thread that opens it.                 *)
(***************************************************************************)
\* What a thread that verified the entry "meant" knows of its client as long
\* as the number still names that entry.
OwnOf(t) ==
  /\ pc[t] = "find_client" => meant[t] = NULL
  /\ pc[t] = "check" /\ client[t] # NULL =>
       /\ meant[t] # NULL
       /\ fRefToEntry[ref[t]] = meant[t] => fRefToClientEntry[ref[t]] = client[t]
  /\ pc[t] \in {"verified", "lookup"} =>
       /\ meant[t] # NULL
       /\ fRefToEntry[ref[t]] = meant[t] => portInfo[fRefToClientEntry[ref[t]]] = PortOf[t]
  /\ pc[t] \in {"room", "insert"} /\ parent[t] = meant[t] =>
       portInfo[client[t]] = PortOf[t]
PortsOwn ==
  \A p \in Ports : fPortToClientEntry[p] # NULL => portInfo[fPortToClientEntry[p]] = p
OwnInv == HoldInv /\ PortsOwn /\ \A t \in Threads : OwnOf(t)

\* What no step does: it gives a number to another client only with another,
\* new, entry, and a client in use never changes its port.
MapsKept ==
  \A n \in RefNum :
    \/ fRefToEntry'[n] = fRefToEntry[n] /\ fRefToClientEntry'[n] = fRefToClientEntry[n]
    \/ fRefToEntry'[n] = NULL
    \/ fRefNum[fRefToEntry'[n]] = 0
PortInfoKept == \A c \in Object : cStatus[c] = "live" => portInfo'[c] = portInfo[c]

LEMMA OwnKept ==
  ASSUME Finite, HoldInv, MapsKept, PortInfoKept, NEW t \in Threads, OwnOf(t),
         pc'[t] = pc[t], meant'[t] = meant[t], ref'[t] = ref[t],
         client'[t] = client[t], parent'[t] = parent[t]
  PROVE  OwnOf(t)'
  <1>1. /\ Shape /\ MapsAgree /\ ForAClient /\ RequestOK(t) /\ ThreadNoted(t)
        /\ fRefToClientEntry \in RefMap /\ 0 \notin RefNum
        /\ client[t] \in MaybeObject
    BY RefNumFacts DEF HoldInv, LoopInv, MapsInv, Noted, Shape, TypeOK, TablesOK, LocalsOK
  <1>2. ASSUME pc[t] \in {"check", "verified", "lookup"}, meant[t] # NULL,
               fRefToEntry'[ref[t]] = meant[t]
        PROVE  /\ fRefToEntry[ref[t]] = meant[t]
               /\ fRefToClientEntry'[ref[t]] = fRefToClientEntry[ref[t]]
               /\ fRefToClientEntry[ref[t]] \in Object
    <2>1. ref[t] \in RefNum
      BY <1>1, <1>2 DEF RequestOK
    <2>2. fRefNum[meant[t]] # 0
      BY <1>1, <1>2, <2>1 DEF ThreadNoted
    <2>3. /\ fRefToEntry[ref[t]] = meant[t]
          /\ fRefToClientEntry'[ref[t]] = fRefToClientEntry[ref[t]]
      BY <1>2, <2>1, <2>2 DEF MapsKept
    <2>4. fRefToClientEntry[ref[t]] \in Object
      BY <1>1, <1>2, <2>1, <2>3 DEF MapsAgree, RefMap, MaybeObject
    <2>5. QED
      BY <2>3, <2>4
  <1>3. ASSUME pc[t] \in {"verified", "lookup"}, fRefToEntry'[ref[t]] = meant[t]
        PROVE  portInfo'[fRefToClientEntry'[ref[t]]] = PortOf[t]
    <2>1. ref[t] \in RefNum /\ meant[t] # NULL
      BY <1>1, <1>3 DEF RequestOK, OwnOf
    <2>2. /\ fRefToEntry[ref[t]] = meant[t]
          /\ fRefToClientEntry'[ref[t]] = fRefToClientEntry[ref[t]]
          /\ fRefToClientEntry[ref[t]] \in Object
      BY <1>2, <1>3, <2>1
    <2>3. cStatus[fRefToClientEntry[ref[t]]] = "live"
      BY <1>1, <2>1, <2>2, PointedClientIsLive DEF HoldInv
    <2>4. QED
      BY <1>3, <2>2, <2>3 DEF OwnOf, PortInfoKept
  <1>4. ASSUME pc[t] \in {"room", "insert"}
        PROVE  portInfo'[client[t]] = portInfo[client[t]]
    <2>1. client[t] \in Object
      BY <1>1, <1>4 DEF ForAClient, MaybeObject
    <2>2. QED
      BY <1>1, <2>1, PointedClientIsLive DEF HoldInv, PortInfoKept
  <1>5. QED
    BY <1>2, <1>3, <1>4 DEF OwnOf

LEMMA NextKeeps ==
  ASSUME Finite, HoldInv, [Next]_vars
  PROVE  MapsKept /\ PortInfoKept
  <1>1. /\ Shape /\ fRefToEntry \in RefMap /\ fRefToClientEntry \in RefMap
        /\ portInfo \in [Object -> Ports]
    BY DEF HoldInv, LoopInv, MapsInv, Shape, TypeOK, TablesOK, ClientsOK
  <1>2. ASSUME UNCHANGED <<fRefToEntry, fRefToClientEntry, portInfo>>
        PROVE  MapsKept /\ PortInfoKept
    BY <1>2 DEF MapsKept, PortInfoKept
  <1>3. ASSUME NEW t \in Threads, NewRequest(t)
        PROVE  UNCHANGED <<fRefToEntry, fRefToClientEntry, portInfo>>
    BY <1>3 DEF NewRequest, BeginOpenDir, BeginOpenChild, BeginClose, BeginUse,
       BeginClean, Drop, Begin, tables, clients
  <1>4. ASSUME NEW t \in Threads, ThreadStep(t)
        PROVE  UNCHANGED <<fRefToEntry, fRefToClientEntry, portInfo>>
    BY <1>4 DEF ThreadStep, CheckFails, CheckForUse, CheckPasses,
       SubmitRemove, SubmitLookup, CheckRoom, SubmitCopyName, ReleaseLocalClient,
       ReleaseLocalEntry, ReleaseLocalParent, Return, tables, clients
  <1>5. ASSUME NEW a \in Agents, Destructor(a)
        PROVE  UNCHANGED <<fRefToEntry, fRefToClientEntry, portInfo>>
    BY <1>5 DEF Destructor, ReleaseSubRef, FinishEntry, ClearChildRef, FreeClient,
       tables, clients
  <1>6. ASSUME RunDealloc \/ Rest \/ UNCHANGED vars
        PROVE  UNCHANGED <<fRefToEntry, fRefToClientEntry, portInfo>>
    BY <1>6 DEF RunDealloc, Rest, vars, tables, clients
  <1>7. ASSUME RunRemove
        PROVE  MapsKept /\ PortInfoKept
    <2>1. PICK n \in RefNum : n = Head(queue).num
      BY <1>7, RemoveNumber
    <2>2. /\ fRefToEntry' = [fRefToEntry EXCEPT ![n] = NULL]
          /\ fRefToClientEntry' = [fRefToClientEntry EXCEPT ![n] = NULL]
          /\ UNCHANGED portInfo
      BY <1>7, <2>1, Zenon DEF RunRemove
    <2>3. QED
      BY <1>1, <2>2 DEF MapsKept, PortInfoKept, RefMap
  <1>8. ASSUME NEW t \in Threads, RunInsert(t)
        PROVE  MapsKept /\ PortInfoKept
    <2>1. Ready(t)
      BY <1>8, InsertReady
    <2>2. PICK n \in RefNum : Inserts(t, n)
      BY <1>8, InsertNumber
    <2>3. /\ fRefToEntry' = [fRefToEntry EXCEPT ![n] = entry[t]]
          /\ fRefToClientEntry' = [fRefToClientEntry EXCEPT ![n] = client[t]]
          /\ UNCHANGED portInfo /\ fRefNum[entry[t]] = 0
      BY <2>1, <2>2 DEF Inserts, Ready
    <2>4. QED
      BY <1>1, <2>3 DEF MapsKept, PortInfoKept, RefMap
  <1>9. ASSUME NEW t \in Threads, RunFindClient(t)
        PROVE  MapsKept /\ PortInfoKept
    <2>1. cStatus[entry[t]] = "unmade"
      BY <1>9 DEF RunFindClient, Runs, HoldInv, Locals, LocalsOf
    <2>2. /\ UNCHANGED <<fRefToEntry, fRefToClientEntry>>
          /\ portInfo' = portInfo \/ portInfo' = [portInfo EXCEPT ![entry[t]] = PortOf[t]]
      BY <1>9 DEF RunFindClient
    <2>3. QED
      BY <1>1, <2>1, <2>2 DEF MapsKept, PortInfoKept
  <1>10. ASSUME NEW t \in Threads,
                \/ RunVerify(t) \/ RunLookup(t) \/ RunPlugin(t) \/ RunGetEntry(t)
                \/ RunClean(t) \/ FinishClean(t)
         PROVE  UNCHANGED <<fRefToEntry, fRefToClientEntry, portInfo>>
    BY <1>10 DEF RunVerify, RunLookup, RunPlugin, RunGetEntry, RunClean, FinishClean,
       tables, clients
  <1>11. QED
    BY <1>2, <1>3, <1>4, <1>5, <1>6, <1>7, <1>8, <1>9, <1>10 DEF Next, RunBlock
\* Each step of the thread itself.
LEMMA OwnRequest ==
  ASSUME HoldInv, NEW t \in Threads, NewRequest(t)
  PROVE  OwnOf(t)'
  <1>1. pc[t] = "idle" /\ meant[t] = NULL /\ pc \in [Threads -> Where]
    BY DEF HoldInv, LoopInv, MapsInv, Noted, ThreadNoted, Shape, TypeOK, RequestsOK,
       NewRequest, BeginOpenDir, BeginOpenChild, BeginClose, BeginUse, BeginClean, Drop,
       Begin
  <1>2. /\ pc'[t] \in {"idle", "find_client", "verify", "clean"}
        /\ meant' = meant
    BY <1>1 DEF NewRequest, BeginOpenDir, BeginOpenChild, BeginClose, BeginUse,
       BeginClean, Drop, Begin, Submit
  <1>3. QED
    BY <1>1, <1>2 DEF OwnOf

LEMMA OwnThreadStep ==
  ASSUME HoldInv, NEW t \in Threads, OwnOf(t), ThreadStep(t)
  PROVE  OwnOf(t)'
  <1>1. /\ pc \in [Threads -> Where] /\ client \in [Threads -> MaybeObject]
        /\ parent \in [Threads -> MaybeObject] /\ meant \in [Threads -> MaybeObject]
    BY DEF HoldInv, LoopInv, MapsInv, Shape, TypeOK, RequestsOK, LocalsOK
  <1>2. CASE CheckPasses(t)
    BY <1>1, <1>2 DEF CheckPasses, Granted, OwnOf, tables, request
  <1>3. CASE SubmitLookup(t)
    BY <1>1, <1>3 DEF SubmitLookup, Submit, OwnOf, tables, clients, request
  <1>4. CASE CheckRoom(t)
    BY <1>1, <1>4 DEF CheckRoom, Submit, OwnOf, tables, clients, request
  <1>5. CASE \/ CheckFails(t) \/ CheckForUse(t) \/ SubmitRemove(t) \/ SubmitCopyName(t)
             \/ ReleaseLocalClient(t) \/ ReleaseLocalEntry(t) \/ ReleaseLocalParent(t)
             \/ Return(t)
    <2>1. pc'[t] \in {"release", "plugin", "idle", "copy_name", "get_entry"}
      BY <1>1, <1>5 DEF CheckFails, CheckForUse, SubmitRemove, SubmitCopyName,
         ReleaseLocalClient, ReleaseLocalEntry, ReleaseLocalParent, Return, Idle, Submit,
         request
    <2>2. QED
      BY <2>1 DEF OwnOf
  <1>6. QED
    BY <1>2, <1>3, <1>4, <1>5 DEF ThreadStep

LEMMA OwnBlock ==
  ASSUME HoldInv, PortsOwn, NEW t \in Threads, OwnOf(t),
         \/ RunVerify(t) \/ RunLookup(t) \/ RunFindClient(t) \/ RunInsert(t)
         \/ RunPlugin(t) \/ RunGetEntry(t) \/ RunClean(t) \/ FinishClean(t)
  PROVE  OwnOf(t)'
  <1>1. /\ pc \in [Threads -> Where] /\ client \in [Threads -> MaybeObject]
        /\ parent \in [Threads -> MaybeObject] /\ meant \in [Threads -> MaybeObject]
        /\ fPortToClientEntry \in [Ports -> MaybeObject]
        /\ portInfo \in [Object -> Ports] /\ PortOf[t] \in Ports
        /\ RequestOK(t) /\ LocalsOf(t) /\ MapsAgree
    BY DEF HoldInv, LoopInv, MapsInv, Shape, TypeOK, TablesOK, ClientsOK, RequestsOK,
       LocalsOK, Locals
  <1>2. CASE RunVerify(t)
    <2>1. ref[t] \in RefNum
      BY <1>1, <1>2 DEF RunVerify, Runs, RequestOK
    <2>2. fRefToEntry[ref[t]] = NULL <=> fRefToClientEntry[ref[t]] = NULL
      BY <1>1, <2>1 DEF MapsAgree
    <2>3. /\ pc'[t] = "check" /\ ref' = ref /\ UNCHANGED <<fRefToEntry, fRefToClientEntry>>
          /\ client'[t] = fRefToClientEntry[ref[t]] /\ meant'[t] = fRefToEntry[ref[t]]
      BY <1>1, <1>2 DEF RunVerify, tables
    <2>4. QED
      BY <2>2, <2>3 DEF OwnOf
  <1>3. CASE RunLookup(t)
    <2>1. CASE fRefToEntry[ref[t]] = NULL
      <3>1. pc'[t] = "release"
        BY <1>1, <1>3, <2>1 DEF RunLookup
      <3>2. QED
        BY <3>1 DEF OwnOf
    <2>2. CASE fRefToEntry[ref[t]] # NULL
      <3>1. /\ pc[t] = "lookup" /\ pc'[t] = "room" /\ meant' = meant /\ portInfo' = portInfo
            /\ parent'[t] = fRefToEntry[ref[t]] /\ client'[t] = fRefToClientEntry[ref[t]]
        BY <1>1, <1>3, <2>2 DEF RunLookup, Runs, request
      <3>2. QED
        BY <3>1 DEF OwnOf
    <2>3. QED
      BY <2>1, <2>2
  <1>4. CASE RunFindClient(t)
    <2>1. /\ pc'[t] = "room" /\ entry[t] \in Object
          /\ \/ /\ fPortToClientEntry[PortOf[t]] # NULL
                /\ client'[t] = fPortToClientEntry[PortOf[t]] /\ portInfo' = portInfo
             \/ /\ client'[t] = entry[t]
                /\ portInfo' = [portInfo EXCEPT ![entry[t]] = PortOf[t]]
      BY <1>1, <1>4 DEF RunFindClient, Runs, LocalsOf
    <2>2. portInfo'[client'[t]] = PortOf[t]
      BY <1>1, <2>1 DEF PortsOwn
    <2>3. QED
      BY <2>1, <2>2 DEF OwnOf
  <1>5. CASE \/ RunInsert(t) \/ RunPlugin(t) \/ RunGetEntry(t) \/ RunClean(t)
             \/ FinishClean(t)
    <2>1. pc'[t] \in {"release", "copy_name", "idle", "cleaning"}
      BY <1>1, <1>5, Zenon DEF RunInsert, RunPlugin, RunGetEntry, RunClean, FinishClean, Idle
    <2>2. QED
      BY <2>1 DEF OwnOf
  <1>6. QED
    BY <1>2, <1>3, <1>4, <1>5

\* A port keeps its client, loses it to a clean-up or gets a new one of its own.
LEMMA PortsKept ==
  ASSUME Finite, HoldInv, PortsOwn, [Next]_vars
  PROVE  PortsOwn'
  <1>1. /\ Shape /\ fPortToClientEntry \in [Ports -> MaybeObject]
        /\ portInfo \in [Object -> Ports] /\ PortOf \in [Threads -> Ports]
    BY DEF HoldInv, LoopInv, MapsInv, Shape, TypeOK, TablesOK, ClientsOK
  <1>2. PortInfoKept
    BY NextKeeps
  <1>3. \A p \in Ports : fPortToClientEntry[p] # NULL =>
          portInfo'[fPortToClientEntry[p]] = p
    <2>1. TAKE p \in Ports
    <2>2. fPortToClientEntry[p] # NULL => /\ fPortToClientEntry[p] \in Object
                                          /\ cStatus[fPortToClientEntry[p]] = "live"
      BY <1>1, PointedClientIsLive DEF MaybeObject, HoldInv
    <2>3. QED
      BY <1>2, <2>2 DEF PortInfoKept, PortsOwn
  <1>4. ASSUME UNCHANGED fPortToClientEntry
        PROVE  PortsOwn'
    BY <1>3, <1>4 DEF PortsOwn
  <1>5. ASSUME NEW t \in Threads, RunFindClient(t)
        PROVE  PortsOwn'
    <2>1. /\ entry[t] \in Object
          /\ \/ UNCHANGED fPortToClientEntry
             \/ /\ fPortToClientEntry' = [fPortToClientEntry EXCEPT ![PortOf[t]] = entry[t]]
                /\ portInfo' = [portInfo EXCEPT ![entry[t]] = PortOf[t]]
      BY <1>5 DEF RunFindClient, Runs, HoldInv, Locals, LocalsOf
    <2>2. CASE UNCHANGED fPortToClientEntry
      BY <1>4, <2>2
    <2>3. CASE /\ fPortToClientEntry' = [fPortToClientEntry EXCEPT ![PortOf[t]] = entry[t]]
               /\ portInfo' = [portInfo EXCEPT ![entry[t]] = PortOf[t]]
      <3>1. portInfo'[entry[t]] = PortOf[t]
        BY <1>1, <2>1, <2>3
      <3>2. QED
        BY <1>1, <1>3, <2>3, <3>1 DEF PortsOwn
    <2>4. QED
      BY <2>1, <2>2, <2>3
  <1>6. ASSUME NEW t \in Threads, RunClean(t)
        PROVE  PortsOwn'
    <2>1. \/ UNCHANGED fPortToClientEntry
          \/ fPortToClientEntry' = [fPortToClientEntry EXCEPT ![PortOf[t]] = NULL]
      BY <1>6 DEF RunClean
    <2>2. QED
      BY <1>1, <1>3, <2>1 DEF PortsOwn
  <1>7. ASSUME NEW t \in Threads,
               \/ NewRequest(t) \/ ThreadStep(t) \/ RunVerify(t) \/ RunLookup(t)
               \/ RunInsert(t) \/ RunPlugin(t) \/ RunGetEntry(t) \/ FinishClean(t)
        PROVE  UNCHANGED fPortToClientEntry
    <2>1. CASE NewRequest(t)
      BY <2>1 DEF NewRequest, BeginOpenDir, BeginOpenChild, BeginClose, BeginUse,
         BeginClean, Drop, Begin, tables
    <2>2. CASE ThreadStep(t)
      BY <2>2 DEF ThreadStep, CheckFails, CheckForUse, CheckPasses, SubmitRemove,
         SubmitLookup, CheckRoom, SubmitCopyName, ReleaseLocalClient,
         ReleaseLocalEntry, ReleaseLocalParent, Return, tables
    <2>3. QED
      BY <1>7, <2>1, <2>2 DEF RunVerify, RunLookup, RunInsert, RunPlugin, RunGetEntry,
         FinishClean, tables
  <1>8. ASSUME \/ RunDealloc \/ RunRemove \/ Rest \/ UNCHANGED vars
               \/ \E a \in Agents : Destructor(a)
        PROVE  UNCHANGED fPortToClientEntry
    BY <1>8, Zenon DEF RunDealloc, RunRemove, Rest, vars, Destructor, ReleaseSubRef, FinishEntry,
       ClearChildRef, FreeClient, tables
  <1>9. QED
    BY <1>4, <1>5, <1>6, <1>7, <1>8 DEF Next, RunBlock

\* A step of one thread leaves what the others have in hand.
LEMMA OthersAsTheyWere ==
  ASSUME Shape, NEW t \in Threads,
         \/ NewRequest(t) \/ ThreadStep(t)
         \/ RunVerify(t) \/ RunLookup(t) \/ RunFindClient(t) \/ RunInsert(t)
         \/ RunPlugin(t) \/ RunGetEntry(t) \/ RunClean(t) \/ FinishClean(t),
         NEW u \in Threads, u # t
  PROVE  /\ pc'[u] = pc[u] /\ meant'[u] = meant[u] /\ ref'[u] = ref[u]
         /\ client'[u] = client[u] /\ parent'[u] = parent[u]
  <1>1. /\ pc \in [Threads -> Where] /\ client \in [Threads -> MaybeObject]
        /\ parent \in [Threads -> MaybeObject] /\ meant \in [Threads -> MaybeObject]
        /\ ref \in [Threads -> RefNum \cup {0}]
    BY DEF Shape, TypeOK, RequestsOK, LocalsOK
  <1>2. CASE NewRequest(t)
    BY <1>1, <1>2 DEF NewRequest, BeginOpenDir, BeginOpenChild, BeginClose, BeginUse,
       BeginClean, Drop, Begin, Submit
  <1>3. CASE ThreadStep(t)
    BY <1>1, <1>3 DEF ThreadStep, CheckFails, CheckForUse, CheckPasses,
       SubmitRemove, SubmitLookup, CheckRoom, SubmitCopyName, ReleaseLocalClient,
       ReleaseLocalEntry, ReleaseLocalParent, Return, Idle, Submit, request
  <1>4. CASE RunVerify(t) \/ RunLookup(t) \/ RunFindClient(t) \/ RunInsert(t)
    BY <1>1, <1>4 DEF RunVerify, RunLookup, RunFindClient, RunInsert, request
  <1>5. CASE RunPlugin(t) \/ RunGetEntry(t) \/ RunClean(t) \/ FinishClean(t)
    BY <1>1, <1>5 DEF RunPlugin, RunGetEntry, RunClean, FinishClean, Idle, request
  <1>6. QED
    BY <1>2, <1>3, <1>4, <1>5

LEMMA NextOwn ==
  ASSUME Finite, OwnInv, [Next]_vars
  PROVE  OwnInv'
  <1>1. HoldInv /\ PortsOwn /\ Shape /\ \A t \in Threads : OwnOf(t)
    BY DEF OwnInv, HoldInv, LoopInv, MapsInv
  <1>2. HoldInv' /\ PortsOwn' /\ MapsKept /\ PortInfoKept
    BY <1>1, NextHolds, PortsKept, NextKeeps
  <1>3. ASSUME NEW t \in Threads,
               \/ NewRequest(t) \/ ThreadStep(t)
               \/ RunVerify(t) \/ RunLookup(t) \/ RunFindClient(t) \/ RunInsert(t)
               \/ RunPlugin(t) \/ RunGetEntry(t) \/ RunClean(t) \/ FinishClean(t)
        PROVE  \A u \in Threads : OwnOf(u)'
    <2>1. OwnOf(t)'
      BY <1>1, <1>3, OwnRequest, OwnThreadStep, OwnBlock
    <2>2. ASSUME NEW u \in Threads, u # t
          PROVE  OwnOf(u)'
      <3>1. /\ pc'[u] = pc[u] /\ meant'[u] = meant[u] /\ ref'[u] = ref[u]
            /\ client'[u] = client[u] /\ parent'[u] = parent[u]
        BY <1>1, <1>3, <2>2, OthersAsTheyWere
      <3>2. QED
        BY <1>1, <1>2, <3>1, OwnKept
    <2>3. QED
      BY <2>1, <2>2
  <1>4. ASSUME \/ RunDealloc \/ RunRemove \/ Rest \/ UNCHANGED vars
               \/ \E a \in Agents : Destructor(a)
        PROVE  \A u \in Threads : OwnOf(u)'
    <2>1. UNCHANGED <<pc, meant, ref, client, parent>>
      BY <1>4, Zenon DEF RunDealloc, RunRemove, Rest, vars, Destructor, ReleaseSubRef,
         FinishEntry, ClearChildRef, FreeClient, request
    <2>2. QED
      BY <1>1, <1>2, <2>1, OwnKept
  <1>5. QED
    BY <1>2, <1>3, <1>4 DEF OwnInv, Next, RunBlock

\* A child is given to the client of the thread that opens it whenever the
\* parent found in the table is the one whose owner was verified, although the
\* two are separate blocks of CRefTable::CreateReference, between which the
\* number may change hands.
THEOREM OwnClientCorrect ==
  ASSUME IsFiniteSet(Threads), IsFiniteSet(Ports)
  PROVE  Spec => []CallersOwnClient
  <1>1. Finite
    BY DEF Finite
  <1>2. Init => OwnInv
    <2>1. SUFFICES ASSUME Init PROVE OwnInv
      OBVIOUS
    <2>2. HoldInv
      BY <1>1, <2>1, InitHolds
    <2>3. PortsOwn /\ \A t \in Threads : OwnOf(t)
      BY <2>1 DEF Init, PortsOwn, OwnOf
    <2>4. QED
      BY <2>2, <2>3 DEF OwnInv
  <1>3. OwnInv /\ [Next]_vars => OwnInv'
    BY <1>1, NextOwn
  <1>4. OwnInv => CallersOwnClient
    BY DEF OwnInv, OwnOf, HoldInv, LoopInv, MapsInv, ForAClient, CallersOwnClient
  <1>5. QED
    BY <1>2, <1>3, <1>4, PTL DEF Spec

-----------------------------------------------------------------------------
(***************************************************************************)
(* Nothing is left behind.  What has left a list is about to leave the     *)
(* table (Listed, Hung); what is dying has a destructor that runs          *)
(* (Ending); and the references of a client whose port was cleaned are     *)
(* removed before its thread is served again (Stale), so that nothing new  *)
(* is given to it (Inserting).                                             *)
(***************************************************************************)
\* A thread waits for one block of its own at most.
Waiting == {"find_client", "verify", "lookup", "insert", "plugin", "get_entry", "clean"}
BlockOf(i, t) == queue[i].op = "sync" /\ queue[i].who = t
OneBlockEach ==
  \A t \in Threads :
    /\ pc[t] \notin Waiting => \A i \in 1..Len(queue) : ~BlockOf(i, t)
    /\ \A i, j \in 1..Len(queue) : BlockOf(i, t) /\ BlockOf(j, t) => i = j

\* What a request asks for.
Asks(t) ==
  /\ op[t] = "create" => ref[t] = 0 \/ type[t] \in ChildTypes(GetRefType(ref[t]))
  /\ pc[t] = "find_client" => ref[t] = 0
  /\ pc[t] \in {"room", "insert"} /\ ref[t] # 0 => parent[t] # NULL
  /\ pc[t] \in {"clean", "cleaning"} => PortOf[t] # InternalPort

\* A removal of the number waits, with no block of these threads before it.
Goes(n, S) ==
  \E i \in 1..Len(queue) :
    /\ queue[i].op = "remove" /\ queue[i].num = n
    /\ \A j \in 1..(i - 1) : \A t \in S : ~BlockOf(j, t)

Listed ==
  \A n \in RefNum :
    fRefToEntry[n] # NULL =>
      cSubRefs[fRefToClientEntry[n]][n] # NULL \/ Goes(n, {})

\* A child in the table is in the list of an entry that has, or had, the
\* number of its parent.
HungUp(n, e) == \E p \in Object : fSubRefs[p][n] = e /\ fRefNum[p] = fParentID[e]
Hung ==
  \A n \in RefNum, e \in Object :
    fRefToEntry[n] = e /\ fParentID[e] # 0 => HungUp(n, e) \/ Goes(n, {})

Over == {"unmade", "freed", "closed"}
InAFrame(e) == \E a \in Agents : EntryFrame(e) \in Elems(stack[a])
Ending ==
  /\ \A e \in Object : status[e] = "dying" => InAFrame(e)
  /\ \A e \in Object : status[e] \in Over => \A n \in RefNum : fSubRefs[e][n] = NULL
  /\ \A e \in Elems(cleanup) : status[e] \in Over

Layered ==
  \A p \in Object, n \in RefNum :
    fSubRefs[p][n] # NULL => GetRefType(n) \in ChildTypes(GetRefType(fRefNum[p]))

\* The port has this client now; the daemon's own port never had another.
Current(c) == fPortToClientEntry[portInfo[c]] = c
OneInternal ==
  \A c \in Object : cStatus[c] # "unmade" /\ portInfo[c] = InternalPort => Current(c)

Inserting ==
  \A t \in Threads : pc[t] \in {"room", "insert"} =>
    fPortToClientEntry[PortOf[t]] = client[t]

OfPort(p) == {t \in Threads : PortOf[t] = p}
Cleans(t, c) == PortOf[t] = portInfo[c] /\ pc[t] = "cleaning" /\ client[t] = c
Stale ==
  \A n \in RefNum, c \in Object :
    fRefToClientEntry[n] = c /\ ~Current(c) =>
      IF cSubRefs[c][n] # NULL THEN \E t \in Threads : Cleans(t, c)
                               ELSE Goes(n, OfPort(portInfo[c]))

TidyInv ==
  /\ OwnInv /\ OneBlockEach /\ \A t \in Threads : Asks(t)
  /\ Listed /\ Hung /\ Ending /\ Layered /\ OneInternal
  /\ NoIndexRecycled => Exact /\ Inserting /\ Stale

-----------------------------------------------------------------------------
(***************************************************************************)
(* The queue.                                                              *)
(***************************************************************************)
LEMMA GoesOn ==
  ASSUME queue \in Seq(Block), NEW n, NEW S, Goes(n, S),
         \/ queue' = queue
         \/ \E b \in Block : queue' = Append(queue, b)
         \/ queue # <<>> /\ queue' = Tail(queue)
            /\ ~(Head(queue).op = "remove" /\ Head(queue).num = n)
  PROVE  Goes(n, S)'
<1>1. PICK i \in 1..Len(queue) :
        /\ queue[i].op = "remove" /\ queue[i].num = n
        /\ \A j \in 1..(i - 1) : \A t \in S : ~BlockOf(j, t)
  BY DEF Goes
<1>2. CASE queue' = queue
  BY <1>1, <1>2 DEF Goes, BlockOf
<1>3. ASSUME NEW b \in Block, queue' = Append(queue, b)
      PROVE  Goes(n, S)'
  <2>1. Len(queue') = Len(queue) + 1 /\ \A j \in 1..Len(queue) : queue'[j] = queue[j]
    BY <1>3, AppendProperties
  <2>2. i \in 1..Len(queue') /\ \A j \in 1..(i - 1) : j \in 1..Len(queue)
    BY <2>1, LenProperties
  <2> QED BY <1>1, <2>1, <2>2 DEF Goes, BlockOf
<1>4. CASE queue # <<>> /\ queue' = Tail(queue)
           /\ ~(Head(queue).op = "remove" /\ Head(queue).num = n)
  <2>1. /\ Len(queue') = Len(queue) - 1 /\ Head(queue) = queue[1]
        /\ \A j \in 1..Len(queue') : queue'[j] = queue[j + 1]
    BY <1>4, HeadTailProperties
  <2>2. i # 1 /\ Len(queue) \in Nat
    BY <1>1, <1>4, <2>1, LenProperties, Zenon
  <2>3. i - 1 \in 1..Len(queue') /\ queue'[i - 1] = queue[i]
    BY <2>1, <2>2
  <2>4. \A j \in 1..(i - 1 - 1) : j \in 1..Len(queue') /\ j + 1 \in 1..(i - 1)
    BY <2>1, <2>2
  <2>5. \A j \in 1..(i - 1 - 1) : \A t \in S : ~BlockOf(j, t)'
    BY <1>1, <2>1, <2>4 DEF BlockOf
  <2> QED BY <1>1, <2>3, <2>5 DEF Goes
<1> QED BY <1>2, <1>3, <1>4

LEMMA GoesNow ==
  ASSUME queue \in Seq(Block), NEW n \in RefNum, NEW e \in MaybeObject, NEW S,
         SubmitRemoval(n, e), \A j \in 1..Len(queue) : \A t \in S : ~BlockOf(j, t)
  PROVE  Goes(n, S)'
<1>1. RemoveBlock(n, e) \in Block
  BY DEF RemoveBlock, Block
<1>2. /\ Len(queue') = Len(queue) + 1 /\ Len(queue) \in Nat
      /\ \A j \in 1..Len(queue) : queue'[j] = queue[j]
      /\ queue'[Len(queue) + 1] = RemoveBlock(n, e)
  BY <1>1, AppendProperties DEF SubmitRemoval
<1>3. \A j \in 1..(Len(queue) + 1 - 1) : \A t \in S : ~BlockOf(j, t)'
  BY <1>2 DEF BlockOf
<1> QED BY <1>2, <1>3 DEF Goes, RemoveBlock

\* Less is asked of fewer threads.
LEMMA GoesAnyway ==
  ASSUME NEW n, NEW S, Goes(n, S)
  PROVE  Goes(n, {})
BY DEF Goes

\* A block of the thread at the head is before every removal.
LEMMA GoesFirst ==
  ASSUME queue \in Seq(Block), NEW n, NEW S, Goes(n, S), NEW t \in S,
         queue # <<>>, Head(queue) = SyncBlock(t)
  PROVE  FALSE
<1>1. PICK i \in 1..Len(queue) :
        /\ queue[i].op = "remove" /\ queue[i].num = n
        /\ \A j \in 1..(i - 1) : ~BlockOf(j, t)
  BY DEF Goes
<1>2. Head(queue) = queue[1] /\ Len(queue) \in Nat
  BY HeadTailProperties, LenProperties
<1>3. BlockOf(1, t) /\ queue[1].op = "sync"
  BY <1>2 DEF BlockOf, SyncBlock
<1>4. i # 1
  BY <1>1, <1>3
<1> QED BY <1>1, <1>2, <1>3, <1>4

\* The blocks of a thread stay, but for one put at the end or one taken from the head.
LEMMA BlocksAppended ==
  ASSUME queue \in Seq(Block), NEW b \in Block, queue' = Append(queue, b)
  PROVE  /\ Len(queue') = Len(queue) + 1 /\ Len(queue) \in Nat
         /\ \A t : \A i \in 1..Len(queue) : BlockOf(i, t)' = BlockOf(i, t)
         /\ queue'[Len(queue) + 1] = b
<1>1. /\ Len(queue') = Len(queue) + 1 /\ Len(queue) \in Nat
      /\ \A j \in 1..Len(queue) : queue'[j] = queue[j]
      /\ queue'[Len(queue) + 1] = b
  BY AppendProperties
<1> QED BY <1>1 DEF BlockOf

LEMMA BlocksShifted ==
  ASSUME queue \in Seq(Block), queue # <<>>, queue' = Tail(queue)
  PROVE  /\ Len(queue') = Len(queue) - 1 /\ Len(queue) \in Nat
         /\ \A t : \A i \in 1..Len(queue') :
              i + 1 \in 1..Len(queue) /\ BlockOf(i, t)' = BlockOf(i + 1, t)
         /\ 1 \in 1..Len(queue) /\ queue[1] = Head(queue)
<1>1. /\ Len(queue') = Len(queue) - 1 /\ Len(queue) \in Nat /\ Len(queue) # 0
      /\ Head(queue) = queue[1]
      /\ \A j \in 1..Len(queue') : queue'[j] = queue[j + 1]
  BY HeadTailProperties, LenProperties
<1> QED BY <1>1 DEF BlockOf

\* OneBlockEach for one thread.
OneBlock(t) ==
  /\ pc[t] \notin Waiting => \A i \in 1..Len(queue) : ~BlockOf(i, t)
  /\ \A i, j \in 1..Len(queue) : BlockOf(i, t) /\ BlockOf(j, t) => i = j

LEMMA OneBlockMeans ==
  ASSUME NEW t, pc'[t] \notin Waiting => \A i \in 1..Len(queue') : ~BlockOf(i, t)',
         \A i, j \in 1..Len(queue') : BlockOf(i, t)' /\ BlockOf(j, t)' => i = j
  PROVE  OneBlock(t)'
BY DEF OneBlock

LEMMA OneBlockKept ==
  ASSUME queue \in Seq(Block), NEW t, OneBlock(t), pc'[t] = pc[t] \/ pc[t] \notin Waiting,
         \/ queue' = queue
         \/ \E b \in Block : queue' = Append(queue, b) /\ (b.op = "remove" \/ b.who # t)
         \/ queue # <<>> /\ queue' = Tail(queue)
  PROVE  OneBlock(t)'
<1>1. CASE queue' = queue
  BY <1>1 DEF OneBlock, BlockOf
<1>2. ASSUME NEW b \in Block, queue' = Append(queue, b), b.op = "remove" \/ b.who # t
      PROVE  OneBlock(t)'
  <2>0. /\ Len(queue') = Len(queue) + 1 /\ Len(queue) \in Nat
        /\ \A i \in 1..Len(queue) : BlockOf(i, t)' = BlockOf(i, t)
        /\ queue'[Len(queue) + 1] = b
    BY <1>2, BlocksAppended
  <2>1. PICK k : k = Len(queue) + 1
    OBVIOUS
  <2>2. ~BlockOf(k, t)'
    <3>1. b.op # "sync" \/ b.who # t
      BY <1>2
    <3> QED BY <2>0, <2>1, <3>1 DEF BlockOf
  <2>3. \A i \in 1..Len(queue') : BlockOf(i, t)' => i \in 1..Len(queue) /\ BlockOf(i, t)
    <3>1. \A i \in 1..Len(queue') : i \in 1..Len(queue) \/ i = k
      BY <2>0, <2>1
    <3> QED BY <2>0, <2>2, <3>1
  <2>4. \A i, j \in 1..Len(queue') : BlockOf(i, t)' /\ BlockOf(j, t)' => i = j
    BY <2>3 DEF OneBlock
  <2>5. pc'[t] \notin Waiting => \A i \in 1..Len(queue') : ~BlockOf(i, t)'
    <3>1. pc'[t] \notin Waiting => pc[t] \notin Waiting
      OBVIOUS
    <3> QED BY <2>3, <3>1 DEF OneBlock
  <2> QED BY <2>4, <2>5, OneBlockMeans
<1>3. CASE queue # <<>> /\ queue' = Tail(queue)
  <2>1. /\ Len(queue') = Len(queue) - 1 /\ Len(queue) \in Nat
        /\ \A i \in 1..Len(queue') :
             i + 1 \in 1..Len(queue) /\ BlockOf(i, t)' = BlockOf(i + 1, t)
    BY <1>3, BlocksShifted, Zenon
  <2>2. \A i, j \in 1..Len(queue') : BlockOf(i, t)' /\ BlockOf(j, t)' => i = j
    <3>1. \A i, j \in 1..Len(queue') : BlockOf(i, t)' /\ BlockOf(j, t)' => i + 1 = j + 1
      BY <2>1 DEF OneBlock
    <3> QED BY <3>1
  <2>3. pc'[t] \notin Waiting => \A i \in 1..Len(queue') : ~BlockOf(i, t)'
    <3>1. pc'[t] \notin Waiting => pc[t] \notin Waiting
      OBVIOUS
    <3> QED BY <2>1, <3>1 DEF OneBlock
  <2> QED BY <2>2, <2>3, OneBlockMeans
<1> QED BY <1>1, <1>2, <1>3

LEMMA OneBlockGiven ==
  ASSUME queue \in Seq(Block), NEW t \in Threads, OneBlock(t), pc[t] \notin Waiting,
         pc'[t] \in Waiting, queue' = Append(queue, SyncBlock(t))
  PROVE  OneBlock(t)'
<1>1. SyncBlock(t) \in Block
  BY DEF SyncBlock, Block
<1>2. Len(queue) \in Nat /\ \A i \in 1..Len(queue') : i \in 1..Len(queue) \/ i = Len(queue) + 1
  BY <1>1, BlocksAppended
<1> QED BY <1>1, <1>2, BlocksAppended DEF OneBlock

LEMMA OneBlockTaken ==
  ASSUME queue \in Seq(Block), NEW t \in Threads, OneBlock(t),
         queue # <<>>, Head(queue) = SyncBlock(t), queue' = Tail(queue)
  PROVE  OneBlock(t)'
<1>1. BlockOf(1, t) /\ 1 \in 1..Len(queue)
  BY BlocksShifted DEF BlockOf, SyncBlock
<1>2. \A i \in 1..Len(queue') : ~BlockOf(i, t)'
  BY <1>1, BlocksShifted DEF OneBlock
<1> QED BY <1>2 DEF OneBlock

\* What each step does with the queue: a thread that submits a block does not wait for one.
Gives(t) == /\ pc[t] \notin Waiting /\ pc'[t] \in Waiting
            /\ queue' = Append(queue, SyncBlock(t))
Takes(t) == queue # <<>> /\ Head(queue) = SyncBlock(t) /\ queue' = Tail(queue) /\ pc[t] \in Waiting
Removal == queue # <<>> /\ Head(queue).op = "remove" /\ queue' = Tail(queue)
OthersWait(t) == \A u \in Threads : u # t => pc'[u] = pc[u]

LEMMA RemovalGiven ==
  ASSUME NEW n \in RefNum, NEW e \in MaybeObject, SubmitRemoval(n, e)
  PROVE  \E b \in Block : b.op = "remove" /\ queue' = Append(queue, b)
<1>1. RemoveBlock(n, e) \in Block /\ RemoveBlock(n, e).op = "remove"
  BY DEF RemoveBlock, Block
<1> QED BY <1>1 DEF SubmitRemoval

LEMMA ThreadMoves ==
  ASSUME Shape, Noted, NEW t \in Threads, NewRequest(t) \/ ThreadStep(t)
  PROVE  /\ OthersWait(t) /\ pc[t] \notin Waiting
         /\ \/ Gives(t)
            \/ queue' = queue
            \/ \E b \in Block : b.op = "remove" /\ queue' = Append(queue, b)
<1>1. pc \in [Threads -> Where] /\ fRefToEntry \in RefMap /\ fRefNum \in [Object -> RefNum \cup {0}]
  BY DEF Shape, TypeOK, RequestsOK, TablesOK, EntriesOK
<1>2. ASSUME NEW w \in Waiting, Submit(t, w), pc[t] \notin Waiting
      PROVE  OthersWait(t) /\ Gives(t)
  BY <1>1, <1>2 DEF Submit, OthersWait, Gives
<1>3. CASE NewRequest(t)
  <2>1. ASSUME NEW o, NEW n, NEW ty, NEW w \in {"find_client", "verify", "clean"},
               Begin(t, o, n, ty, w)
        PROVE  OthersWait(t) /\ Gives(t) /\ pc[t] \notin Waiting
    BY <1>2, <2>1 DEF Begin, Waiting
  <2>2. ASSUME NEW n \in Issued, Drop(t, n)
        PROVE  /\ OthersWait(t) /\ pc[t] \notin Waiting
               /\ \E b \in Block : b.op = "remove" /\ queue' = Append(queue, b)
    <3>1. n \in RefNum
      BY <1>1 DEF Issued
    <3>2. fRefToEntry[n] \in MaybeObject
      BY <1>1, <3>1 DEF RefMap
    <3> QED BY <2>2, <3>1, <3>2, RemovalGiven DEF Drop, OthersWait, Waiting
  <2> QED BY <1>3, <2>1, <2>2 DEF NewRequest, BeginOpenDir, BeginOpenChild, BeginClose,
          BeginUse, BeginClean
<1>4. CASE CheckForUse(t) \/ SubmitLookup(t) \/ CheckRoom(t) \/ SubmitCopyName(t)
  <2>1. OthersWait(t)
    BY <1>1, <1>4 DEF CheckForUse, SubmitLookup, CheckRoom, SubmitCopyName, Submit, OthersWait
  <2>2. pc[t] \notin Waiting
    BY <1>4 DEF CheckForUse, SubmitLookup, CheckRoom, SubmitCopyName, Waiting
  <2>3. queue' = queue \/ \E w \in Waiting : Submit(t, w)
    BY <1>4 DEF CheckForUse, SubmitLookup, CheckRoom, SubmitCopyName, Waiting
  <2> QED BY <1>2, <2>1, <2>2, <2>3
<1>5. CASE SubmitRemove(t)
  <2>1. ref[t] \in RefNum /\ meant[t] \in MaybeObject /\ pc[t] = "verified"
    BY <1>5 DEF SubmitRemove, Shape, RequestOK, TypeOK, RequestsOK
  <2>2. \E b \in Block : b.op = "remove" /\ queue' = Append(queue, b)
    BY <1>5, <2>1, RemovalGiven DEF SubmitRemove
  <2> QED BY <1>1, <1>5, <2>1, <2>2 DEF SubmitRemove, Idle, OthersWait, Waiting
<1>6. CASE \/ CheckFails(t) \/ CheckPasses(t) \/ ReleaseLocalClient(t) \/ ReleaseLocalEntry(t)
           \/ ReleaseLocalParent(t) \/ Return(t)
  BY <1>1, <1>6 DEF CheckFails, CheckPasses, ReleaseLocalClient, ReleaseLocalEntry,
     ReleaseLocalParent, Return, Idle, OthersWait, Waiting
<1> QED BY <1>3, <1>4, <1>5, <1>6 DEF ThreadStep

\* A block of a thread is run.
Served(t) ==
  \/ RunVerify(t) \/ RunLookup(t) \/ RunFindClient(t) \/ RunInsert(t)
  \/ RunPlugin(t) \/ RunGetEntry(t) \/ RunClean(t)

LEMMA BlockMoves ==
  ASSUME Shape, NEW t \in Threads, Served(t)
  PROVE  OthersWait(t) /\ Takes(t)
<1>1. pc \in [Threads -> Where]
  BY DEF Shape, TypeOK, RequestsOK
<1>2. Takes(t)
  BY DEF Served, RunVerify, RunLookup, RunFindClient, RunInsert, RunPlugin, RunGetEntry,
     RunClean, Runs, Takes, Waiting
<1>3. OthersWait(t)
  BY <1>1 DEF Served, RunVerify, RunLookup, RunFindClient, RunInsert, RunPlugin, RunGetEntry,
     RunClean, OthersWait, Idle
<1> QED BY <1>2, <1>3

LEMMA DestructorMoves ==
  ASSUME Shape, NEW a \in Agents, Destructor(a)
  PROVE  /\ pc' = pc
         /\ queue' = queue \/ \E b \in Block : b.op = "remove" /\ queue' = Append(queue, b)
<1>1. /\ fSubRefs \in [Object -> RefMap] /\ cSubRefs \in [Object -> RefMap]
      /\ stack \in [Agents -> Seq(Frame)]
  BY DEF Shape, TypeOK, EntriesOK, ClientsOK, QueuesOK
<1>2. ASSUME stack[a] # <<>> PROVE Head(stack[a]).obj \in Object
  <2>1. Head(stack[a]) \in Frame
    BY <1>1, <1>2, HeadTailProperties
  <2> QED BY <2>1 DEF Frame
<1>3. CASE ReleaseSubRef(a) \/ ClearChildRef(a)
  <2>1. \E o \in Object, n \in RefNum :
          SubmitRemoval(n, fSubRefs[o][n]) \/ SubmitRemoval(n, cSubRefs[o][n])
    BY <1>2, <1>3 DEF ReleaseSubRef, ClearChildRef, TopIs
  <2>2. \A o \in Object, n \in RefNum : fSubRefs[o][n] \in MaybeObject /\ cSubRefs[o][n] \in MaybeObject
    BY <1>1 DEF RefMap
  <2>3. pc' = pc
    BY <1>3 DEF ReleaseSubRef, ClearChildRef
  <2> QED BY <2>1, <2>2, <2>3, RemovalGiven
<1>4. CASE FinishEntry(a) \/ FreeClient(a)
  BY <1>4 DEF FinishEntry, FreeClient
<1> QED BY <1>3, <1>4 DEF Destructor

LEMMA Moves ==
  ASSUME Shape, Noted, [Next]_vars
  PROVE  \/ \E t \in Threads :
              /\ OthersWait(t) /\ pc[t] \notin Waiting
              /\ \/ Gives(t)
                 \/ queue' = queue
                 \/ \E b \in Block : b.op = "remove" /\ queue' = Append(queue, b)
         \/ \E t \in Threads : OthersWait(t) /\ Takes(t)
         \/ /\ pc' = pc
            /\ \/ queue' = queue
               \/ \E b \in Block : b.op = "remove" /\ queue' = Append(queue, b)
               \/ RunRemove /\ Removal
<1>1. pc \in [Threads -> Where]
  BY DEF Shape, TypeOK, RequestsOK
<1>2. ASSUME NEW t \in Threads, FinishClean(t)
      PROVE  OthersWait(t) /\ pc[t] \notin Waiting /\ queue' = queue
  BY <1>1, <1>2 DEF FinishClean, Idle, OthersWait, Waiting
<1>3. CASE RunRemove
  BY <1>3, Zenon DEF RunRemove, Removal
<1>4. CASE RunBlock
  BY <1>2, <1>3, <1>4, BlockMoves DEF RunBlock, Served
<1>5. CASE RunDealloc \/ Rest \/ UNCHANGED vars
  BY <1>5 DEF RunDealloc, Rest, vars
<1>6. CASE \E a \in Agents : Destructor(a)
  BY <1>6, DestructorMoves
<1>7. CASE \E t \in Threads : NewRequest(t) \/ ThreadStep(t)
  BY <1>7, ThreadMoves
<1> QED BY <1>4, <1>5, <1>6, <1>7 DEF Next

LEMMA OneBlockStep ==
  ASSUME Shape, Noted, OneBlockEach, [Next]_vars
  PROVE  OneBlockEach'
<1>1. queue \in Seq(Block) /\ \A t \in Threads : OneBlock(t)
  BY DEF Shape, TypeOK, QueuesOK, OneBlockEach, OneBlock
<1>2. ASSUME NEW t \in Threads, OthersWait(t), pc[t] \notin Waiting,
             \/ Gives(t)
             \/ queue' = queue
             \/ \E b \in Block : b.op = "remove" /\ queue' = Append(queue, b),
             NEW u \in Threads
      PROVE  OneBlock(u)'
  <2>1. CASE u = t /\ Gives(t)
    BY <1>1, <2>1, OneBlockGiven DEF Gives
  <2>2. CASE u # t /\ Gives(t)
    <3>1. SyncBlock(t) \in Block /\ SyncBlock(t).who # u
      BY <2>2 DEF SyncBlock, Block
    <3> QED BY <1>1, <1>2, <2>2, <3>1, OneBlockKept DEF Gives, OthersWait
  <2>3. CASE ~Gives(t)
    BY <1>1, <1>2, <2>3, OneBlockKept DEF OthersWait
  <2> QED BY <2>1, <2>2, <2>3
<1>3. ASSUME NEW t \in Threads, OthersWait(t), Takes(t), NEW u \in Threads
      PROVE  OneBlock(u)'
  <2>1. CASE u = t
    BY <1>1, <1>3, <2>1, OneBlockTaken DEF Takes
  <2>2. CASE u # t
    BY <1>1, <1>3, <2>2, OneBlockKept DEF Takes, OthersWait
  <2> QED BY <2>1, <2>2
<1>4. ASSUME pc' = pc,
             \/ queue' = queue
             \/ \E b \in Block : b.op = "remove" /\ queue' = Append(queue, b)
             \/ Removal,
             NEW u \in Threads
      PROVE  OneBlock(u)'
  BY <1>1, <1>4, OneBlockKept DEF Removal
<1>5. \A u \in Threads : OneBlock(u)'
  BY <1>2, <1>3, <1>4, Moves
<1> QED BY <1>5 DEF OneBlockEach, OneBlock

\* A removal waits until it is run.
LEMMA GoesStep ==
  ASSUME Shape, Noted, [Next]_vars, NEW n, NEW S, Goes(n, S),
         ~(RunRemove /\ Head(queue).num = n)
  PROVE  Goes(n, S)'
<1>1. queue \in Seq(Block)
  BY DEF Shape, TypeOK, QueuesOK
<1>2. ASSUME NEW t \in Threads, Gives(t)
      PROVE  \E b \in Block : queue' = Append(queue, b)
  BY <1>2 DEF Gives, SyncBlock, Block
<1>3. ASSUME NEW t \in Threads, Takes(t)
      PROVE  queue # <<>> /\ queue' = Tail(queue) /\ Head(queue).op # "remove"
  BY <1>3 DEF Takes, SyncBlock
<1>4. \/ queue' = queue
      \/ \E b \in Block : queue' = Append(queue, b)
      \/ queue # <<>> /\ queue' = Tail(queue)
         /\ ~(Head(queue).op = "remove" /\ Head(queue).num = n)
  BY <1>2, <1>3, Moves DEF Removal
<1> QED BY <1>1, <1>4, GoesOn

-----------------------------------------------------------------------------
(***************************************************************************)
(* The requests.                                                           *)
(***************************************************************************)
LEMMA OthersAsk ==
  ASSUME Shape, NEW t \in Threads, NewRequest(t) \/ ThreadStep(t) \/ Served(t) \/ FinishClean(t),
         NEW u \in Threads, u # t, Asks(u)
  PROVE  Asks(u)'
<1>1. /\ op \in [Threads -> {"none", "create", "close", "use", "clean"}]
      /\ type \in [Threads -> RefType \cup {0}]
  BY DEF Shape, TypeOK, RequestsOK
<1>2. /\ pc'[u] = pc[u] /\ ref'[u] = ref[u] /\ parent'[u] = parent[u]
  BY OthersAsTheyWere DEF Served
<1>3. op'[u] = op[u] /\ type'[u] = type[u]
  <2>1. CASE NewRequest(t)
    BY <1>1, <2>1 DEF NewRequest, BeginOpenDir, BeginOpenChild, BeginClose, BeginUse,
       BeginClean, Drop, Begin, Submit
  <2>2. CASE ThreadStep(t)
    BY <1>1, <2>2 DEF ThreadStep, CheckFails, CheckForUse, CheckPasses,
       SubmitRemove, SubmitLookup, CheckRoom, SubmitCopyName, ReleaseLocalClient,
       ReleaseLocalEntry, ReleaseLocalParent, Return, Idle, Submit, request
  <2>3. CASE RunVerify(t) \/ RunLookup(t) \/ RunFindClient(t) \/ RunInsert(t)
    BY <1>1, <2>3 DEF RunVerify, RunLookup, RunFindClient, RunInsert, request
  <2>4. CASE RunPlugin(t) \/ RunGetEntry(t) \/ RunClean(t) \/ FinishClean(t)
    BY <1>1, <2>4 DEF RunPlugin, RunGetEntry, RunClean, FinishClean, Idle, request
  <2> QED BY <2>1, <2>2, <2>3, <2>4 DEF Served
<1> QED BY <1>2, <1>3 DEF Asks

LEMMA BeginAsks ==
  ASSUME Shape, NEW t \in Threads, NewRequest(t), Asks(t)
  PROVE  Asks(t)'
<1>1. /\ pc \in [Threads -> Where] /\ ref \in [Threads -> RefNum \cup {0}]
      /\ op \in [Threads -> {"none", "create", "close", "use", "clean"}]
      /\ type \in [Threads -> RefType \cup {0}]
  BY DEF Shape, TypeOK, RequestsOK
<1>2. ASSUME NEW o, NEW n, NEW ty, NEW w, Begin(t, o, n, ty, w)
      PROVE  op'[t] = o /\ ref'[t] = n /\ type'[t] = ty /\ pc'[t] = w
  BY <1>1, <1>2 DEF Begin, Submit
<1>3. CASE BeginOpenDir(t)
  BY <1>2, <1>3 DEF BeginOpenDir, Asks
<1>4. ASSUME NEW n \in Issued, NEW ty \in RefType, BeginOpenChild(t, n, ty)
      PROVE  Asks(t)'
  <2>1. /\ op'[t] = "create" /\ ref'[t] = n /\ type'[t] = ty /\ pc'[t] = "verify"
        /\ ty \in ChildTypes(GetRefType(n))
    BY <1>2, <1>4 DEF BeginOpenChild
  <2>2. type'[t] \in ChildTypes(GetRefType(ref'[t]))
    BY <2>1
  <2> QED BY <2>1, <2>2 DEF Asks, ChildTypes, GetRefType
<1>5. ASSUME NEW n \in Issued, BeginClose(t, n) \/ BeginUse(t, n)
      PROVE  Asks(t)'
  BY <1>2, <1>5 DEF BeginClose, BeginUse, Asks
<1>6. CASE BeginClean(t)
  BY <1>2, <1>6 DEF BeginClean, Asks
<1>7. ASSUME NEW n \in Issued, Drop(t, n)
      PROVE  Asks(t)'
  BY <1>7 DEF Drop, Asks, ChildTypes, GetRefType
<1> QED BY <1>3, <1>4, <1>5, <1>6, <1>7 DEF NewRequest

LEMMA StepAsks ==
  ASSUME Shape, NEW t \in Threads, Asks(t),
         ThreadStep(t) \/ Served(t) \/ FinishClean(t)
  PROVE  Asks(t)'
<1>1. /\ pc \in [Threads -> Where] /\ ref \in [Threads -> RefNum \cup {0}]
      /\ op \in [Threads -> {"none", "create", "close", "use", "clean"}]
      /\ type \in [Threads -> RefType \cup {0}] /\ parent \in [Threads -> MaybeObject]
  BY DEF Shape, TypeOK, RequestsOK, LocalsOK
<1>2. CASE Idle(t)
  BY <1>1, <1>2 DEF Idle, Asks
<1>3. ASSUME op'[t] = op[t], ref'[t] = ref[t], type'[t] = type[t],
             pc'[t] \notin {"find_client", "room", "insert", "clean"},
             pc'[t] = "cleaning" => pc[t] = "clean"
      PROVE  Asks(t)'
  <2>1. op'[t] = "create" => ref'[t] = 0 \/ type'[t] \in ChildTypes(GetRefType(ref'[t]))
    BY <1>3 DEF Asks
  <2> QED BY <1>3, <2>1 DEF Asks, ChildTypes, GetRefType
<1>4. CASE CheckRoom(t)
  BY <1>1, <1>4 DEF CheckRoom, Submit, Asks, request
<1>5. CASE \/ CheckFails(t) \/ CheckForUse(t) \/ CheckPasses(t) \/ SubmitLookup(t)
           \/ ReleaseLocalClient(t) \/ ReleaseLocalEntry(t)
           \/ ReleaseLocalParent(t) \/ SubmitCopyName(t)
  <2>1. UNCHANGED <<op, ref, type>> /\ pc'[t] \in {"release", "plugin", "verified", "lookup", "copy_name", "get_entry"}
    BY <1>1, <1>5 DEF CheckFails, CheckForUse, CheckPasses, SubmitLookup,
       ReleaseLocalClient, ReleaseLocalEntry, ReleaseLocalParent, SubmitCopyName, Submit, request
  <2> QED BY <1>3, <2>1
<1>6. CASE SubmitRemove(t) \/ Return(t) \/ FinishClean(t)
  BY <1>2, <1>6 DEF SubmitRemove, Return, FinishClean
<1>7. CASE RunVerify(t) \/ RunInsert(t) \/ RunPlugin(t) \/ RunGetEntry(t)
  <2>1. UNCHANGED <<op, ref, type>> /\ pc'[t] \in {"check", "release", "copy_name"}
    BY <1>1, <1>7 DEF RunVerify, RunInsert, RunPlugin, RunGetEntry, request
  <2> QED BY <1>3, <2>1
<1>8. CASE RunLookup(t)
  <2>1. UNCHANGED <<op, ref, type>> /\ (pc'[t] = "release" \/ (pc'[t] = "room" /\ parent'[t] # NULL))
    <3>1. CASE fRefToEntry[ref[t]] = NULL
      <4>1. pc' = [pc EXCEPT ![t] = "release"] /\ UNCHANGED <<op, ref, type>>
        BY <1>8, <3>1 DEF RunLookup, request
      <4> QED BY <1>1, <4>1
    <3>2. CASE fRefToEntry[ref[t]] # NULL
      <4>1. /\ pc' = [pc EXCEPT ![t] = "room"]
            /\ parent' = [parent EXCEPT ![t] = fRefToEntry[ref[t]]]
            /\ UNCHANGED <<op, ref, type>>
        BY <1>8, <3>2 DEF RunLookup, request
      <4> QED BY <1>1, <3>2, <4>1
    <3> QED BY <3>1, <3>2
  <2> QED BY <2>1 DEF Asks
<1>9. CASE RunFindClient(t)
  BY <1>1, <1>9 DEF RunFindClient, Runs, Asks, request
<1>10. CASE RunClean(t)
  <2>1. CASE pc'[t] = "cleaning" /\ UNCHANGED <<op, ref, type>>
    BY <1>3, <1>10, <2>1 DEF RunClean, Runs
  <2> QED BY <1>1, <1>2, <1>10, <2>1 DEF RunClean
<1> QED BY <1>4, <1>5, <1>6, <1>7, <1>8, <1>9, <1>10 DEF ThreadStep, Served

LEMMA AsksStep ==
  ASSUME Shape, [Next]_vars, \A t \in Threads : Asks(t)
  PROVE  \A t \in Threads : Asks(t)'
<1>1. ASSUME NEW t \in Threads, NewRequest(t) \/ ThreadStep(t) \/ Served(t) \/ FinishClean(t)
      PROVE  \A u \in Threads : Asks(u)'
  BY <1>1, OthersAsk, BeginAsks, StepAsks
<1>2. ASSUME RunRemove \/ RunDealloc \/ Rest \/ UNCHANGED vars \/ \E a \in Agents : Destructor(a)
      PROVE  \A u \in Threads : Asks(u)'
  <2>1. UNCHANGED <<op, ref, type, pc, parent>>
    BY <1>2, Zenon DEF RunRemove, RunDealloc, Rest, vars, Destructor, ReleaseSubRef, FinishEntry,
       ClearChildRef, FreeClient, request
  <2> QED BY <2>1 DEF Asks, ChildTypes, GetRefType
<1> QED BY <1>1, <1>2 DEF Next, RunBlock, Served

-----------------------------------------------------------------------------
(***************************************************************************)
(* The maps.                                                               *)
(***************************************************************************)
MapsStill == UNCHANGED <<fRefToEntry, fRefToClientEntry, cSubRefs, fSubRefs, fRefNum, fParentID>>

LEMMA MapsMove ==
  ASSUME Finite, HoldInv, [Next]_vars
  PROVE  \/ MapsStill
         \/ \E a \in Agents : ReleaseSubRef(a) \/ ClearChildRef(a)
         \/ \E t \in Threads : RunInsert(t)
         \/ RunRemove /\ fRefToEntry[Head(queue).num] # NULL
<1>1. ASSUME NEW t \in Threads, NewRequest(t)
      PROVE  MapsStill
  BY <1>1 DEF NewRequest, BeginOpenDir, BeginOpenChild, BeginClose, BeginUse,
     BeginClean, Drop, Begin, tables, entries, clients, MapsStill
<1>2. ASSUME NEW t \in Threads, ThreadStep(t)
      PROVE  MapsStill
  BY <1>2 DEF ThreadStep, CheckFails, CheckForUse, CheckPasses,
     SubmitRemove, SubmitLookup, CheckRoom, SubmitCopyName, ReleaseLocalClient,
     ReleaseLocalEntry, ReleaseLocalParent, Return, tables, entries, clients, MapsStill
<1>3. ASSUME NEW t \in Threads,
             RunVerify(t) \/ RunLookup(t) \/ RunFindClient(t) \/ RunPlugin(t)
             \/ RunGetEntry(t) \/ RunClean(t) \/ FinishClean(t)
      PROVE  MapsStill
  BY <1>3 DEF RunVerify, RunLookup, RunFindClient, RunPlugin, RunGetEntry, RunClean,
     FinishClean, tables, entries, clients, MapsStill
<1>4. ASSUME NEW a \in Agents, FinishEntry(a) \/ FreeClient(a)
      PROVE  MapsStill
  BY <1>4 DEF FinishEntry, FreeClient, tables, entries, clients, MapsStill
<1>5. ASSUME RunDealloc \/ Rest \/ UNCHANGED vars
      PROVE  MapsStill
  BY <1>5 DEF RunDealloc, Rest, vars, tables, entries, clients, MapsStill
<1>6. ASSUME RunRemove, fRefToEntry[Head(queue).num] = NULL
      PROVE  MapsStill
  BY <1>6, RemoveNothing DEF tables, entries, clients, MapsStill
<1>7. CASE RunBlock
  BY <1>3, <1>6, <1>7 DEF RunBlock
<1>8. CASE \E a \in Agents : Destructor(a)
  BY <1>4, <1>8 DEF Destructor
<1> QED BY <1>1, <1>2, <1>5, <1>7, <1>8 DEF Next

\* A removal of what stays in the table is still to come.
LEMMA GoesWhile ==
  ASSUME HoldInv, [Next]_vars, NEW n \in RefNum, NEW S, Goes(n, S), fRefToEntry'[n] # NULL
  PROVE  Goes(n, S)'
<1>1. Shape /\ Noted /\ fRefToEntry \in RefMap
  BY DEF HoldInv, LoopInv, MapsInv, Shape, TypeOK, TablesOK
<1>2. ~(RunRemove /\ Head(queue).num = n)
  <2>1. RunRemove => fRefToEntry' = [fRefToEntry EXCEPT ![Head(queue).num] = NULL]
    BY Zenon DEF RunRemove
  <2> QED BY <1>1, <2>1 DEF RefMap
<1> QED BY <1>1, <1>2, GoesStep

\* One turn of the two loops that unlink references.
Unlinks(a, e, n, k) ==
  /\ stack[a] # <<>> /\ Head(stack[a]) = EntryFrame(e)
  /\ fSubRefs[e][n] = k /\ fSubRefs' = [fSubRefs EXCEPT ![e][n] = NULL]
  /\ SubmitRemoval(n, k) /\ ReleaseEntry(a, k, stack[a])
  /\ UNCHANGED <<fRefToEntry, fRefToClientEntry, fPortToClientEntry, fRefNum, fParentID,
                 clients, cleanup, pc, client>>
Clears(a, c, n, k) ==
  /\ stack[a] # <<>> /\ Head(stack[a]) = ClientFrame(c)
  /\ cSubRefs[c][n] = k /\ cSubRefs' = [cSubRefs EXCEPT ![c][n] = NULL]
  /\ SubmitRemoval(n, k) /\ ReleaseEntry(a, k, stack[a])
  /\ UNCHANGED <<fRefToEntry, fRefToClientEntry, fPortToClientEntry, fRefNum, fParentID,
                 fSubRefs, portInfo, cleanup, pc, client>>

LEMMA FrameMeans ==
  ASSUME Shape, NEW a \in Agents, NEW kind, TopIs(a, kind)
  PROVE  /\ stack[a] # <<>> /\ stack[a] \in Seq(Frame)
         /\ Head(stack[a]).obj \in Object
         /\ Head(stack[a]) = [kind |-> kind, obj |-> Head(stack[a]).obj]
<1>1. stack[a] # <<>> /\ stack[a] \in Seq(Frame) /\ Head(stack[a]).kind = kind
  BY DEF TopIs, Shape, TypeOK, QueuesOK
<1>2. Head(stack[a]) \in Frame
  BY <1>1, HeadTailProperties
<1> QED BY <1>1, <1>2 DEF Frame

LEMMA Unlinking ==
  ASSUME Shape, NEW a \in Agents, ReleaseSubRef(a)
  PROVE  \E e \in Object, n \in RefNum, k \in Object : Unlinks(a, e, n, k)
<1>1. PICK e : e = Head(stack[a]).obj
  OBVIOUS
<1>2. TopIs(a, "entry")
  BY DEF ReleaseSubRef
<1>3. e \in Object /\ stack[a] # <<>> /\ Head(stack[a]) = EntryFrame(e)
  BY <1>1, <1>2, FrameMeans DEF EntryFrame
<1>4. PICK n \in RefNum :
        /\ IsLeast(n, Named(fSubRefs[e]))
        /\ fSubRefs' = WithoutRef(fSubRefs, e, n)
        /\ SubmitRemoval(n, fSubRefs[e][n])
        /\ ReleaseEntry(a, fSubRefs[e][n], stack[a])
  BY <1>1 DEF ReleaseSubRef
<1>5. fSubRefs[e][n] \in Object
  BY <1>3, <1>4 DEF IsLeast, Named, Shape, TypeOK, EntriesOK, RefMap, MaybeObject
<1>6. UNCHANGED <<fRefToEntry, fRefToClientEntry, fPortToClientEntry, fRefNum, fParentID,
                  clients, cleanup, pc, client>>
  BY DEF ReleaseSubRef, tables
<1> QED BY <1>3, <1>4, <1>5, <1>6 DEF Unlinks, WithoutRef

LEMMA Clearing ==
  ASSUME Shape, NEW a \in Agents, ClearChildRef(a)
  PROVE  \E c \in Object, n \in RefNum, k \in Object : Clears(a, c, n, k)
<1>1. PICK c : c = Head(stack[a]).obj
  OBVIOUS
<1>2. TopIs(a, "client")
  BY DEF ClearChildRef
<1>3. c \in Object /\ stack[a] # <<>> /\ Head(stack[a]) = ClientFrame(c)
  BY <1>1, <1>2, FrameMeans DEF ClientFrame
<1>4. PICK n \in RefNum :
        /\ IsLeast(n, Named(cSubRefs[c]))
        /\ cSubRefs' = WithoutRef(cSubRefs, c, n)
        /\ SubmitRemoval(n, cSubRefs[c][n])
        /\ ReleaseEntry(a, cSubRefs[c][n], stack[a])
  BY <1>1 DEF ClearChildRef
<1>5. cSubRefs[c][n] \in Object
  BY <1>3, <1>4 DEF IsLeast, Named, Shape, TypeOK, ClientsOK, RefMap, MaybeObject
<1>6. UNCHANGED <<fRefToEntry, fRefToClientEntry, fPortToClientEntry, fRefNum, fParentID,
                  fSubRefs, portInfo, cleanup, pc, client>>
  BY DEF ClearChildRef, tables
<1> QED BY <1>3, <1>4, <1>5, <1>6 DEF Clears, WithoutRef

\* What is known of the maps where they change.
LEMMA MapsTyped ==
  ASSUME HoldInv
  PROVE  /\ fRefToEntry \in RefMap /\ fRefToClientEntry \in RefMap
         /\ cSubRefs \in [Object -> RefMap] /\ fSubRefs \in [Object -> RefMap]
         /\ fRefNum \in [Object -> RefNum \cup {0}] /\ fParentID \in [Object -> RefNum \cup {0}]
         /\ queue \in Seq(Block) /\ Shape /\ MapsAgree
         /\ \A e \in Object : fRefNum[e] = 0 => /\ \A n \in RefNum : fSubRefs[e][n] = NULL
                                                /\ \A n \in RefNum : fRefToEntry[n] # e
         /\ 0 \notin RefNum /\ \A x \in Object : x # NULL
<1>1. 0 \notin RefNum /\ \A x \in Object : x # NULL
  BY RefNumFacts DEF Object, NULL
<1>2. ASSUME NEW e \in Object, fRefNum[e] = 0, NEW n \in RefNum
      PROVE  fRefToEntry[n] # e
  <2>1. fRefToEntry[n] # NULL => fRefNum[fRefToEntry[n]] = n
    BY DEF HoldInv, LoopInv, MapsInv, MapsAgree
  <2> QED BY <1>1, <1>2, <2>1
<1> QED BY <1>1, <1>2 DEF HoldInv, LoopInv, MapsInv, Made, Shape, TypeOK, TablesOK,
        EntriesOK, ClientsOK, QueuesOK

\* What has left its client's list is on its way out of the table.
LEMMA ListedStep ==
  ASSUME Finite, HoldInv, HoldInv', Listed, [Next]_vars
  PROVE  Listed'
<1> SUFFICES ASSUME NEW n \in RefNum, fRefToEntry'[n] # NULL
             PROVE  cSubRefs'[fRefToClientEntry'[n]][n] # NULL \/ Goes(n, {})'
  BY DEF Listed
<1>1. MapsAgree /\ MapsAgree' /\ queue \in Seq(Block)
  BY MapsTyped DEF HoldInv, LoopInv, MapsInv
<1>2. PICK c : c = fRefToClientEntry'[n]
  OBVIOUS
<1>3. c # NULL
  BY <1>1, <1>2 DEF MapsAgree
<1>4. ASSUME fRefToEntry[n] # NULL, cSubRefs[fRefToClientEntry[n]][n] = NULL
      PROVE  Goes(n, {})'
  BY <1>4, GoesWhile DEF Listed
<1>5. CASE UNCHANGED <<fRefToEntry, fRefToClientEntry, cSubRefs>>
  BY <1>4, <1>5
<1>6. ASSUME NEW a \in Agents, ClearChildRef(a)
      PROVE  cSubRefs'[c][n] # NULL \/ Goes(n, {})'
  <2>1. PICK d \in Object, m \in RefNum, k \in Object : Clears(a, d, m, k)
    BY <1>6, Clearing, MapsTyped
  <2>2. CASE m = n
    <3>1. k \in MaybeObject
      BY DEF MaybeObject
    <3> QED BY <1>1, <2>1, <2>2, <3>1, GoesNow DEF Clears
  <2>3. CASE m # n
    <3>1. /\ fRefToEntry[n] # NULL /\ fRefToClientEntry[n] = c
          /\ cSubRefs'[c][n] = cSubRefs[c][n]
      <4>1. cSubRefs' = [cSubRefs EXCEPT ![d][m] = NULL] /\ cSubRefs \in [Object -> RefMap]
            /\ UNCHANGED <<fRefToEntry, fRefToClientEntry>>
        BY <2>1, MapsTyped DEF Clears
      <4>2. c \in Object
        BY <1>2, <1>3, <4>1, MapsTyped DEF RefMap, MaybeObject
      <4> QED BY <1>2, <2>3, <4>1, <4>2 DEF RefMap
    <3> QED BY <1>4, <3>1
  <2> QED BY <2>2, <2>3
<1>7. ASSUME NEW t \in Threads, RunInsert(t)
      PROVE  cSubRefs'[c][n] # NULL \/ Goes(n, {})'
  <2>1. PICK m \in RefNum : Inserts(t, m)
    BY <1>7, InsertNumber
  <2>2. entry[t] \in Object /\ client[t] \in Object
    BY <1>7, InsertReady DEF Ready
  <2>3. CASE m = n
    <3>1. c = client[t] /\ cSubRefs'[c][n] = entry[t]
      BY <1>2, <2>1, <2>2, <2>3, MapsTyped DEF Inserts, RefMap
    <3> QED BY <2>2, <3>1, MapsTyped
  <2>4. CASE m # n
    <3>1. /\ fRefToEntry[n] # NULL /\ fRefToClientEntry[n] = c
      BY <1>2, <2>1, <2>4, MapsTyped DEF Inserts, RefMap
    <3>2. c \in Object
      BY <1>3, <3>1, MapsTyped DEF RefMap, MaybeObject
    <3>3. cSubRefs'[c][n] = cSubRefs[c][n]
      BY <2>1, <2>2, <2>4, <3>2, MapsTyped DEF Inserts, RefMap
    <3> QED BY <1>4, <3>1, <3>3
  <2> QED BY <2>3, <2>4
<1>8. ASSUME RunRemove, fRefToEntry[Head(queue).num] # NULL
      PROVE  cSubRefs'[c][n] # NULL \/ Goes(n, {})'
  <2>1. PICK m \in RefNum, d \in Object, e \in Object, p \in MaybeObject,
             q \in MaybeObject, g \in MaybeObject : Removes(m, d, e, p, q, g)
    BY <1>8, RemoveFound
  <2>2. n # m /\ fRefToEntry'[n] = fRefToEntry[n] /\ fRefToClientEntry[n] = c
    BY <1>2, <2>1 DEF Removes
  <2>3. c \in Object
    BY <1>3, <2>2, MapsTyped DEF RefMap, MaybeObject
  <2>4. cSubRefs'[c][n] = cSubRefs[c][n]
    BY <2>1, <2>2, <2>3 DEF Removes
  <2> QED BY <1>4, <2>2, <2>4
<1>9. CASE \E a \in Agents : ReleaseSubRef(a)
  BY <1>5, <1>9 DEF ReleaseSubRef, tables, clients
<1> QED BY <1>2, <1>5, <1>6, <1>7, <1>8, <1>9, MapsMove DEF MapsStill

\* What has left its parent's list is on its way out of the table.
LEMMA HungStep ==
  ASSUME Finite, HoldInv, HoldInv', Hung, \A t \in Threads : Asks(t), [Next]_vars
  PROVE  Hung'
<1> SUFFICES ASSUME NEW n \in RefNum, NEW e \in Object, fRefToEntry'[n] = e, fParentID'[e] # 0
             PROVE  HungUp(n, e)' \/ Goes(n, {})'
  BY DEF Hung
<1>1. fRefToEntry'[n] # NULL
  BY MapsTyped
<1>2. ASSUME fRefToEntry[n] = e, fParentID[e] = fParentID'[e],
             \A p \in Object : fSubRefs[p][n] = e => fSubRefs'[p][n] = e /\ fRefNum'[p] = fRefNum[p]
      PROVE  HungUp(n, e)' \/ Goes(n, {})'
  BY <1>1, <1>2, GoesWhile DEF Hung, HungUp
<1>3. CASE UNCHANGED <<fRefToEntry, fParentID, fRefNum, fSubRefs>>
  BY <1>2, <1>3
<1>4. ASSUME NEW a \in Agents, ReleaseSubRef(a)
      PROVE  HungUp(n, e)' \/ Goes(n, {})'
  <2>1. PICK d \in Object, m \in RefNum, k \in Object : Unlinks(a, d, m, k)
    BY <1>4, Unlinking, MapsTyped
  <2>2. CASE m = n
    <3>1. k \in MaybeObject
      BY DEF MaybeObject
    <3> QED BY <2>1, <2>2, <3>1, GoesNow, MapsTyped DEF Unlinks
  <2>3. CASE m # n
    BY <1>2, <2>1, <2>3, MapsTyped DEF Unlinks, RefMap
  <2> QED BY <2>2, <2>3
<1>5. ASSUME NEW t \in Threads, RunInsert(t)
      PROVE  HungUp(n, e)' \/ Goes(n, {})'
  <2>1. PICK m \in RefNum : Inserts(t, m)
    BY <1>5, InsertNumber
  <2>2. Ready(t) /\ entry[t] \in Object /\ fRefNum[entry[t]] = 0
    BY <1>5, InsertReady DEF Ready
  <2>3. CASE m = n
    <3>1. e = entry[t] /\ fParentID'[e] = ref[t]
      BY <2>1, <2>2, <2>3, MapsTyped DEF Inserts, RefMap
    <3>2. parent[t] # NULL
      BY <2>2, <3>1 DEF Asks, Ready
    <3>3. /\ parent[t] \in Object /\ parent[t] # entry[t] /\ fRefNum[parent[t]] = ref[t]
      BY <2>2, <3>2 DEF Ready, MaybeObject
    <3>4. fRefNum'[parent[t]] = ref[t] /\ fSubRefs'[parent[t]][n] = e
      BY <2>1, <2>2, <2>3, <3>1, <3>2, <3>3, MapsTyped DEF Inserts, RefMap
    <3> QED BY <3>1, <3>3, <3>4 DEF HungUp
  <2>4. CASE m # n
    <3>1. fRefToEntry[n] = e
      BY <2>1, <2>4, MapsTyped DEF Inserts, RefMap
    <3>2. e # entry[t]
      BY <2>2, <3>1, MapsTyped
    <3>3. fParentID'[e] = fParentID[e]
      BY <2>1, <3>2, MapsTyped DEF Inserts
    <3>4. ASSUME NEW p \in Object, fSubRefs[p][n] = e
          PROVE  fSubRefs'[p][n] = e /\ fRefNum'[p] = fRefNum[p]
      <4>1. p # entry[t]
        BY <2>2, <3>4, MapsTyped
      <4>2. fRefNum'[p] = fRefNum[p]
        BY <2>1, <4>1, MapsTyped DEF Inserts
      <4>3. parent[t] # NULL => parent[t] \in Object
        BY <2>2 DEF Ready, MaybeObject
      <4>4. fSubRefs'[p][n] = fSubRefs[p][n]
        <5>1. CASE parent[t] = NULL
          BY <2>1, <5>1 DEF Inserts
        <5>2. CASE parent[t] # NULL
          BY <2>1, <2>4, <4>3, <5>2, MapsTyped DEF Inserts, RefMap
        <5> QED BY <5>1, <5>2
      <4> QED BY <3>4, <4>2, <4>4
    <3> QED BY <1>2, <3>1, <3>3, <3>4
  <2> QED BY <2>3, <2>4
<1>6. ASSUME RunRemove, fRefToEntry[Head(queue).num] # NULL
      PROVE  HungUp(n, e)' \/ Goes(n, {})'
  <2>1. PICK m \in RefNum, d \in Object, f \in Object, p \in MaybeObject,
             q \in MaybeObject, g \in MaybeObject : Removes(m, d, f, p, q, g)
    BY <1>6, RemoveFound
  <2>2. n # m /\ fRefToEntry[n] = e
    BY <1>1, <2>1 DEF Removes
  <2>3. UNCHANGED <<fParentID, fRefNum>> /\ \A x \in Object : fSubRefs'[x][n] = fSubRefs[x][n]
    BY <2>1, <2>2 DEF Removes
  <2> QED BY <1>2, <2>2, <2>3
<1>7. CASE \E a \in Agents : ClearChildRef(a)
  BY <1>3, <1>7 DEF ClearChildRef, tables
<1> QED BY <1>3, <1>4, <1>5, <1>6, <1>7, MapsMove DEF MapsStill

\* The type of a number.
LEMMA TypeOfNumber ==
  ASSUME NEW ty \in Nat, NEW i \in 0..(IndexSpace - 1)
  PROVE  GetRefType(ty * IndexSpace + i) = ty
<1>1. PICK a \in Nat : a = ty * IndexSpace + i
  OBVIOUS
<1>2. PICK q \in Int : q = a \div IndexSpace
  OBVIOUS
<1>3. PICK r \in 0..(IndexSpace - 1) : r = a % IndexSpace
  OBVIOUS
<1>4. a = IndexSpace * q + r
  BY <1>2, <1>3, Division
<1>5. IndexSpace * ty + i = IndexSpace * q + r
  <2>1. IndexSpace * ty = ty * IndexSpace
    OBVIOUS
  <2> QED BY <1>1, <1>4, <2>1
<1>6. ty = q
  BY <1>5, UniqueRemainder
<1> QED BY <1>1, <1>2, <1>6 DEF GetRefType

LEMMA InsertType ==
  ASSUME Finite, HoldInv, NEW t \in Threads, RunInsert(t), NEW n \in RefNum, Inserts(t, n)
  PROVE  GetRefType(n) = type[t]
<1>1. entry[t] \in Object /\ fRefNum \in [Object -> RefNum \cup {0}]
  BY InsertReady, MapsTyped DEF Ready
<1>2. PICK k \in 0..(IndexSpace - 1) :
        fRefNum' = [fRefNum EXCEPT ![entry[t]] = type[t] * IndexSpace + Probe(k)]
  BY DEF RunInsert
<1>3. n = type[t] * IndexSpace + Probe(k)
  BY <1>1, <1>2 DEF Inserts
<1>4. type[t] \in Nat /\ Probe(k) \in 0..(IndexSpace - 1)
  <2>1. type[t] \in RefType /\ fNextIndex \in 0..(IndexSpace - 1)
    <3>1. pc[t] = "insert" /\ RequestOK(t) /\ TypeOK
      BY DEF HoldInv, LoopInv, MapsInv, Shape, RunInsert, Runs
    <3>2. type[t] \in RefType
      BY <3>1 DEF RequestOK
    <3>3. fNextIndex \in 0..(IndexSpace - 1)
      BY <3>1 DEF TypeOK, TablesOK
    <3> QED BY <3>2, <3>3
  <2>2. type[t] \in Nat
    <3>1. \A ty \in LeafTypes : ty \in Nat
      BY SizesAssumption
    <3>2. type[t] = 1 \/ type[t] = 2 \/ type[t] \in LeafTypes
      BY <2>1 DEF RefType, eRefTypeDir, eRefTypeDirNode
    <3>3. \A ty : ty = 1 \/ ty = 2 => ty \in Nat
      OBVIOUS
    <3> QED BY <3>1, <3>2, <3>3, Zenon
  <2> QED BY <2>1, <2>2, ProbeFacts
<1> QED BY <1>3, <1>4, TypeOfNumber

LEMMA LayeredStep ==
  ASSUME Finite, HoldInv, HoldInv', Layered, \A t \in Threads : Asks(t), [Next]_vars
  PROVE  Layered'
<1> SUFFICES ASSUME NEW p \in Object, NEW n \in RefNum, fSubRefs'[p][n] # NULL
             PROVE  GetRefType(n) \in ChildTypes(GetRefType(fRefNum'[p]))
  BY DEF Layered, GetRefType, ChildTypes
<1>1. ASSUME fRefNum'[p] = fRefNum[p], fSubRefs[p][n] # NULL
      PROVE  GetRefType(n) \in ChildTypes(GetRefType(fRefNum'[p]))
  BY <1>1 DEF Layered
<1>2. CASE UNCHANGED <<fRefNum, fSubRefs>>
  BY <1>1, <1>2
<1>3. ASSUME NEW a \in Agents, ReleaseSubRef(a)
      PROVE  GetRefType(n) \in ChildTypes(GetRefType(fRefNum'[p]))
  <2>1. PICK d \in Object, m \in RefNum, k \in Object : Unlinks(a, d, m, k)
    BY <1>3, Unlinking, MapsTyped
  <2> QED BY <1>1, <2>1, MapsTyped DEF Unlinks, RefMap
<1>4. ASSUME NEW t \in Threads, RunInsert(t)
      PROVE  GetRefType(n) \in ChildTypes(GetRefType(fRefNum'[p]))
  <2>1. PICK m \in RefNum : Inserts(t, m)
    BY <1>4, InsertNumber
  <2>2. Ready(t) /\ entry[t] \in Object /\ fRefNum[entry[t]] = 0
    BY <1>4, InsertReady DEF Ready
  <2>3. CASE fSubRefs'[p][n] = fSubRefs[p][n]
    <3>1. p # entry[t]
      BY <2>2, <2>3, MapsTyped
    <3> QED BY <1>1, <2>1, <2>3, <3>1, MapsTyped DEF Inserts
  <2>4. CASE fSubRefs'[p][n] # fSubRefs[p][n]
    <3>1. parent[t] # NULL /\ p = parent[t] /\ n = m
      BY <2>1, <2>4, MapsTyped DEF Inserts, RefMap
    <3>2. fRefNum[p] = ref[t] /\ ref[t] # 0 /\ p # entry[t]
      BY <2>2, <3>1 DEF Ready
    <3>3. fRefNum'[p] = ref[t]
      BY <2>1, <3>2, MapsTyped DEF Inserts
    <3>4. GetRefType(n) = type[t]
      BY <1>4, <2>1, <3>1, InsertType
    <3>5. op[t] = "create"
      BY <1>4 DEF RunInsert, Runs, HoldInv, LoopInv, MapsInv, Shape, RequestOK
    <3>6. type[t] \in ChildTypes(GetRefType(ref[t]))
      BY <3>2, <3>5 DEF Asks
    <3> QED BY <3>3, <3>4, <3>6
  <2> QED BY <2>3, <2>4
<1>5. ASSUME RunRemove, fRefToEntry[Head(queue).num] # NULL
      PROVE  GetRefType(n) \in ChildTypes(GetRefType(fRefNum'[p]))
  <2>1. PICK m \in RefNum, d \in Object, f \in Object, x \in MaybeObject,
             q \in MaybeObject, g \in MaybeObject : Removes(m, d, f, x, q, g)
    BY <1>5, RemoveFound
  <2> QED BY <1>1, <2>1 DEF Removes
<1>6. CASE \E a \in Agents : ClearChildRef(a)
  BY <1>2, <1>6 DEF ClearChildRef
<1> QED BY <1>2, <1>3, <1>4, <1>5, <1>6, MapsMove DEF MapsStill

-----------------------------------------------------------------------------
(***************************************************************************)
(* Destructors.  An entry that is dying is in a frame of an agent, whose   *)
(* loop goes on until its list is empty.                                   *)
(***************************************************************************)
LEMMA FramePushed ==
  ASSUME NEW x \in Frame, NEW s \in Seq(Frame)
  PROVE  Elems(<<x>> \o s) = {x} \cup Elems(s)
<1>1. PICK r : r = <<x>> \o s
  OBVIOUS
<1>2. /\ <<x>> \in Seq(Frame) /\ Len(<<x>>) = 1 /\ <<x>>[1] = x /\ Len(s) \in Nat
  BY LenProperties
<1>3. /\ Len(r) = 1 + Len(s)
      /\ \A i \in 1..Len(r) : r[i] = IF i <= 1 THEN <<x>>[i] ELSE s[i - 1]
  BY <1>1, <1>2, ConcatProperties
<1>4. 1 \in 1..Len(r) /\ r[1] = x
  BY <1>2, <1>3
<1>5. ASSUME NEW i \in 1..Len(s)
      PROVE  \E k \in 1..Len(r) : r[k] = s[i]
  <2>1. PICK k \in Int : k = i + 1
    BY <1>2
  <2>2. k \in 1..Len(r) /\ ~(k <= 1) /\ k - 1 = i
    BY <1>2, <1>3, <2>1
  <2> QED BY <1>3, <2>2
<1>6. {x} \cup Elems(s) \subseteq Elems(r)
  BY <1>4, <1>5 DEF Elems
<1> QED BY <1>1, <1>6, ElemsPushed

LEMMA FramePopped ==
  ASSUME NEW s \in Seq(Frame), s # <<>>
  PROVE  Elems(s) = {Head(s)} \cup Elems(Tail(s))
<1>1. /\ Len(Tail(s)) = Len(s) - 1 /\ Len(s) \in Nat /\ Head(s) = s[1]
      /\ \A i \in 1..Len(Tail(s)) : Tail(s)[i] = s[i + 1]
  BY HeadTailProperties, LenProperties
<1>2. ASSUME NEW i \in 1..Len(s), i # 1
      PROVE  \E k \in 1..Len(Tail(s)) : Tail(s)[k] = s[i]
  <2>1. PICK k \in Int : k = i - 1
    BY <1>1
  <2>2. k \in 1..Len(Tail(s)) /\ k + 1 = i
    BY <1>1, <1>2, <2>1
  <2> QED BY <1>1, <2>2
<1>3. Elems(s) \subseteq {Head(s)} \cup Elems(Tail(s))
  BY <1>1, <1>2 DEF Elems
<1> QED BY <1>3, ElemsTail

\* What a step may do to what is dying or over.
LEMMA EndingStep ==
  ASSUME Ending,
         \A e \in Object : status'[e] = "dying" =>
           \/ status[e] = "dying" /\ (InAFrame(e) => InAFrame(e)')
           \/ InAFrame(e)',
         \A e \in Object : status'[e] \in Over =>
           \A n \in RefNum : fSubRefs'[e][n] = NULL \/ (status[e] \in Over /\ fSubRefs'[e][n] = fSubRefs[e][n]),
         \A e \in Elems(cleanup') : status'[e] \in Over
  PROVE  Ending'
BY DEF Ending

\* Steps that leave the entries alone, and pop no frame of an entry.
LEMMA EndingKept ==
  ASSUME Ending, UNCHANGED <<status, fSubRefs, cleanup>>,
         \A a \in Agents : \A f \in Elems(stack[a]) :
           f.kind = "entry" => f \in Elems(stack'[a])
  PROVE  Ending'
<1>1. ASSUME NEW e \in Object, InAFrame(e)
      PROVE  InAFrame(e)'
  BY <1>1 DEF InAFrame, EntryFrame
<1> QED BY <1>1, EndingStep DEF Ending

\* The release of an entry that is live.
LEMMA EndingReleased ==
  ASSUME Shape, Ending, NEW a \in Agents, NEW k \in Object, status[k] = "live",
         ReleaseEntry(a, k, stack[a]), UNCHANGED cleanup,
         \A e \in Object, n \in RefNum : fSubRefs'[e][n] \in {fSubRefs[e][n], NULL}
  PROVE  Ending'
<1>1. /\ status \in [Object -> {"unmade", "live", "dying", "freed", "closed"}]
      /\ stack \in [Agents -> Seq(Frame)]
  BY DEF Shape, TypeOK, EntriesOK, QueuesOK
<1>2. EntryFrame(k) \in Frame
  BY DEF EntryFrame, Frame
<1>3. \/ status' = status /\ stack' = stack
      \/ /\ status' = [status EXCEPT ![k] = "dying"]
         /\ stack' = [stack EXCEPT ![a] = <<EntryFrame(k)>> \o stack[a]]
  BY <1>1 DEF ReleaseEntry
<1>4. CASE status' = status /\ stack' = stack
  BY <1>4, EndingStep DEF Ending, InAFrame
<1>5. CASE /\ status' = [status EXCEPT ![k] = "dying"]
           /\ stack' = [stack EXCEPT ![a] = <<EntryFrame(k)>> \o stack[a]]
  <2>1. Elems(stack'[a]) = {EntryFrame(k)} \cup Elems(stack[a])
    BY <1>1, <1>2, <1>5, FramePushed
  <2>2. \A b \in Agents : b # a => stack'[b] = stack[b]
    BY <1>1, <1>5
  <2>3. \A e \in Object : InAFrame(e) \/ e = k => InAFrame(e)'
    BY <2>1, <2>2 DEF InAFrame
  <2>4. \A e \in Object : e # k => status'[e] = status[e]
    BY <1>1, <1>5
  <2>5. status'[k] = "dying"
    BY <1>1, <1>5
  <2>6. \A e \in Elems(cleanup') : status'[e] \in Over
    <3>1. Elems(cleanup) \subseteq Object
      BY ElemsTyped DEF Shape, TypeOK, QueuesOK
    <3> QED BY <2>4, <3>1 DEF Ending, Over
  <2> QED BY <2>3, <2>4, <2>5, <2>6, EndingStep DEF Over
<1> QED BY <1>3, <1>4, <1>5

LEMMA DestructorEnding ==
  ASSUME Finite, HoldInv, Ending, NEW a \in Agents, Destructor(a)
  PROVE  Ending'
<1>1. /\ Shape /\ stack \in [Agents -> Seq(Frame)] /\ cleanup \in Seq(Object)
      /\ status \in [Object -> {"unmade", "live", "dying", "freed", "closed"}]
  BY MapsTyped DEF Shape, TypeOK, EntriesOK, QueuesOK
<1>2. ASSUME NEW e \in Object, NEW n \in RefNum, NEW k \in Object,
             fSubRefs[e][n] = k \/ cSubRefs[e][n] = k
      PROVE  status[k] = "live"
  BY <1>1, <1>2, PointedIsLive DEF HoldInv
<1>3. CASE ReleaseSubRef(a)
  <2>1. PICK e \in Object, n \in RefNum, k \in Object : Unlinks(a, e, n, k)
    BY <1>1, <1>3, Unlinking
  <2>2. status[k] = "live"
    BY <1>2, <2>1 DEF Unlinks
  <2>3. \A o \in Object, m \in RefNum : fSubRefs'[o][m] \in {fSubRefs[o][m], NULL}
    BY <2>1, MapsTyped DEF Unlinks, RefMap
  <2> QED BY <1>1, <2>1, <2>2, <2>3, EndingReleased DEF Unlinks
<1>4. CASE ClearChildRef(a)
  <2>1. PICK c \in Object, n \in RefNum, k \in Object : Clears(a, c, n, k)
    BY <1>1, <1>4, Clearing
  <2>2. status[k] = "live"
    BY <1>2, <2>1 DEF Clears
  <2>3. \A o \in Object, m \in RefNum : fSubRefs'[o][m] \in {fSubRefs[o][m], NULL}
    BY <2>1 DEF Clears
  <2> QED BY <1>1, <2>1, <2>2, <2>3, EndingReleased DEF Clears
<1>5. CASE FinishEntry(a)
  <2>1. PICK e \in Object : stack[a] # <<>> /\ e = Head(stack[a]).obj /\ Head(stack[a]) = EntryFrame(e)
    BY <1>1, <1>5, FrameMeans DEF FinishEntry, EntryFrame
  <2>2. /\ \A n \in RefNum : fSubRefs[e][n] = NULL
        /\ cleanup' = Append(cleanup, e) /\ status' = [status EXCEPT ![e] = "freed"]
        /\ stack' = [stack EXCEPT ![a] = Tail(stack[a])] /\ UNCHANGED fSubRefs
    BY <1>1, <1>5, <2>1 DEF FinishEntry, Named
  <2>3. Elems(stack[a]) = {EntryFrame(e)} \cup Elems(stack'[a])
    BY <1>1, <2>1, <2>2, FramePopped
  <2>4. \A b \in Agents : b # a => stack'[b] = stack[b]
    BY <1>1, <2>2
  <2>5. ASSUME NEW x \in Object, x # e, InAFrame(x)
        PROVE  InAFrame(x)'
    <3>1. EntryFrame(x) # EntryFrame(e)
      BY <2>5 DEF EntryFrame
    <3> QED BY <2>3, <2>4, <2>5, <3>1 DEF InAFrame
  <2>6. status'[e] = "freed" /\ \A x \in Object : x # e => status'[x] = status[x]
    BY <1>1, <2>2
  <2>7. \A x \in Elems(cleanup') : status'[x] \in Over
    <3>1. Elems(cleanup') \subseteq {e} \cup Elems(cleanup) /\ Elems(cleanup) \subseteq Object
      BY <1>1, <2>2, ElemsAppended, ElemsTyped
    <3> QED BY <2>6, <3>1 DEF Ending, Over
  <2> QED BY <2>2, <2>5, <2>6, <2>7, EndingStep DEF Over
<1>6. CASE FreeClient(a)
  <2>1. stack[a] # <<>> /\ Head(stack[a]).kind = "client"
    BY <1>6 DEF FreeClient, TopIs
  <2>2. stack' = [stack EXCEPT ![a] = Tail(stack[a])] /\ UNCHANGED <<status, fSubRefs, cleanup>>
    BY <1>6 DEF FreeClient, entries
  <2>3. Elems(stack[a]) = {Head(stack[a])} \cup Elems(stack'[a])
    BY <1>1, <2>1, <2>2, FramePopped
  <2>4. \A b \in Agents : b # a => stack'[b] = stack[b]
    BY <1>1, <2>2
  <2> QED BY <2>1, <2>2, <2>3, <2>4, EndingKept
<1> QED BY <1>3, <1>4, <1>5, <1>6 DEF Destructor

LEMMA DeallocEnding ==
  ASSUME Shape, Ending, RunDealloc
  PROVE  Ending'
<1>1. /\ cleanup \in Seq(Object) /\ cleanup # <<>>
      /\ status \in [Object -> {"unmade", "live", "dying", "freed", "closed"}]
  BY DEF Shape, TypeOK, EntriesOK, QueuesOK, RunDealloc
<1>2. PICK e \in Object : e = Head(cleanup)
  BY <1>1, HeadTailProperties
<1>3. Elems(cleanup') \subseteq Elems(cleanup) /\ e \in Elems(cleanup)
      /\ Elems(cleanup) \subseteq Object
  BY <1>1, <1>2, ElemsTail, ElemsTyped DEF RunDealloc
<1>4. /\ status'[e] = "closed" /\ \A x \in Object : x # e => status'[x] = status[x]
      /\ status[e] \in Over /\ UNCHANGED <<fSubRefs, stack>>
  BY <1>1, <1>2, <1>3 DEF RunDealloc, Ending
<1>5. \A x \in Object : InAFrame(x) => InAFrame(x)'
  BY <1>4 DEF InAFrame
<1> QED BY <1>3, <1>4, <1>5, EndingStep DEF Over, Ending

\* The release of a client is none of an entry.
LEMMA ClientEnding ==
  ASSUME Shape, Ending, NEW a \in Agents, NEW c \in Object, ReleaseClient(a, c),
         UNCHANGED <<status, fSubRefs, cleanup>>
  PROVE  Ending'
<1>1. stack \in [Agents -> Seq(Frame)] /\ ClientFrame(c) \in Frame
  BY DEF Shape, TypeOK, QueuesOK, ClientFrame, Frame
<1>2. \/ stack' = stack
      \/ stack' = [stack EXCEPT ![a] = <<ClientFrame(c)>> \o stack[a]]
  BY DEF ReleaseClient
<1>3. CASE stack' = stack
  BY <1>3, EndingKept
<1>4. CASE stack' = [stack EXCEPT ![a] = <<ClientFrame(c)>> \o stack[a]]
  <2>1. Elems(stack'[a]) = {ClientFrame(c)} \cup Elems(stack[a])
    BY <1>1, <1>4, FramePushed
  <2>2. \A b \in Agents : b # a => stack'[b] = stack[b]
    BY <1>1, <1>4
  <2> QED BY <2>1, <2>2, EndingKept
<1> QED BY <1>2, <1>3, <1>4

LEMMA ThreadEnding ==
  ASSUME Finite, HoldInv, Ending, NEW t \in Threads, NewRequest(t) \/ ThreadStep(t)
  PROVE  Ending'
<1>1. /\ Shape /\ t \in Agents /\ client[t] \in MaybeObject
      /\ entry[t] \in MaybeObject /\ parent[t] \in MaybeObject
  BY MapsTyped DEF Shape, TypeOK, LocalsOK, Agents
<1>2. ASSUME UNCHANGED <<status, fSubRefs, cleanup, stack>>
      PROVE  Ending'
  BY <1>2, EndingKept
<1>3. CASE NewRequest(t)
  BY <1>2, <1>3 DEF NewRequest, BeginOpenDir, BeginOpenChild, BeginClose, BeginUse,
     BeginClean, Drop, Begin, entries
<1>4. ASSUME client[t] # NULL, ReleaseClient(t, client[t]), UNCHANGED <<entries, cleanup>>
      PROVE  Ending'
  <2>1. client[t] \in Object
    BY <1>1, <1>4 DEF MaybeObject
  <2> QED BY <1>1, <1>4, <2>1, ClientEnding DEF entries
<1>5. CASE CheckPasses(t) \/ ReleaseLocalClient(t)
  BY <1>4, <1>5 DEF CheckPasses, ReleaseLocalClient, Granted
<1>6. CASE SubmitCopyName(t)
  <2>1. UNCHANGED <<entries, cleanup>>
    BY <1>6 DEF SubmitCopyName
  <2>2. CASE client[t] # NULL
    BY <1>4, <1>6, <2>1, <2>2 DEF SubmitCopyName
  <2>3. CASE client[t] = NULL
    BY <1>2, <1>6, <2>1, <2>3 DEF SubmitCopyName, entries
  <2> QED BY <2>2, <2>3
<1>7. ASSUME NEW k \in Object, stack[t] = <<>>, ReleaseEntry(t, k, <<>>), status[k] = "live",
             UNCHANGED <<fSubRefs, cleanup>>
      PROVE  Ending'
  <2>1. ReleaseEntry(t, k, stack[t])
    BY <1>7
  <2>2. \A o \in Object, m \in RefNum : fSubRefs'[o][m] \in {fSubRefs[o][m], NULL}
    BY <1>7
  <2> QED BY <1>1, <1>7, <2>1, <2>2, EndingReleased
<1>8. CASE ReleaseLocalEntry(t)
  <2>1. entry[t] \in Object /\ pc[t] = "release"
    BY <1>1, <1>8 DEF ReleaseLocalEntry, MaybeObject
  <2>2. status[entry[t]] = "live"
    BY <1>1, <2>1, PointedIsLive DEF HoldInv
  <2> QED BY <1>7, <1>8, <2>1, <2>2 DEF ReleaseLocalEntry
<1>9. CASE ReleaseLocalParent(t)
  <2>1. parent[t] \in Object
    BY <1>1, <1>9 DEF ReleaseLocalParent, MaybeObject
  <2>2. status[parent[t]] = "live"
    BY <1>1, <2>1, PointedIsLive DEF HoldInv
  <2> QED BY <1>7, <1>9, <2>1, <2>2 DEF ReleaseLocalParent
<1>10. CASE \/ CheckFails(t) \/ CheckForUse(t) \/ SubmitRemove(t) \/ SubmitLookup(t)
            \/ CheckRoom(t) \/ Return(t)
  BY <1>2, <1>10 DEF CheckFails, CheckForUse, SubmitRemove, SubmitLookup, CheckRoom, Return,
     entries
<1> QED BY <1>3, <1>5, <1>6, <1>8, <1>9, <1>10 DEF ThreadStep

\* What the worker pushes on its empty stack, and that nothing else is touched.
LEMMA WorkerPushes ==
  ASSUME Shape, NEW s, stack[Worker] = <<>>, stack' = [stack EXCEPT ![Worker] = s]
  PROVE  \A e \in Object : InAFrame(e) => InAFrame(e)'
<1>1. stack \in [Agents -> Seq(Frame)] /\ Worker \in Agents
  BY DEF Shape, TypeOK, QueuesOK, Agents
<1>2. \A a \in Agents : a # Worker => stack'[a] = stack[a]
  BY <1>1
<1>3. \A x : x \notin Elems(stack[Worker])
  BY DEF Elems
<1> QED BY <1>2, <1>3 DEF InAFrame

LEMMA InsertEnding ==
  ASSUME Finite, HoldInv, Ending, NEW t \in Threads, RunInsert(t)
  PROVE  Ending'
<1>1. PICK n \in RefNum : Inserts(t, n)
  BY InsertNumber
<1>2. Ready(t) /\ entry[t] \in Object /\ parent[t] \in MaybeObject /\ status[entry[t]] = "unmade"
  BY InsertReady DEF Ready
<1>3. /\ Shape /\ cleanup \in Seq(Object)
      /\ status \in [Object -> {"unmade", "live", "dying", "freed", "closed"}]
  BY MapsTyped DEF Shape, TypeOK, EntriesOK, QueuesOK
<1>4. /\ status'[entry[t]] = "live" /\ UNCHANGED <<stack, cleanup>>
      /\ \A e \in Object : e # entry[t] => status'[e] = status[e]
  BY <1>1, <1>2, <1>3 DEF Inserts
<1>5. ASSUME NEW e \in Object, status'[e] \in Over
      PROVE  status[e] \in Over /\ \A m \in RefNum : fSubRefs'[e][m] = fSubRefs[e][m]
  <2>1. e # entry[t] /\ status[e] \in Over
    BY <1>4, <1>5 DEF Over
  <2>2. e # parent[t]
    <3>1. parent[t] = e => status[e] = "live"
      BY <1>3, PointedIsLive DEF HoldInv
    <3> QED BY <2>1, <3>1 DEF Over
  <2> QED BY <1>1, <2>1, <2>2, MapsTyped DEF Inserts
<1>6. \A e \in Object : InAFrame(e) => InAFrame(e)'
  BY <1>4 DEF InAFrame
<1>7. \A e \in Elems(cleanup') : status'[e] \in Over
  <2>1. Elems(cleanup) \subseteq Object /\ \A e \in Elems(cleanup) : status[e] \in Gone
    BY <1>3, ElemsTyped DEF HoldInv, Dead
  <2>2. \A e \in Elems(cleanup) : e # entry[t]
    BY <1>2, <2>1 DEF Gone
  <2> QED BY <1>4, <2>1, <2>2 DEF Ending
<1> QED BY <1>4, <1>5, <1>6, <1>7, EndingStep

LEMMA BlockEnding ==
  ASSUME Finite, HoldInv, Ending, NEW t \in Threads, Served(t) \/ FinishClean(t)
  PROVE  Ending'
<1>1. Shape /\ stack \in [Agents -> Seq(Frame)] /\ Worker \in Agents
  BY MapsTyped DEF Shape, TypeOK, QueuesOK, Agents
<1>2. CASE RunVerify(t) \/ RunLookup(t) \/ RunFindClient(t) \/ RunPlugin(t) \/ RunGetEntry(t)
  <2>1. UNCHANGED <<status, fSubRefs, cleanup, stack>>
    BY <1>2 DEF RunVerify, RunLookup, RunFindClient, RunPlugin, RunGetEntry, entries
  <2> QED BY <2>1, EndingKept
<1>3. CASE RunClean(t)
  <2>1. UNCHANGED <<status, fSubRefs, cleanup>> /\ stack[Worker] = <<>>
    BY <1>3 DEF RunClean, Runs, entries
  <2>2. stack' = stack \/ \E s : stack' = [stack EXCEPT ![Worker] = s]
    BY <1>3 DEF RunClean
  <2>3. \A e \in Object : InAFrame(e) => InAFrame(e)'
    BY <1>1, <2>1, <2>2, WorkerPushes DEF InAFrame
  <2> QED BY <2>1, <2>3, EndingStep DEF Ending
<1>4. CASE FinishClean(t)
  <2>1. stack[Worker] # <<>> /\ Head(stack[Worker]).kind = "client"
    BY <1>4 DEF FinishClean, TopIs
  <2>2. UNCHANGED <<status, fSubRefs, cleanup>>
    BY <1>4 DEF FinishClean, entries
  <2>3. stack' = stack \/ stack' = [stack EXCEPT ![Worker] = Tail(stack[Worker])]
    BY <1>4 DEF FinishClean
  <2>4. Elems(stack[Worker]) = {Head(stack[Worker])} \cup Elems(Tail(stack[Worker]))
    BY <1>1, <2>1, FramePopped
  <2>5. CASE stack' = stack
    BY <2>2, <2>5, EndingKept
  <2>6. CASE stack' = [stack EXCEPT ![Worker] = Tail(stack[Worker])]
    <3>1. stack'[Worker] = Tail(stack[Worker]) /\ \A a \in Agents : a # Worker => stack'[a] = stack[a]
      BY <1>1, <2>6
    <3> QED BY <2>1, <2>2, <2>4, <3>1, EndingKept
  <2> QED BY <2>3, <2>5, <2>6
<1> QED BY <1>2, <1>3, <1>4, InsertEnding DEF Served

LEMMA RemoveEnding ==
  ASSUME Finite, HoldInv, Ending, RunRemove
  PROVE  Ending'
<1>1. /\ Shape /\ stack \in [Agents -> Seq(Frame)] /\ Worker \in Agents /\ cleanup \in Seq(Object)
      /\ status \in [Object -> {"unmade", "live", "dying", "freed", "closed"}]
      /\ stack[Worker] = <<>>
  BY MapsTyped, Zenon DEF Shape, TypeOK, QueuesOK, EntriesOK, Agents, RunRemove
<1>2. CASE fRefToEntry[Head(queue).num] = NULL
  BY <1>2, RemoveNothing, EndingKept DEF entries
<1>3. CASE fRefToEntry[Head(queue).num] # NULL
  <2>1. PICK n \in RefNum, c \in Object, e \in Object, p \in MaybeObject,
             q \in MaybeObject, g \in MaybeObject : Removes(n, c, e, p, q, g)
    BY <1>3, RemoveFound
  <2>2. PICK r, s :
          /\ r = (IF cRetain[c] = 1 THEN <<ClientFrame(c)>> ELSE <<>>)
          /\ s = (IF retain[e] = Drops(e, q, g) THEN <<EntryFrame(e)>> ELSE <<>>)
    OBVIOUS
  <2>3. stack' = [stack EXCEPT ![Worker] = r \o s] /\ cleanup' = cleanup
    BY <2>1, <2>2 DEF Removes
  <2>4. \A x \in Object : InAFrame(x) => InAFrame(x)'
    BY <1>1, <2>3, WorkerPushes
  <2>5. \/ status' = status
        \/ /\ retain[e] = Drops(e, q, g)
           /\ status' = [status EXCEPT ![e] = "dying"]
    BY <2>1 DEF Removes
  <2>6. ASSUME retain[e] = Drops(e, q, g)
        PROVE  InAFrame(e)'
    <3>1. EntryFrame(e) \in Frame /\ ClientFrame(c) \in Frame /\ s = <<EntryFrame(e)>>
      BY <2>2, <2>6 DEF EntryFrame, ClientFrame, Frame
    <3>2. EntryFrame(e) \in Elems(s) /\ s \in Seq(Frame)
      BY <3>1 DEF Elems
    <3>3. EntryFrame(e) \in Elems(r \o s)
      <4>1. CASE r = <<>>
        <5>1. r \o s = s
          BY <3>1, <4>1
        <5> QED BY <3>2, <5>1
      <4>2. CASE r = <<ClientFrame(c)>>
        BY <3>1, <3>2, <4>2, FramePushed
      <4> QED BY <2>2, <4>1, <4>2
    <3>4. stack'[Worker] = r \o s
      BY <1>1, <2>3
    <3> QED BY <1>1, <3>3, <3>4 DEF InAFrame
  <2>7. ASSUME NEW x \in Object, status'[x] = "dying"
        PROVE  status[x] = "dying" \/ InAFrame(x)'
    BY <1>1, <2>5, <2>6, <2>7
  <2>8. ASSUME NEW x \in Object, status'[x] \in Over
        PROVE  status[x] \in Over /\ \A m \in RefNum : fSubRefs'[x][m] \in {NULL, fSubRefs[x][m]}
    <3>1. status'[x] = status[x]
      BY <1>1, <2>5, <2>8 DEF Over
    <3> QED BY <2>1, <2>8, <3>1 DEF Removes
  <2>9. \A x \in Elems(cleanup') : status'[x] \in Over
    <3>1. Elems(cleanup) \subseteq Object /\ \A x \in Elems(cleanup) : status[x] \in Over
      BY <1>1, ElemsTyped DEF Ending
    <3>2. status[e] = "live"
      <4>1. fRefToEntry[n] = e
        BY <2>1 DEF Removes
      <4> QED BY <1>1, <4>1, PointedIsLive DEF HoldInv
    <3>3. e \notin Elems(cleanup)
      BY <3>1, <3>2 DEF Over
    <3> QED BY <1>1, <2>3, <2>5, <3>1, <3>3
  <2> QED BY <2>4, <2>7, <2>8, <2>9, EndingStep
<1> QED BY <1>2, <1>3

LEMMA EndingNext ==
  ASSUME Finite, HoldInv, Ending, [Next]_vars
  PROVE  Ending'
<1>1. Shape
  BY MapsTyped
<1>2. CASE Rest \/ UNCHANGED vars
  <2>1. UNCHANGED <<status, fSubRefs, cleanup, stack>>
    BY <1>2 DEF Rest, vars, entries
  <2> QED BY <2>1, EndingKept
<1> QED BY <1>1, <1>2, ThreadEnding, DestructorEnding, DeallocEnding, BlockEnding, RemoveEnding
        DEF Next, RunBlock, Served

-----------------------------------------------------------------------------
(***************************************************************************)
(* The clients of the ports.                                               *)
(***************************************************************************)
\* No step but these two changes what a port's client is.
LEMMA PortsMove ==
  ASSUME Finite, HoldInv, [Next]_vars
  PROVE  \/ /\ UNCHANGED <<fPortToClientEntry, portInfo>>
            /\ \A c \in Object : cStatus[c] = "unmade" => cStatus'[c] = "unmade"
         \/ \E t \in Threads : RunFindClient(t) \/ RunClean(t)
<1>1. cStatus \in [Object -> {"unmade", "live", "dying", "freed"}] /\ Shape
  BY MapsTyped DEF Shape, TypeOK, ClientsOK
<1>2. ASSUME NEW t \in Threads, NewRequest(t)
      PROVE  UNCHANGED <<fPortToClientEntry, portInfo, cStatus>>
  BY <1>2 DEF NewRequest, BeginOpenDir, BeginOpenChild, BeginClose, BeginUse,
     BeginClean, Drop, Begin, tables, clients
<1>3. ASSUME NEW a, NEW c \in MaybeObject, c # NULL, ReleaseClient(a, c),
             \E t \in Threads : client[t] = c
      PROVE  \A d \in Object : cStatus[d] = "unmade" => cStatus'[d] = "unmade"
  <2>1. c \in Object /\ cStatus[c] = "live"
    BY <1>1, <1>3, PointedClientIsLive DEF HoldInv, MaybeObject
  <2> QED BY <1>1, <1>3, <2>1 DEF ReleaseClient
<1>4. \A t \in Threads : client[t] \in MaybeObject
  BY <1>1 DEF Shape, TypeOK, LocalsOK
<1>5. ASSUME NEW t \in Threads, ThreadStep(t)
      PROVE  /\ UNCHANGED <<fPortToClientEntry, portInfo>>
             /\ \A c \in Object : cStatus[c] = "unmade" => cStatus'[c] = "unmade"
  <2>1. UNCHANGED <<fPortToClientEntry, portInfo>>
    BY <1>5 DEF ThreadStep, CheckFails, CheckForUse, CheckPasses,
       SubmitRemove, SubmitLookup, CheckRoom, SubmitCopyName, ReleaseLocalClient,
       ReleaseLocalEntry, ReleaseLocalParent, Return, tables, clients
  <2>2. UNCHANGED cStatus \/ (client[t] # NULL /\ ReleaseClient(t, client[t]))
    BY <1>5 DEF ThreadStep, CheckFails, CheckForUse, CheckPasses, Granted,
       SubmitRemove, SubmitLookup, CheckRoom, SubmitCopyName, ReleaseLocalClient,
       ReleaseLocalEntry, ReleaseLocalParent, Return, clients
  <2> QED BY <1>3, <1>4, <2>1, <2>2
<1>6. ASSUME NEW a \in Agents, Destructor(a)
      PROVE  /\ UNCHANGED <<fPortToClientEntry, portInfo>>
             /\ \A c \in Object : cStatus[c] = "unmade" => cStatus'[c] = "unmade"
  <2>1. UNCHANGED <<fPortToClientEntry, portInfo>>
    BY <1>6 DEF Destructor, ReleaseSubRef, FinishEntry, ClearChildRef, FreeClient, tables, clients
  <2>2. \/ UNCHANGED cStatus
        \/ \E c : cStatus[c] = "dying" /\ cStatus' = [cStatus EXCEPT ![c] = "freed"]
    BY <1>6 DEF Destructor, ReleaseSubRef, FinishEntry, ClearChildRef, FreeClient, clients
  <2> QED BY <1>1, <2>1, <2>2
<1>7. ASSUME RunRemove
      PROVE  /\ UNCHANGED <<fPortToClientEntry, portInfo>>
             /\ \A c \in Object : cStatus[c] = "unmade" => cStatus'[c] = "unmade"
  <2>1. CASE fRefToEntry[Head(queue).num] = NULL
    BY <1>7, <2>1, RemoveNothing DEF tables, clients
  <2>2. CASE fRefToEntry[Head(queue).num] # NULL
    <3>1. PICK n \in RefNum, c \in Object, e \in Object, p \in MaybeObject,
               q \in MaybeObject, g \in MaybeObject : Removes(n, c, e, p, q, g)
      BY <1>7, <2>2, RemoveFound
    <3>2. fRefToClientEntry[n] = c
      BY <3>1 DEF Removes
    <3>3. cStatus[c] = "live"
      BY <1>1, <3>2, PointedClientIsLive DEF HoldInv
    <3>4. cStatus' = cStatus \/ cStatus' = [cStatus EXCEPT ![c] = "dying"]
      BY <3>1 DEF Removes
    <3>5. UNCHANGED <<fPortToClientEntry, portInfo>>
      BY <1>7, Zenon DEF RunRemove
    <3> QED BY <1>1, <3>3, <3>4, <3>5
  <2> QED BY <2>1, <2>2
<1>8. ASSUME NEW t \in Threads, FinishClean(t)
      PROVE  /\ UNCHANGED <<fPortToClientEntry, portInfo>>
             /\ \A c \in Object : cStatus[c] = "unmade" => cStatus'[c] = "unmade"
  <2>1. UNCHANGED <<fPortToClientEntry, portInfo>>
    BY <1>8 DEF FinishClean, tables
  <2>2. \/ UNCHANGED cStatus
        \/ \E c : cStatus[c] = "live" /\ cStatus' = [cStatus EXCEPT ![c] = "dying"]
    BY <1>8 DEF FinishClean
  <2> QED BY <1>1, <2>1, <2>2
<1>9. ASSUME NEW t \in Threads,
             RunVerify(t) \/ RunLookup(t) \/ RunInsert(t) \/ RunPlugin(t) \/ RunGetEntry(t)
      PROVE  UNCHANGED <<fPortToClientEntry, portInfo, cStatus>>
  BY <1>9 DEF RunVerify, RunLookup, RunInsert, RunPlugin, RunGetEntry, tables, clients
<1>10. ASSUME RunDealloc \/ Rest \/ UNCHANGED vars
       PROVE  UNCHANGED <<fPortToClientEntry, portInfo, cStatus>>
  BY <1>10 DEF RunDealloc, Rest, vars, tables, clients
<1>11. CASE RunBlock
  BY <1>7, <1>8, <1>9, <1>11 DEF RunBlock
<1> QED BY <1>2, <1>5, <1>6, <1>10, <1>11 DEF Next

\* What RunFindClient does.
Meets(t) ==
  \/ /\ fPortToClientEntry[PortOf[t]] # NULL
     /\ client'[t] = fPortToClientEntry[PortOf[t]]
     /\ UNCHANGED <<fPortToClientEntry, portInfo, cStatus>>
  \/ /\ fPortToClientEntry[PortOf[t]] = NULL
     /\ entry[t] \in Object /\ cStatus[entry[t]] = "unmade"
     /\ client'[t] = entry[t]
     /\ fPortToClientEntry' = [fPortToClientEntry EXCEPT ![PortOf[t]] = entry[t]]
     /\ portInfo' = [portInfo EXCEPT ![entry[t]] = PortOf[t]]
     /\ cStatus' = [cStatus EXCEPT ![entry[t]] = "live"]

LEMMA FindingClient ==
  ASSUME HoldInv, NEW t \in Threads, RunFindClient(t)
  PROVE  Meets(t) /\ pc[t] = "find_client" /\ pc'[t] = "room"
<1>1. /\ pc \in [Threads -> Where] /\ client \in [Threads -> MaybeObject] /\ LocalsOf(t)
  BY DEF HoldInv, Locals, LoopInv, MapsInv, Shape, TypeOK, RequestsOK, LocalsOK
<1>2. pc[t] = "find_client" /\ pc'[t] = "room"
  BY <1>1 DEF RunFindClient, Runs
<1>3. entry[t] \in Object /\ cStatus[entry[t]] = "unmade"
  BY <1>1, <1>2 DEF LocalsOf
<1>4. CASE fPortToClientEntry[PortOf[t]] # NULL
  BY <1>1, <1>2, <1>4 DEF RunFindClient, Meets
<1>5. CASE fPortToClientEntry[PortOf[t]] = NULL
  BY <1>1, <1>2, <1>3, <1>5 DEF RunFindClient, Meets
<1> QED BY <1>2, <1>4, <1>5

LEMMA OneInternalStep ==
  ASSUME Finite, HoldInv, OneInternal, \A t \in Threads : Asks(t), [Next]_vars
  PROVE  OneInternal'
<1>1. /\ cStatus \in [Object -> {"unmade", "live", "dying", "freed"}] /\ Shape
      /\ fPortToClientEntry \in [Ports -> MaybeObject] /\ portInfo \in [Object -> Ports]
      /\ PortOf \in [Threads -> Ports] /\ InternalPort \in Ports
      /\ pc \in [Threads -> Where]
  BY MapsTyped DEF Shape, TypeOK, ClientsOK, TablesOK, RequestsOK
<1>2. CASE /\ UNCHANGED <<fPortToClientEntry, portInfo>>
           /\ \A c \in Object : cStatus[c] = "unmade" => cStatus'[c] = "unmade"
  BY <1>2 DEF OneInternal, Current
<1>3. ASSUME NEW t \in Threads, RunFindClient(t)
      PROVE  OneInternal'
  <2>1. Meets(t)
    BY <1>3, FindingClient
  <2>2. CASE UNCHANGED <<fPortToClientEntry, portInfo, cStatus>>
    BY <2>2 DEF OneInternal, Current
  <2>3. CASE /\ fPortToClientEntry[PortOf[t]] = NULL
             /\ entry[t] \in Object /\ cStatus[entry[t]] = "unmade"
             /\ fPortToClientEntry' = [fPortToClientEntry EXCEPT ![PortOf[t]] = entry[t]]
             /\ portInfo' = [portInfo EXCEPT ![entry[t]] = PortOf[t]]
             /\ cStatus' = [cStatus EXCEPT ![entry[t]] = "live"]
    <3> SUFFICES ASSUME NEW c \in Object, cStatus'[c] # "unmade", portInfo'[c] = InternalPort
                 PROVE  fPortToClientEntry'[portInfo'[c]] = c
      BY DEF OneInternal, Current
    <3>1. CASE c = entry[t]
      BY <1>1, <2>3, <3>1
    <3>2. CASE c # entry[t]
      <4>1. fPortToClientEntry[InternalPort] = c
        BY <1>1, <2>3, <3>2 DEF OneInternal, Current
      <4>2. c # NULL
        BY DEF Object, NULL
      <4>3. PortOf[t] # InternalPort
        BY <2>3, <4>1, <4>2
      <4> QED BY <1>1, <2>3, <4>1, <4>3
    <3> QED BY <3>1, <3>2
  <2> QED BY <2>1, <2>2, <2>3 DEF Meets
<1>4. ASSUME NEW t \in Threads, RunClean(t)
      PROVE  OneInternal'
  <2>1. PortOf[t] # InternalPort /\ UNCHANGED <<portInfo, cStatus>>
    BY <1>4 DEF RunClean, Runs, Asks, clients
  <2>2. fPortToClientEntry'[InternalPort] = fPortToClientEntry[InternalPort]
    BY <1>1, <1>4, <2>1 DEF RunClean
  <2> QED BY <2>1, <2>2 DEF OneInternal, Current
<1> QED BY <1>2, <1>3, <1>4, PortsMove

\* The numbers of an entry do not come back before the indices have looped.
LEMMA NotReused ==
  ASSUME HoldInv, NoIndexRecycled, NEW n \in RefNum, NEW e \in Object, fRefNum[e] = n,
         fRefToEntry[n] # NULL
  PROVE  fRefToEntry[n] = e
<1> SUFFICES ASSUME fRefToEntry[n] # e
             PROVE  FALSE
  OBVIOUS
<1>1. PICK f : f = fRefToEntry[n]
  OBVIOUS
<1>2. f \in Object /\ fRefNum[f] = n /\ fRefNum[f] # 0 /\ fRefNum[e] # 0
  BY <1>1, MapsTyped DEF RefMap, MaybeObject, MapsAgree
<1>3. born[f] - born[e] >= IndexSpace
  BY <1>1 DEF HoldInv, LoopInv, Spaced
<1>4. born[f] \in 1..tried /\ born[e] \in 1..tried /\ tried \in Nat /\ tried <= IndexSpace
  BY <1>2 DEF HoldInv, LoopInv, Counted, MapsInv, Shape, TypeOK, TablesOK, NoIndexRecycled
<1> QED BY <1>3, <1>4

\* How a thread comes to hold a client for its insertion.
LEMMA EntersRoom ==
  ASSUME HoldInv, [Next]_vars, NEW t \in Threads, pc'[t] \in {"room", "insert"}
  PROVE  \/ pc[t] \in {"room", "insert"} /\ client'[t] = client[t]
         \/ RunLookup(t) /\ fRefToEntry[ref[t]] # NULL
         \/ RunFindClient(t)
<1>1. /\ pc \in [Threads -> Where] /\ client \in [Threads -> MaybeObject] /\ Shape
  BY MapsTyped DEF Shape, TypeOK, RequestsOK, LocalsOK
<1>2. ASSUME NEW u \in Threads, u # t,
             NewRequest(u) \/ ThreadStep(u) \/ Served(u) \/ FinishClean(u)
      PROVE  pc'[t] = pc[t] /\ client'[t] = client[t]
  BY <1>1, <1>2, OthersAsTheyWere DEF Served
<1>3. ASSUME NewRequest(t)
      PROVE  FALSE
  BY <1>1, <1>3 DEF NewRequest, BeginOpenDir, BeginOpenChild, BeginClose, BeginUse,
     BeginClean, Drop, Begin, Submit
<1>4. ASSUME ThreadStep(t)
      PROVE  CheckRoom(t)
  <2>1. CASE \/ CheckFails(t) \/ CheckForUse(t) \/ CheckPasses(t) \/ SubmitRemove(t)
             \/ SubmitLookup(t) \/ SubmitCopyName(t)
    BY <1>1, <2>1 DEF CheckFails, CheckForUse, CheckPasses, SubmitRemove, SubmitLookup,
       SubmitCopyName, Submit, Idle
  <2>2. CASE \/ ReleaseLocalClient(t) \/ ReleaseLocalEntry(t) \/ ReleaseLocalParent(t)
             \/ Return(t)
    BY <1>1, <2>2 DEF ReleaseLocalClient, ReleaseLocalEntry, ReleaseLocalParent, Return, Idle
  <2> QED BY <1>4, <2>1, <2>2 DEF ThreadStep
<1>5. ASSUME CheckRoom(t)
      PROVE  pc[t] \in {"room", "insert"} /\ client'[t] = client[t]
  BY <1>5 DEF CheckRoom
<1>6. ASSUME RunVerify(t) \/ RunInsert(t) \/ RunPlugin(t) \/ RunGetEntry(t) \/ RunClean(t)
             \/ FinishClean(t)
      PROVE  FALSE
  BY <1>1, <1>6 DEF RunVerify, RunInsert, RunPlugin, RunGetEntry, RunClean, FinishClean, Idle
<1>7. ASSUME RunLookup(t)
      PROVE  fRefToEntry[ref[t]] # NULL
  BY <1>1, <1>7 DEF RunLookup
<1>8. CASE RunRemove \/ RunDealloc \/ Rest \/ UNCHANGED vars \/ \E a \in Agents : Destructor(a)
  <2>1. UNCHANGED <<pc, client>>
    BY <1>8, Zenon DEF RunRemove, RunDealloc, Rest, vars, Destructor, ReleaseSubRef, FinishEntry,
       ClearChildRef, FreeClient
  <2> QED BY <2>1
<1> QED BY <1>2, <1>3, <1>4, <1>5, <1>6, <1>7, <1>8 DEF Next, RunBlock, Served

\* The client of a parent that is looked up again is still its port's.
LEMMA LookedUp ==
  ASSUME Finite, OwnInv, \A u \in Threads : Asks(u), Stale, NoIndexRecycled,
         NEW t \in Threads, RunLookup(t), fRefToEntry[ref[t]] # NULL
  PROVE  fPortToClientEntry[PortOf[t]] = client'[t]
<1>1. /\ HoldInv /\ MapsAgree /\ OwnOf(t) /\ ThreadNoted(t) /\ RequestOK(t) /\ queue \in Seq(Block)
      /\ client \in [Threads -> MaybeObject] /\ meant[t] \in MaybeObject
  BY MapsTyped DEF OwnInv, HoldInv, LoopInv, Noted, MapsInv, Shape, TypeOK, LocalsOK, RequestsOK
<1>2. pc[t] = "lookup" /\ queue # <<>> /\ Head(queue) = SyncBlock(t)
  BY DEF RunLookup, Runs
<1>3. PICK n \in RefNum : n = ref[t]
  BY <1>1, <1>2 DEF RequestOK
<1>4. PICK c : c = fRefToClientEntry[n]
  OBVIOUS
<1>5. client'[t] = c /\ c \in Object
  BY <1>1, <1>3, <1>4, MapsTyped DEF RunLookup, MapsAgree, RefMap, MaybeObject
<1>6. fRefToEntry[n] = meant[t]
  BY <1>1, <1>2, <1>3, NotReused DEF OwnOf, ThreadNoted, MaybeObject
<1>7. portInfo[c] = PortOf[t]
  BY <1>1, <1>2, <1>3, <1>4, <1>6 DEF OwnOf
<1>8. ASSUME ~Current(c)
      PROVE  FALSE
  <2>1. CASE cSubRefs[c][n] # NULL
    <3>1. PICK u \in Threads : Cleans(u, c)
      BY <1>4, <1>5, <1>8, <2>1 DEF Stale
    <3>2. PortOf[u] = PortOf[t] /\ PortOf[u] # InternalPort /\ pc[u] = "cleaning"
      BY <1>7, <3>1 DEF Cleans, Asks
    <3> QED BY <1>2, <3>2, SerialPorts
  <2>2. CASE cSubRefs[c][n] = NULL
    <3>1. Goes(n, OfPort(portInfo[c]))
      BY <1>4, <1>5, <1>8, <2>2 DEF Stale
    <3>2. t \in OfPort(portInfo[c])
      BY <1>7 DEF OfPort
    <3> QED BY <1>1, <1>2, <3>1, <3>2, GoesFirst
  <2> QED BY <2>1, <2>2
<1> QED BY <1>5, <1>7, <1>8 DEF Current

LEMMA InsertingStep ==
  ASSUME Finite, OwnInv, \A u \in Threads : Asks(u), Stale, NoIndexRecycled, Inserting,
         [Next]_vars
  PROVE  Inserting'
<1>1. /\ HoldInv /\ ForAClient /\ fPortToClientEntry \in [Ports -> MaybeObject]
      /\ PortOf \in [Threads -> Ports]
  BY DEF OwnInv, HoldInv, LoopInv, MapsInv, Shape, TypeOK, TablesOK
<1> SUFFICES ASSUME NEW t \in Threads, pc'[t] \in {"room", "insert"}
             PROVE  fPortToClientEntry'[PortOf[t]] = client'[t]
  BY DEF Inserting
<1>2. CASE pc[t] \in {"room", "insert"} /\ client'[t] = client[t]
  <2>1. fPortToClientEntry[PortOf[t]] = client[t] /\ client[t] # NULL
    BY <1>1, <1>2 DEF Inserting, ForAClient
  <2>2. CASE fPortToClientEntry' = fPortToClientEntry
    BY <1>2, <2>1, <2>2
  <2>3. ASSUME NEW u \in Threads, RunFindClient(u)
        PROVE  fPortToClientEntry'[PortOf[t]] = fPortToClientEntry[PortOf[t]]
    BY <1>1, <2>1, <2>3, FindingClient DEF Meets
  <2>4. ASSUME NEW u \in Threads, RunClean(u)
        PROVE  fPortToClientEntry'[PortOf[t]] = fPortToClientEntry[PortOf[t]]
    <3>1. pc[u] = "clean" /\ PortOf[u] # InternalPort
      BY <2>4 DEF RunClean, Runs, Asks
    <3>2. PortOf[t] # PortOf[u]
      BY <1>2, <3>1, SerialPorts
    <3> QED BY <1>1, <2>4, <3>2 DEF RunClean
  <2> QED BY <1>1, <1>2, <2>1, <2>2, <2>3, <2>4, PortsMove
<1>3. CASE RunLookup(t) /\ fRefToEntry[ref[t]] # NULL
  <2>1. fPortToClientEntry' = fPortToClientEntry
    BY <1>3 DEF RunLookup, tables
  <2> QED BY <1>3, <2>1, LookedUp
<1>4. CASE RunFindClient(t)
  BY <1>1, <1>4, FindingClient DEF Meets
<1> QED BY <1>1, <1>2, <1>3, <1>4, EntersRoom

\* Stale for one number.
Leaves(n, c) ==
  IF cSubRefs[c][n] # NULL THEN \E t \in Threads : Cleans(t, c)
                           ELSE Goes(n, OfPort(portInfo[c]))

\* A port's thread cleans until the list is empty.
LEMMA CleansOn ==
  ASSUME HoldInv, [Next]_vars, NEW t \in Threads, NEW c \in Object, Cleans(t, c),
         portInfo'[c] = portInfo[c], NEW n \in RefNum, cSubRefs[c][n] # NULL
  PROVE  Cleans(t, c)'
<1>1. /\ Shape /\ pc[t] = "cleaning" /\ client[t] = c
  BY MapsTyped DEF Cleans
<1>2. SUFFICES pc'[t] = pc[t] /\ client'[t] = client[t]
  BY DEF Cleans
<1>3. ASSUME NEW u \in Threads, u # t,
             NewRequest(u) \/ ThreadStep(u) \/ Served(u) \/ FinishClean(u)
      PROVE  pc'[t] = pc[t] /\ client'[t] = client[t]
  BY <1>1, <1>3, OthersAsTheyWere DEF Served
<1>4. ASSUME NewRequest(t)
      PROVE  pc'[t] = pc[t] /\ client'[t] = client[t]
  BY <1>1, <1>4 DEF NewRequest, BeginOpenDir, BeginOpenChild, BeginClose, BeginUse,
     BeginClean, Drop, Begin
<1>5. ~ThreadStep(t)
  BY <1>1 DEF ThreadStep, CheckFails, CheckForUse, CheckPasses, SubmitRemove, SubmitLookup,
     CheckRoom, SubmitCopyName, ReleaseLocalClient, ReleaseLocalEntry, ReleaseLocalParent, Return
<1>6. ~Served(t)
  BY <1>1 DEF Served, RunVerify, RunLookup, RunFindClient, RunInsert, RunPlugin, RunGetEntry,
     RunClean, Runs
<1>7. ~FinishClean(t)
  BY <1>1 DEF FinishClean, Named
<1>8. CASE RunRemove \/ RunDealloc \/ Rest \/ UNCHANGED vars \/ \E a \in Agents : Destructor(a)
  BY <1>8, Zenon DEF RunRemove, RunDealloc, Rest, vars, Destructor, ReleaseSubRef, FinishEntry,
     ClearChildRef, FreeClient
<1> QED BY <1>3, <1>4, <1>5, <1>6, <1>7, <1>8 DEF Next, RunBlock, Served

\* What leaves goes on leaving.
LEMMA LeavesOn ==
  ASSUME HoldInv, [Next]_vars, NEW n \in RefNum, NEW c \in Object, Leaves(n, c),
         portInfo'[c] = portInfo[c], cSubRefs'[c][n] = cSubRefs[c][n], fRefToEntry'[n] # NULL
  PROVE  Leaves(n, c)'
<1>1. CASE cSubRefs[c][n] # NULL
  <2>1. PICK t \in Threads : Cleans(t, c)
    BY <1>1 DEF Leaves
  <2>2. Cleans(t, c)'
    BY <1>1, <2>1, CleansOn
  <2> QED BY <1>1, <2>2 DEF Leaves
<1>2. CASE cSubRefs[c][n] = NULL
  <2>1. PICK S : S = OfPort(portInfo[c])
    OBVIOUS
  <2>2. Goes(n, S)
    BY <1>2, <2>1 DEF Leaves
  <2>3. Goes(n, S)'
    BY <2>2, GoesWhile
  <2> QED BY <1>2, <2>1, <2>3 DEF Leaves, OfPort, Goes, BlockOf
<1> QED BY <1>1, <1>2

\* The port of a client that is cleaned has no block in the queue.
LEMMA ClearedLeaves ==
  ASSUME HoldInv, OneBlockEach, \A u \in Threads : Asks(u), NEW n \in RefNum, NEW c \in Object,
         NEW k \in Object, NEW a \in Agents, Clears(a, c, n, k), NEW t \in Threads, Cleans(t, c)
  PROVE  Leaves(n, c)'
<1>1. /\ queue \in Seq(Block) /\ cSubRefs \in [Object -> RefMap] /\ k \in MaybeObject
  BY MapsTyped DEF MaybeObject
<1>2. PortOf[t] = portInfo[c] /\ PortOf[t] # InternalPort /\ pc[t] \notin Waiting
  BY DEF Cleans, Asks, Waiting
<1>3. PICK S : S = OfPort(portInfo[c])
  OBVIOUS
<1>4. \A u \in S : u = t
  BY <1>2, <1>3, SerialPorts DEF OfPort
<1>5. \A j \in 1..Len(queue) : \A u \in S : ~BlockOf(j, u)
  BY <1>2, <1>4 DEF OneBlockEach
<1>6. Goes(n, S)'
  BY <1>1, <1>5, GoesNow DEF Clears
<1>7. portInfo' = portInfo /\ cSubRefs'[c][n] = NULL
  BY <1>1 DEF Clears, RefMap
<1> QED BY <1>3, <1>6, <1>7 DEF Leaves, OfPort, Goes, BlockOf

\* The cleaning begins: the thread's only block is the one that is run.
LEMMA CleaningLeaves ==
  ASSUME Finite, HoldInv, OneBlockEach, \A u \in Threads : Asks(u), Listed, [Next]_vars,
         NEW t \in Threads, RunClean(t), NEW n \in RefNum, NEW c \in Object,
         fRefToClientEntry[n] = c, fPortToClientEntry[PortOf[t]] = c, portInfo[c] = PortOf[t]
  PROVE  Leaves(n, c)'
<1>1. /\ queue \in Seq(Block) /\ Shape /\ Noted /\ MapsAgree /\ fRefToEntry[n] # NULL
      /\ pc \in [Threads -> Where] /\ client \in [Threads -> MaybeObject] /\ c # NULL
  BY MapsTyped DEF HoldInv, LoopInv, MapsAgree, Shape, TypeOK, RequestsOK, LocalsOK
<1>2. /\ pc[t] = "clean" /\ pc'[t] = "cleaning" /\ client'[t] = c
      /\ UNCHANGED <<portInfo, cSubRefs, fRefToEntry>>
  BY <1>1 DEF RunClean, Runs, clients
<1>3. CASE cSubRefs[c][n] # NULL
  <2>1. Cleans(t, c)'
    BY <1>2 DEF Cleans
  <2> QED BY <1>2, <1>3, <2>1 DEF Leaves
<1>4. CASE cSubRefs[c][n] = NULL
  <2>1. Goes(n, {})'
    BY <1>1, <1>2, <1>4, GoesWhile DEF Listed
  <2>2. OneBlockEach'
    BY <1>1, OneBlockStep
  <2>3. \A i \in 1..Len(queue') : ~BlockOf(i, t)'
    BY <1>2, <2>2 DEF OneBlockEach, Waiting
  <2>4. PICK S : S = OfPort(PortOf[t])
    OBVIOUS
  <2>5. \A u \in S : u = t
    <3>1. PortOf[t] # InternalPort
      BY <1>2 DEF Asks
    <3> QED BY <2>4, <3>1, SerialPorts DEF OfPort
  <2>6. PICK i \in 1..Len(queue') : queue'[i].op = "remove" /\ queue'[i].num = n
    BY <2>1 DEF Goes
  <2>7. \A j \in 1..(i - 1) : j \in 1..Len(queue')
    <3>1. queue' = Tail(queue) /\ queue # <<>>
      BY DEF RunClean, Runs
    <3>2. Len(queue') \in Nat
      BY <1>1, <3>1, BlocksShifted
    <3> QED BY <3>2
  <2>8. Goes(n, S)'
    BY <2>3, <2>5, <2>6, <2>7 DEF Goes
  <2> QED BY <1>2, <1>4, <2>4, <2>8 DEF Leaves, OfPort, Goes, BlockOf
<1> QED BY <1>3, <1>4

LEMMA StaleStep ==
  ASSUME Finite, OwnInv, HoldInv', OneBlockEach, \A u \in Threads : Asks(u), Listed,
         Inserting, Stale, [Next]_vars
  PROVE  Stale'
<1>1. /\ HoldInv /\ PortsOwn /\ fPortToClientEntry \in [Ports -> MaybeObject]
      /\ portInfo \in [Object -> Ports] /\ PortOf \in [Threads -> Ports] /\ Shape
  BY DEF OwnInv, HoldInv, LoopInv, MapsInv, Shape, TypeOK, TablesOK, ClientsOK
<1> SUFFICES ASSUME NEW n \in RefNum, NEW c \in Object, fRefToClientEntry'[n] = c, ~Current(c)'
             PROVE  Leaves(n, c)'
  BY DEF Stale, Leaves
<1>2. fRefToEntry'[n] # NULL
  <2>1. c # NULL
    BY DEF Object, NULL
  <2>2. MapsAgree'
    BY DEF HoldInv, LoopInv, MapsInv
  <2> QED BY <2>1, <2>2 DEF MapsAgree
<1>3. \A m \in RefNum, d \in Object : fRefToClientEntry[m] = d /\ ~Current(d) => Leaves(m, d)
  BY DEF Stale, Leaves
<1>4. ASSUME NEW t \in Threads, RunInsert(t)
      PROVE  Leaves(n, c)'
  <2>1. PICK m \in RefNum : Inserts(t, m)
    BY <1>1, <1>4, InsertNumber
  <2>2. Ready(t) /\ client[t] \in Object /\ pc[t] = "insert"
    BY <1>1, <1>4, InsertReady DEF Ready
  <2>3. UNCHANGED <<fPortToClientEntry, portInfo>> /\ ~Current(c)
    BY <2>1 DEF Inserts, Current
  <2>4. Current(client[t])
    BY <1>1, <2>2 DEF Inserting, PortsOwn, Current, Object, NULL
  <2>5. n # m /\ c # client[t] /\ fRefToClientEntry[n] = c
    BY <1>1, <2>1, <2>2, <2>3, <2>4, MapsTyped DEF Inserts, RefMap
  <2>6. cSubRefs'[c][n] = cSubRefs[c][n]
    BY <1>1, <2>1, <2>5, MapsTyped DEF Inserts
  <2> QED BY <1>1, <1>2, <1>3, <2>3, <2>5, <2>6, LeavesOn
<1>5. ASSUME NEW t \in Threads, RunFindClient(t)
      PROVE  Leaves(n, c)'
  <2>1. Meets(t) /\ UNCHANGED <<fRefToClientEntry, cSubRefs>>
    BY <1>1, <1>5, FindingClient DEF RunFindClient
  <2>2. cStatus[c] = "live"
    BY <1>1, <2>1, PointedClientIsLive DEF HoldInv
  <2>3. portInfo'[c] = portInfo[c] /\ ~Current(c)
    BY <1>1, <2>1, <2>2 DEF Meets, Current, Object, NULL
  <2> QED BY <1>1, <1>2, <1>3, <2>1, <2>3, LeavesOn
<1>6. ASSUME NEW t \in Threads, RunClean(t)
      PROVE  Leaves(n, c)'
  <2>1. UNCHANGED <<fRefToClientEntry, cSubRefs, portInfo>>
    BY <1>6 DEF RunClean, clients
  <2>2. CASE Current(c)
    <3>1. fPortToClientEntry' # fPortToClientEntry
      BY <2>1, <2>2 DEF Current
    <3>2. fPortToClientEntry' = [fPortToClientEntry EXCEPT ![PortOf[t]] = NULL]
      BY <1>6, <3>1 DEF RunClean
    <3>3. portInfo[c] = PortOf[t]
      BY <1>1, <2>1, <2>2, <3>2 DEF Current
    <3> QED BY <1>1, <1>6, <2>1, <2>2, <3>3, CleaningLeaves DEF Current
  <2>3. CASE ~Current(c)
    BY <1>1, <1>2, <1>3, <2>1, <2>3, LeavesOn
  <2> QED BY <2>2, <2>3
<1>7. ASSUME UNCHANGED <<fPortToClientEntry, portInfo, fRefToClientEntry>>,
             cSubRefs'[c][n] = cSubRefs[c][n]
      PROVE  Leaves(n, c)'
  BY <1>1, <1>2, <1>3, <1>7, LeavesOn DEF Current
<1>8. ASSUME NEW a \in Agents, ClearChildRef(a), UNCHANGED <<fPortToClientEntry, portInfo>>
      PROVE  Leaves(n, c)'
  <2>1. PICK d \in Object, m \in RefNum, k \in Object : Clears(a, d, m, k)
    BY <1>1, <1>8, Clearing
  <2>2. CASE c = d /\ n = m
    <3>1. ~Current(c) /\ fRefToClientEntry[n] = c /\ cSubRefs[c][n] = k /\ k # NULL
      BY <1>8, <2>1, <2>2 DEF Clears, Current, Object, NULL
    <3>2. PICK t \in Threads : Cleans(t, c)
      BY <1>3, <3>1 DEF Leaves
    <3> QED BY <1>1, <2>1, <2>2, <3>2, ClearedLeaves
  <2>3. CASE ~(c = d /\ n = m)
    <3>1. cSubRefs'[c][n] = cSubRefs[c][n] /\ fRefToClientEntry' = fRefToClientEntry
      BY <1>1, <2>1, <2>3, MapsTyped DEF Clears, RefMap
    <3> QED BY <1>7, <1>8, <3>1
  <2> QED BY <2>2, <2>3
<1>9. ASSUME RunRemove, fRefToEntry[Head(queue).num] # NULL
      PROVE  Leaves(n, c)'
  <2>1. PICK m \in RefNum, d \in Object, f \in Object, p \in MaybeObject,
             q \in MaybeObject, g \in MaybeObject : Removes(m, d, f, p, q, g)
    BY <1>1, <1>9, RemoveFound
  <2>2. n # m /\ fRefToClientEntry[n] = c /\ cSubRefs'[c][n] = cSubRefs[c][n]
    BY <1>2, <2>1 DEF Removes
  <2>3. UNCHANGED <<fPortToClientEntry, portInfo>>
    BY <1>9, Zenon DEF RunRemove
  <2> QED BY <1>1, <1>2, <1>3, <2>2, <2>3, LeavesOn DEF Current
<1>10. ASSUME NEW a \in Agents, ReleaseSubRef(a), UNCHANGED <<fPortToClientEntry, portInfo>>
       PROVE  Leaves(n, c)'
  <2>1. UNCHANGED <<fRefToClientEntry, cSubRefs>>
    BY <1>10 DEF ReleaseSubRef, tables, clients
  <2> QED BY <1>7, <1>10, <2>1
<1>11. CASE \E t \in Threads : RunFindClient(t) \/ RunClean(t)
  BY <1>5, <1>6, <1>11
<1>12. CASE UNCHANGED <<fPortToClientEntry, portInfo>>
  BY <1>1, <1>4, <1>7, <1>8, <1>9, <1>10, <1>12, MapsMove DEF MapsStill
<1> QED BY <1>1, <1>11, <1>12, PortsMove

-----------------------------------------------------------------------------
(***************************************************************************)
(* The invariant, and what it says of a daemon at rest.                    *)
(***************************************************************************)
LEMMA InitTidy ==
  ASSUME Finite, Init
  PROVE  TidyInv
<1>1. HoldInv /\ Exact
  BY InitHolds
<1>2. PortsOwn /\ \A t \in Threads : OwnOf(t)
  BY DEF Init, PortsOwn, OwnOf
<1>3. Len(queue) = 0 /\ \A i \in 1..Len(queue) : FALSE
  BY DEF Init
<1>4. OneBlockEach
  BY <1>3 DEF OneBlockEach
<1>5. \A t \in Threads : Asks(t)
  BY DEF Init, Asks
<1>6. Listed /\ Hung /\ Layered /\ Stale
  <2>1. \A e \in Object : e # NULL
    BY DEF Object, NULL
  <2> QED BY <2>1 DEF Init, Listed, Hung, Layered, Stale
<1>7. Ending
  <2>1. Elems(cleanup) = {}
    BY DEF Init, Elems
  <2> QED BY <2>1 DEF Init, Ending
<1>8. OneInternal /\ Inserting
  BY DEF Init, OneInternal, Inserting
<1> QED BY <1>1, <1>2, <1>4, <1>5, <1>6, <1>7, <1>8 DEF TidyInv, OwnInv

LEMMA TidyNext ==
  ASSUME Finite, TidyInv, [Next]_vars
  PROVE  TidyInv'
<1>1. /\ OwnInv /\ HoldInv /\ OneBlockEach /\ \A t \in Threads : Asks(t)
      /\ Listed /\ Hung /\ Ending /\ Layered /\ OneInternal
      /\ NoIndexRecycled => Exact /\ Inserting /\ Stale
  BY DEF TidyInv, OwnInv
<1>2. OwnInv' /\ HoldInv' /\ (Exact /\ NoIndexRecycled' => Exact')
  BY <1>1, NextOwn, NextHolds
<1>3. Shape /\ Noted
  BY <1>1 DEF HoldInv, LoopInv, MapsInv
<1>4. OneBlockEach' /\ \A t \in Threads : Asks(t)'
  BY <1>1, <1>3, OneBlockStep, AsksStep
<1>5. Listed' /\ Hung' /\ Layered'
  BY <1>1, <1>2, ListedStep, HungStep, LayeredStep
<1>6. Ending' /\ OneInternal'
  BY <1>1, EndingNext, OneInternalStep
<1>7. ASSUME NoIndexRecycled'
      PROVE  Exact' /\ Inserting' /\ Stale'
  <2>1. NoIndexRecycled
    BY <1>1, <1>7, TriedGrows DEF HoldInv
  <2>2. Inserting' /\ Stale'
    BY <1>1, <1>2, <2>1, InsertingStep, StaleStep
  <2> QED BY <1>1, <1>2, <1>7, <2>1, <2>2
<1> QED BY <1>2, <1>4, <1>5, <1>6, <1>7 DEF TidyInv

\* An entry, or a client, without a pointer has no count.
LEMMA NobodyPoints ==
  ASSUME NEW e \in Object
  PROVE  /\ (/\ \A n \in RefNum : fRefToEntry[n] # e
             /\ \A o \in Object, n \in RefNum : cSubRefs[o][n] # e
             /\ \A o \in Object, n \in RefNum : fSubRefs[o][n] # e
             /\ \A t \in Threads : ~(pc[t] = "release" /\ entry[t] = e)
             /\ \A t \in Threads : parent[t] # e) => Pointers(e) = 0
         /\ (/\ \A n \in RefNum : fRefToClientEntry[n] # e
             /\ \A p \in Ports : fPortToClientEntry[p] # e
             /\ \A t \in Threads : client[t] # e) => ClientPointers(e) = 0
<1>1. ASSUME \A n \in RefNum : fRefToEntry[n] # e,
             \A o \in Object, n \in RefNum : cSubRefs[o][n] # e,
             \A o \in Object, n \in RefNum : fSubRefs[o][n] # e,
             \A t \in Threads : ~(pc[t] = "release" /\ entry[t] = e),
             \A t \in Threads : parent[t] # e
      PROVE  Pointers(e) = 0
  <2>1. /\ {n \in RefNum : fRefToEntry[n] = e} = {}
        /\ {x \in Object \X RefNum : cSubRefs[x[1]][x[2]] = e} = {}
        /\ {x \in Object \X RefNum : fSubRefs[x[1]][x[2]] = e} = {}
        /\ {t \in Threads : pc[t] = "release" /\ entry[t] = e} = {}
        /\ {t \in Threads : parent[t] = e} = {}
    BY <1>1
  <2>2. /\ InTable(e) = 0 /\ InClients(e) = 0 /\ InParents(e) = 0 /\ InHand(e) = 0
        /\ AsParent(e) = 0
    BY <2>1, FS_EmptySet DEF InTable, InClients, InParents, InHand, AsParent
  <2> QED BY <2>2 DEF Pointers
<1>2. ASSUME \A n \in RefNum : fRefToClientEntry[n] # e,
             \A p \in Ports : fPortToClientEntry[p] # e,
             \A t \in Threads : client[t] # e
      PROVE  ClientPointers(e) = 0
  <2>1. /\ {n \in RefNum : fRefToClientEntry[n] = e} = {}
        /\ {p \in Ports : fPortToClientEntry[p] = e} = {}
        /\ {t \in Threads : client[t] = e} = {}
    BY <1>2
  <2>2. OfNumbers(e) = 0 /\ OfPorts(e) = 0 /\ OfThreads(e) = 0
    BY <2>1, FS_EmptySet DEF OfNumbers, OfPorts, OfThreads
  <2> QED BY <2>2 DEF ClientPointers
<1> QED BY <1>1, <1>2

\* At rest nothing is on its way, and no thread holds anything.
LEMMA AtRest ==
  ASSUME TidyInv, Quiet
  PROVE  /\ \A n, S : ~Goes(n, S)
         /\ \A e \in Object : status[e] # "dying"
         /\ \A t \in Threads : client[t] = NULL /\ parent[t] = NULL /\ pc[t] = "idle"
<1>1. \A n, S : ~Goes(n, S)
  BY DEF Quiet, Goes
<1>2. \A e : ~InAFrame(e)
  BY DEF Quiet, InAFrame, Elems
<1>3. \A t \in Threads : client[t] = NULL /\ parent[t] = NULL /\ pc[t] = "idle"
  BY DEF TidyInv, OwnInv, HoldInv, Locals, LocalsOf, HoldsClient, HoldsParent, Quiet
<1> QED BY <1>1, <1>2, <1>3 DEF TidyInv, Ending

InTheTable(e) == \E n \in RefNum : fRefToEntry[n] = e

\* What is live and out of the table is in the list of an entry that is too,
\* and that is nearer to the root of the references.
LEMMA OrphanOfAnOrphan ==
  ASSUME Finite, TidyInv, Quiet, NoIndexRecycled,
         NEW e \in Object, status[e] = "live", ~InTheTable(e)
  PROVE  \E p \in Object : /\ status[p] = "live" /\ ~InTheTable(p)
                           /\ GetRefType(fRefNum[e]) \in ChildTypes(GetRefType(fRefNum[p]))
<1>1. /\ HoldInv /\ Exact /\ MapsAgree /\ EntryCounts /\ ListsNoted /\ ParentsAgree /\ e # NULL
      /\ retain \in [Object -> Int] /\ Ending /\ Layered
      /\ status \in [Object -> {"unmade", "live", "dying", "freed", "closed"}]
  BY MapsTyped DEF TidyInv, OwnInv, HoldInv, LoopInv, Noted, MapsInv, Shape, TypeOK, EntriesOK
<1>2. Pointers(e) # 0
  BY <1>1 DEF EntryCounts, Exact
<1>3. \A n \in RefNum : fRefToEntry[n] # e
  BY DEF InTheTable
<1>4. \A o \in Object, n \in RefNum : cSubRefs[o][n] # e
  BY <1>1, <1>3 DEF MapsAgree
<1>5. PICK p \in Object, n \in RefNum : fSubRefs[p][n] = e
  <2>1. \A t \in Threads : ~(pc[t] = "release" /\ entry[t] = e) /\ parent[t] # e
    BY <1>1, AtRest
  <2> QED BY <1>2, <1>3, <1>4, <2>1, NobodyPoints
<1>6. fRefNum[e] = n
  BY <1>1, <1>5 DEF ListsNoted
<1>7. status[p] = "live"
  BY <1>1, <1>5, AtRest DEF Ending, Over
<1>8. ~InTheTable(p)
  <2> SUFFICES ASSUME NEW m \in RefNum, fRefToEntry[m] = p
               PROVE  FALSE
    BY DEF InTheTable
  <2>1. fRefNum[p] = m /\ p # NULL
    BY <1>1 DEF MapsAgree, Object, NULL
  <2>2. fRefToEntry[n] = e
    BY <1>1, <1>5, <2>1 DEF ParentsAgree
  <2> QED BY <1>3, <2>2
<1>9. GetRefType(n) \in ChildTypes(GetRefType(fRefNum[p]))
  BY <1>1, <1>5 DEF Layered
<1> QED BY <1>6, <1>7, <1>8, <1>9

LEMMA NoOrphan ==
  ASSUME Finite, TidyInv, Quiet, NoIndexRecycled, NEW e \in Object, status[e] = "live"
  PROVE  InTheTable(e)
<1> SUFFICES ASSUME ~InTheTable(e)
             PROVE  FALSE
  OBVIOUS
<1> DEFINE T(x) == GetRefType(fRefNum[x])
<1>1. PICK p \in Object : status[p] = "live" /\ ~InTheTable(p) /\ T(e) \in ChildTypes(T(p))
  BY OrphanOfAnOrphan
<1>2. PICK q \in Object : status[q] = "live" /\ ~InTheTable(q) /\ T(p) \in ChildTypes(T(q))
  BY <1>1, OrphanOfAnOrphan
<1>3. PICK r \in Object : T(q) \in ChildTypes(T(r))
  BY <1>2, OrphanOfAnOrphan
<1> HIDE DEF T
<1>4. LeafTypes \subseteq 3..5
  BY SizesAssumption
<1>5. \A x, y : x \in ChildTypes(y) => (y = 1 /\ x = 2) \/ (y = 2 /\ x \in 3..5)
  BY <1>4 DEF ChildTypes, eRefTypeDir, eRefTypeDirNode
<1>6. T(p) = 1 \/ T(p) = 2
  BY <1>1, <1>5
<1>7. T(q) = 1
  BY <1>2, <1>5, <1>6
<1> QED BY <1>3, <1>5, <1>7

LEMMA TidySuffices ==
  ASSUME Finite, TidyInv
  PROVE  NothingLeftBehind
<1> SUFFICES ASSUME Quiet, NoIndexRecycled
             PROVE  /\ \A c \in Object : cStatus[c] = "live" => fPortToClientEntry[portInfo[c]] = c
                    /\ \A e \in Object : status[e] = "live" =>
                         /\ fRefToEntry[fRefNum[e]] = e
                         /\ cSubRefs[fRefToClientEntry[fRefNum[e]]][fRefNum[e]] = e
                         /\ fParentID[e] # 0 =>
                              LET p == fRefToEntry[fParentID[e]]
                              IN p # NULL /\ fSubRefs[p][fRefNum[e]] = e
  BY DEF NothingLeftBehind
<1>1. /\ HoldInv /\ MapsAgree /\ ClientCounts /\ PortsOwn /\ Ending /\ Stale /\ Listed /\ Hung
      /\ status \in [Object -> {"unmade", "live", "dying", "freed", "closed"}]
      /\ cRetain \in [Object -> Int] /\ \A x \in Object : x # NULL
      /\ fRefToEntry \in RefMap /\ fRefToClientEntry \in RefMap
  BY MapsTyped DEF TidyInv, OwnInv, HoldInv, LoopInv, MapsInv, Shape, TypeOK, EntriesOK, ClientsOK
<1>2. ASSUME NEW c \in Object, cStatus[c] = "live"
      PROVE  Current(c)
  <2>1. ClientPointers(c) # 0
    BY <1>1, <1>2 DEF ClientCounts
  <2>2. \A t \in Threads : client[t] # c
    BY <1>1, AtRest
  <2>3. CASE \E p \in Ports : fPortToClientEntry[p] = c
    BY <1>1, <2>3 DEF PortsOwn, Current
  <2>4. ASSUME NEW n \in RefNum, fRefToClientEntry[n] = c
        PROVE  Current(c)
    BY <1>1, <2>4, AtRest DEF Stale, Cleans
  <2> QED BY <2>1, <2>2, <2>3, <2>4, NobodyPoints
<1>3. ASSUME NEW e \in Object, status[e] = "live"
      PROVE  fRefNum[e] \in RefNum /\ fRefToEntry[fRefNum[e]] = e
  <2>1. PICK n \in RefNum : fRefToEntry[n] = e
    BY <1>3, NoOrphan DEF InTheTable
  <2> QED BY <1>1, <2>1 DEF MapsAgree
<1>4. ASSUME NEW n \in RefNum, NEW e \in Object, fRefToEntry[n] = e
      PROVE  cSubRefs[fRefToClientEntry[n]][n] = e
  <2>1. PICK c : c = fRefToClientEntry[n]
    OBVIOUS
  <2>2. c \in Object
    BY <1>1, <1>4, <2>1 DEF MapsAgree, RefMap, MaybeObject
  <2>3. cSubRefs[c][n] # NULL
    BY <1>1, <1>4, <2>1, AtRest DEF Listed
  <2> QED BY <1>1, <1>4, <2>1, <2>2, <2>3 DEF MapsAgree
<1>5. ASSUME NEW n \in RefNum, NEW e \in Object, fRefToEntry[n] = e, fParentID[e] # 0
      PROVE  fRefToEntry[fParentID[e]] # NULL /\ fSubRefs[fRefToEntry[fParentID[e]]][n] = e
  <2>1. PICK p \in Object : fSubRefs[p][n] = e /\ fRefNum[p] = fParentID[e]
    BY <1>1, <1>5, AtRest DEF Hung, HungUp
  <2>2. status[p] = "live"
    BY <1>1, <2>1, AtRest DEF Ending, Over
  <2>3. fRefToEntry[fParentID[e]] = p
    BY <1>3, <2>1, <2>2
  <2> QED BY <1>1, <2>1, <2>3
<1> QED BY <1>2, <1>3, <1>4, <1>5 DEF Current

\* When every request has been answered and the queue is empty the reference
\* table holds neither a leak nor an orphan (Server/CRefTable.cpp): a client
\* that is alive is its port's, and a reference that is alive is in the table,
\* in its client's list and in the list of its parent, whatever requests,
\* removals, cleanings of ports and destructors ran together before, as long as
\* no index has been used a second time.
THEOREM NothingIsLeft ==
  ASSUME IsFiniteSet(Threads), IsFiniteSet(Ports)
  PROVE  Spec => []NothingLeftBehind
<1>1. Finite
  BY DEF Finite
<1>2. Init => TidyInv
  BY <1>1, InitTidy
<1>3. TidyInv /\ [Next]_vars => TidyInv'
  BY <1>1, TidyNext
<1>4. TidyInv => NothingLeftBehind
  BY <1>1, TidySuffices
<1> QED BY <1>2, <1>3, <1>4, PTL DEF Spec
=============================================================================
