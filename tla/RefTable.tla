------------------------------ MODULE RefTable ------------------------------
(***************************************************************************)
(* The reference table of the DirectoryService daemon                      *)
(* (Server/CRefTable.cpp): client -> directory -> node -> record and       *)
(* attribute lists.  Every map is owned by the concurrent queue fQueue:    *)
(* readers submit synchronous blocks, writers barrier blocks, removals are *)
(* submitted asynchronously and wait their turn.  Objects are reference    *)
(* counted; the last Release, wherever it happens, runs a destructor that  *)
(* removes the sub-references and hands the number to fCleanupQueue.       *)
(*                                                                         *)
(* One block of fQueue is one step (the reads of one block are one         *)
(* dispatch_sync), except that destructors and ClearChildRefs, which       *)
(* submit to the queue while other threads do, take one step per           *)
(* sub-reference.  An object is named by the CreateReference call that     *)
(* makes it; the reference NUMBER it gets is recycled, as in the code.     *)
(* The daemon is not in local-only mode (see LocalSessions).               *)
(*                                                                         *)
(* Operators with a suffix (Kept_NotCounted) are faulty variants of the    *)
(* operator that follows them; nothing uses them but the runs that confirm *)
(* that a property fails when the code has that fault.                     *)
(***************************************************************************)
EXTENDS Integers, Sequences, FiniteSets

CONSTANTS
  Threads,        \* threads that serve requests
  Ports,          \* session ports (mach ports; 0 for internal dispatch)
  PortOf,         \* the port whose requests a thread serves
  InternalPort,   \* the daemon's own requests: never cleaned
  IndexSpace,     \* kIndexMask + 1: indices before fNextIndex wraps
  RoomLimit,      \* 0xfffe: CreateReference refuses at this table size
  LeafTypes,      \* the types opened under a node that clients use
  Calls,          \* which requests the threads issue
  MaxCalls,       \* bound on the number of CreateReference calls
  MaxRequests     \* bound on the number of requests of any kind

eRefTypeDir == 1
eRefTypeDirNode == 2
RefType == {eRefTypeDir, eRefTypeDirNode} \cup LeafTypes
NULL == 0
Worker == "fQueue"                  \* whoever runs the block at the head

ASSUME ThreadsAssumption ==
  /\ PortOf \in [Threads -> Ports]
  /\ InternalPort \in Ports
  /\ Worker \notin Threads
\* A client port has a serial queue, so one thread at a time serves it.
ASSUME SerialPorts ==
  \A t, u \in Threads :
    PortOf[t] = PortOf[u] /\ PortOf[t] # InternalPort => t = u
ASSUME SizesAssumption ==
  /\ IndexSpace \in Nat \ {0}
  /\ RoomLimit \in Nat
  /\ MaxCalls \in Nat
  /\ MaxRequests \in Nat
  /\ LeafTypes \subseteq 3..5

VARIABLES
  fNextIndex, fRefToEntry, fRefToClientEntry, fPortToClientEntry,
  \* sRefEntry objects
  status, fRefNum, fParentID, retain, fSubRefs,
  \* sClientEntry objects
  cStatus, portInfo, cRetain, cSubRefs,
  \* the two dispatch queues and the destructors in progress
  queue, cleanup, stack,
  \* CreateReference calls and requests begun, and the threads' locals
  calls, requests, pc, op, ref, type, client, parent, entry,
  \* history: the entry a number was verified for, the indices tried so far
  \* and how many had been tried when an entry got its number
  meant, tried, born

numbering == <<fNextIndex, tried, born>>
tables  == <<numbering, fRefToEntry, fRefToClientEntry, fPortToClientEntry>>
entries == <<status, fRefNum, fParentID, retain, fSubRefs>>
clients == <<cStatus, portInfo, cRetain, cSubRefs>>
request == <<calls, requests, op, ref, type, meant>>
vars == <<tables, entries, clients, queue, cleanup, stack, request,
          pc, client, parent, entry>>

RefNum == {ty * IndexSpace + i : ty \in RefType, i \in 0..(IndexSpace - 1)}
GetRefType(n) == n \div IndexSpace
Object == 1..MaxCalls
Agents == Threads \cup {Worker}

SyncBlock(t) == [op |-> "sync", who |-> t]
\* "of" is history only: the entry the removal was submitted for.
RemoveBlock(n, e) == [op |-> "remove", num |-> n, of |-> e]
EntryFrame(e) == [kind |-> "entry", obj |-> e]
ClientFrame(c) == [kind |-> "client", obj |-> c]

\* The thread has answered its request.
Idle(t) ==
  /\ pc' = [pc EXCEPT ![t] = "idle"]
  /\ op' = [op EXCEPT ![t] = "none"]
  /\ ref' = [ref EXCEPT ![t] = 0]
  /\ type' = [type EXCEPT ![t] = 0]
  /\ meant' = [meant EXCEPT ![t] = NULL]

Named(m) == {n \in RefNum : m[n] # NULL}
IsLeast(n, S) == n \in S /\ \A k \in S : n <= k

\* The maps of references of the objects: erasing one, and keeping an object.
WithoutRef_NotErased(lists, o, n) == lists
WithoutRef(lists, o, n) == [lists EXCEPT ![o][n] = NULL]
Kept_NotCounted(counts, o) == counts
Kept(counts, o) == IF o = NULL THEN counts ELSE [counts EXCEPT ![o] = @ + 1]

\* RemoveReference(ref): the removal waits its turn in the queue.
SubmitRemoval_Forgotten(n, e) == UNCHANGED queue
SubmitRemoval(n, e) == queue' = Append(queue, RemoveBlock(n, e))

Init ==
  /\ fNextIndex = 0
  /\ fRefToEntry = [n \in RefNum |-> NULL]
  /\ fRefToClientEntry = [n \in RefNum |-> NULL]
  /\ fPortToClientEntry = [p \in Ports |-> NULL]
  /\ status = [e \in Object |-> "unmade"]
  /\ fRefNum = [e \in Object |-> 0]
  /\ fParentID = [e \in Object |-> 0]
  /\ retain = [e \in Object |-> 0]
  /\ fSubRefs = [e \in Object |-> [n \in RefNum |-> NULL]]
  /\ cStatus = [c \in Object |-> "unmade"]
  /\ portInfo = [c \in Object |-> InternalPort]
  /\ cRetain = [c \in Object |-> 0]
  /\ cSubRefs = [c \in Object |-> [n \in RefNum |-> NULL]]
  /\ queue = <<>>
  /\ cleanup = <<>>
  /\ stack = [a \in Agents |-> <<>>]
  /\ calls = 0
  /\ requests = 0
  /\ pc = [t \in Threads |-> "idle"]
  /\ op = [t \in Threads |-> "none"]
  /\ ref = [t \in Threads |-> 0]
  /\ type = [t \in Threads |-> 0]
  /\ client = [t \in Threads |-> NULL]
  /\ parent = [t \in Threads |-> NULL]
  /\ entry = [t \in Threads |-> NULL]
  /\ meant = [t \in Threads |-> NULL]
  /\ tried = 0
  /\ born = [e \in Object |-> 0]

-----------------------------------------------------------------------------
(***************************************************************************)
(* Releasing.  Release by an agent a: the count drops and, at zero, a      *)
(* runs the destructor, whose loop is the frame pushed on a's stack.       *)
(***************************************************************************)
ReleaseEntry(a, e, rest) ==
  /\ retain' = [retain EXCEPT ![e] = @ - 1]
  /\ IF retain[e] = 1
       THEN /\ status' = [status EXCEPT ![e] = "dying"]
            /\ stack' = [stack EXCEPT ![a] = <<EntryFrame(e)>> \o rest]
       ELSE /\ stack' = [stack EXCEPT ![a] = rest]
            /\ UNCHANGED status

ReleaseClient(a, c) ==
  /\ cRetain' = [cRetain EXCEPT ![c] = @ - 1]
  /\ IF cRetain[c] = 1
       THEN /\ cStatus' = [cStatus EXCEPT ![c] = "dying"]
            /\ stack' = [stack EXCEPT ![a] = <<ClientFrame(c)>> \o @]
       ELSE UNCHANGED <<cStatus, stack>>

TopIs(a, kind) == stack[a] # <<>> /\ Head(stack[a]).kind = kind

ReleaseSubRef_NotRemoved(a) ==
  /\ TopIs(a, "entry")
  /\ LET e == Head(stack[a]).obj
     IN \E n \in RefNum :
          /\ IsLeast(n, Named(fSubRefs[e]))
          /\ fSubRefs' = WithoutRef(fSubRefs, e, n)
          /\ ReleaseEntry(a, fSubRefs[e][n], stack[a])
  /\ UNCHANGED <<tables, fRefNum, fParentID, clients, queue, cleanup, request, pc,
                 client, parent, entry>>

\* One turn of the loop of ~sRefEntry: unlink the sub-reference, submit its
\* removal, drop this list's count on it.
ReleaseSubRef(a) ==
  /\ TopIs(a, "entry")
  /\ LET e == Head(stack[a]).obj
     IN \E n \in RefNum :
          /\ IsLeast(n, Named(fSubRefs[e]))
          /\ fSubRefs' = WithoutRef(fSubRefs, e, n)
          /\ SubmitRemoval(n, fSubRefs[e][n])
          /\ ReleaseEntry(a, fSubRefs[e][n], stack[a])
  /\ UNCHANGED <<tables, fRefNum, fParentID, clients, cleanup, request, pc,
                 client, parent, entry>>

\* The end of ~sRefEntry: the number goes to the cleanup queue.
FinishEntry(a) ==
  /\ TopIs(a, "entry")
  /\ LET e == Head(stack[a]).obj
     IN /\ Named(fSubRefs[e]) = {}
        /\ cleanup' = Append(cleanup, e)
        /\ status' = [status EXCEPT ![e] = "freed"]
        /\ stack' = [stack EXCEPT ![a] = Tail(@)]
  /\ UNCHANGED <<tables, fRefNum, fParentID, retain, fSubRefs, clients, queue,
                 request, pc, client, parent, entry>>

\* One turn of the loop of sClientEntry::ClearChildRefs.
ClearChildRef(a) ==
  /\ TopIs(a, "client")
  /\ LET c == Head(stack[a]).obj
     IN \E n \in RefNum :
          /\ IsLeast(n, Named(cSubRefs[c]))
          /\ cSubRefs' = WithoutRef(cSubRefs, c, n)
          /\ SubmitRemoval(n, cSubRefs[c][n])
          /\ ReleaseEntry(a, cSubRefs[c][n], stack[a])
  /\ UNCHANGED <<tables, fRefNum, fParentID, fSubRefs, cStatus, portInfo,
                 cRetain, cleanup, request, pc, client, parent, entry>>

\* After the loop: the end of ~sClientEntry ...
FreeClient(a) ==
  /\ TopIs(a, "client")
  /\ LET c == Head(stack[a]).obj
     IN /\ Named(cSubRefs[c]) = {}
        /\ cStatus[c] = "dying"
        /\ cStatus' = [cStatus EXCEPT ![c] = "freed"]
        /\ stack' = [stack EXCEPT ![a] = Tail(@)]
  /\ UNCHANGED <<tables, entries, portInfo, cRetain, cSubRefs, queue, cleanup,
                 request, pc, client, parent, entry>>

\* ... or of the block of CleanRefsForMachRefs: it drops the port map's
\* count and the thread that submitted it goes on.
FinishClean(t) ==
  /\ TopIs(Worker, "client")
  /\ pc[t] = "cleaning"
  /\ LET c == Head(stack[Worker]).obj
     IN /\ client[t] = c
        /\ cStatus[c] = "live"
        /\ Named(cSubRefs[c]) = {}
        /\ cRetain' = [cRetain EXCEPT ![c] = @ - 1]
        /\ IF cRetain[c] = 1
             THEN /\ cStatus' = [cStatus EXCEPT ![c] = "dying"]
                  /\ UNCHANGED stack          \* the frame becomes ~sClientEntry
             ELSE /\ stack' = [stack EXCEPT ![Worker] = Tail(@)]
                  /\ UNCHANGED cStatus
  /\ client' = [client EXCEPT ![t] = NULL]
  /\ Idle(t)
  /\ UNCHANGED <<tables, entries, portInfo, cSubRefs, queue, cleanup, calls, requests,
                 parent, entry>>

\* fCleanupQueue runs the dealloc procedure of a destroyed entry: the
\* plug-in is told to close the number (ServerControl::RefDeallocProc).
RunDealloc ==
  /\ cleanup # <<>>
  /\ cleanup' = Tail(cleanup)
  /\ status' = [status EXCEPT ![Head(cleanup)] = "closed"]
  /\ UNCHANGED <<tables, fRefNum, fParentID, retain, fSubRefs, clients, queue,
                 stack, request, pc, client, parent, entry>>

-----------------------------------------------------------------------------
(***************************************************************************)
(* Requests.  Reference numbers come from clients: any number ever issued, *)
(* still valid or not, to this client or to another.                       *)
(***************************************************************************)
Issued == {fRefNum[e] : e \in Object} \ {0}

Submit(t, next) ==
  /\ queue' = Append(queue, SyncBlock(t))
  /\ pc' = [pc EXCEPT ![t] = next]

Begin(t, o, n, ty, next) ==
  /\ pc[t] = "idle"
  /\ o \in Calls
  /\ requests < MaxRequests
  /\ requests' = requests + 1
  /\ op' = [op EXCEPT ![t] = o]
  /\ ref' = [ref EXCEPT ![t] = n]
  /\ type' = [type EXCEPT ![t] = ty]
  /\ Submit(t, next)
  /\ UNCHANGED <<tables, entries, clients, cleanup, stack, client, parent, meant>>

ChildTypes(ty) == CASE ty = eRefTypeDir -> {eRefTypeDirNode}
                    [] ty = eRefTypeDirNode -> LeafTypes
                    [] OTHER -> {}

\* CreateReference without a parent (dsOpenDirService).
BeginOpenDir(t) ==
  /\ calls < MaxCalls
  /\ calls' = calls + 1
  /\ entry' = [entry EXCEPT ![t] = calls + 1]
  /\ Begin(t, "create", 0, eRefTypeDir, "find_client")

\* CreateReference under a parent: it is verified first.
BeginOpenChild(t, n, ty) ==
  /\ calls < MaxCalls
  /\ calls' = calls + 1
  /\ n \in Issued /\ ty \in ChildTypes(GetRefType(n))
  /\ entry' = [entry EXCEPT ![t] = calls + 1]
  /\ Begin(t, "create", n, ty, "verify")

\* RemoveReference(ref, type, port): the closes of the request handlers.
BeginClose(t, n) ==
  /\ n \in Issued
  /\ Begin(t, "close", n, 0, "verify")
  /\ UNCHANGED <<calls, entry>>

\* VerifyReference with a plug-in result, and then CopyNodeRefName.
BeginUse(t, n) ==
  /\ n \in Issued
  /\ Begin(t, "use", n, 0, "verify")
  /\ UNCHANGED <<calls, entry>>

\* The session's port is closed or has no more senders.
BeginClean(t) ==
  /\ PortOf[t] # InternalPort
  /\ Begin(t, "clean", 0, 0, "clean")
  /\ UNCHANGED <<calls, entry>>

\* RemoveReference(ref): daemon code that drops a record it opened itself.
Drop(t, n) ==
  /\ pc[t] = "idle"
  /\ "drop" \in Calls
  /\ requests < MaxRequests
  /\ requests' = requests + 1
  /\ PortOf[t] = InternalPort
  /\ GetRefType(n) \in LeafTypes
  /\ fRefToClientEntry[n] # NULL
  /\ portInfo[fRefToClientEntry[n]] = InternalPort
  /\ SubmitRemoval(n, fRefToEntry[n])
  /\ UNCHANGED <<tables, entries, clients, cleanup, stack, calls, op, ref, type,
                 meant, pc, client, parent, entry>>

-----------------------------------------------------------------------------
(***************************************************************************)
(* The blocks of fQueue.  A block runs when it is at the head and no       *)
(* barrier block before it is still running destructors.                   *)
(***************************************************************************)
Runs(t, where) ==
  /\ queue # <<>>
  /\ Head(queue) = SyncBlock(t)
  /\ stack[Worker] = <<>>
  /\ pc[t] = where
  /\ queue' = Tail(queue)

\* First block of VerifyReference.
RunVerify(t) ==
  /\ Runs(t, "verify")
  /\ LET c == fRefToClientEntry[ref[t]]
     IN /\ client' = [client EXCEPT ![t] = c]
        /\ cRetain' = Kept(cRetain, c)
  /\ pc' = [pc EXCEPT ![t] = "check"]
  /\ meant' = [meant EXCEPT ![t] = fRefToEntry[ref[t]]]
  /\ UNCHANGED <<tables, entries, cStatus, portInfo, cSubRefs, cleanup, stack,
                 calls, requests, op, ref, type, parent, entry>>

\* Back in the thread: an unknown number, or one of another client's.
Granted_ToAnyPort(t) == client[t] # NULL
Granted(t) == client[t] # NULL /\ portInfo[client[t]] = PortOf[t]

CheckFails(t) ==
  /\ pc[t] = "check"
  /\ ~Granted(t)
  /\ pc' = [pc EXCEPT ![t] = "release"]
  /\ entry' = [entry EXCEPT ![t] = NULL]
  /\ UNCHANGED <<tables, entries, clients, queue, cleanup, stack, request,
                 client, parent>>

\* A caller that wants the plug-in reads it in a second block.
CheckForUse(t) ==
  /\ pc[t] = "check" /\ op[t] = "use"
  /\ Granted(t)
  /\ Submit(t, "plugin")
  /\ UNCHANGED <<tables, entries, clients, cleanup, stack, request, client,
                 parent, entry>>

\* The others drop the client at once.
CheckPasses(t) ==
  /\ pc[t] = "check" /\ op[t] # "use"
  /\ Granted(t)
  /\ ReleaseClient(t, client[t])
  /\ client' = [client EXCEPT ![t] = NULL]
  /\ pc' = [pc EXCEPT ![t] = "verified"]
  /\ UNCHANGED <<tables, entries, portInfo, cSubRefs, queue, cleanup, request,
                 parent, entry>>

\* RemoveReference after a successful verification.
SubmitRemove(t) ==
  /\ pc[t] = "verified" /\ op[t] = "close"
  /\ stack[t] = <<>>
  /\ SubmitRemoval(ref[t], meant[t])
  /\ Idle(t)
  /\ UNCHANGED <<tables, entries, clients, cleanup, stack, calls, requests, client,
                 parent, entry>>

SubmitLookup(t) ==
  /\ pc[t] = "verified" /\ op[t] = "create"
  /\ stack[t] = <<>>
  /\ Submit(t, "lookup")
  /\ UNCHANGED <<tables, entries, clients, cleanup, stack, request, client,
                 parent, entry>>

\* CreateReference looks its parent up again and keeps it and its client.
RunLookup(t) ==
  /\ Runs(t, "lookup")
  /\ LET p == fRefToEntry[ref[t]]
         c == fRefToClientEntry[ref[t]]
     IN IF p = NULL
          THEN /\ pc' = [pc EXCEPT ![t] = "release"]
               /\ entry' = [entry EXCEPT ![t] = NULL]
               /\ UNCHANGED <<retain, cRetain, client, parent>>
          ELSE /\ parent' = [parent EXCEPT ![t] = p]
               /\ retain' = Kept(retain, p)
               /\ client' = [client EXCEPT ![t] = c]
               /\ cRetain' = Kept(cRetain, c)
               /\ pc' = [pc EXCEPT ![t] = "room"]
               /\ UNCHANGED entry
  /\ UNCHANGED <<tables, status, fRefNum, fParentID, fSubRefs, cStatus,
                 portInfo, cSubRefs, cleanup, stack, request>>

\* CreateReference of a directory reference finds or makes its client.
RunFindClient(t) ==
  /\ Runs(t, "find_client")
  /\ LET c == fPortToClientEntry[PortOf[t]]
         new == entry[t]
     IN IF c # NULL
          THEN /\ client' = [client EXCEPT ![t] = c]
               /\ cRetain' = Kept(cRetain, c)
               /\ UNCHANGED <<cStatus, portInfo, fPortToClientEntry>>
          ELSE /\ client' = [client EXCEPT ![t] = new]
               /\ cRetain' = [cRetain EXCEPT ![new] = 2]
               /\ cStatus' = [cStatus EXCEPT ![new] = "live"]
               /\ portInfo' = [portInfo EXCEPT ![new] = PortOf[t]]
               /\ fPortToClientEntry' = [fPortToClientEntry EXCEPT ![PortOf[t]] = new]
  /\ pc' = [pc EXCEPT ![t] = "room"]
  /\ UNCHANGED <<numbering, fRefToEntry, fRefToClientEntry, entries, cSubRefs,
                 cleanup, stack, request, parent, entry>>

CheckRoom_Unlimited(t) ==
  /\ pc[t] = "room"
  /\ Submit(t, "insert")
  /\ UNCHANGED <<tables, entries, clients, cleanup, stack, request, client,
                 parent, entry>>

\* The size of the table is read outside the queue.
CheckRoom(t) ==
  /\ pc[t] = "room"
  /\ IF Cardinality(Named(fRefToEntry)) < RoomLimit
       THEN /\ Submit(t, "insert")
            /\ UNCHANGED entry
       ELSE /\ pc' = [pc EXCEPT ![t] = "release"]
            /\ entry' = [entry EXCEPT ![t] = NULL]      \* eDSRefSpaceFull
            /\ UNCHANGED queue
  /\ UNCHANGED <<tables, entries, clients, cleanup, stack, request, client,
                 parent>>

\* The first index at or after fNextIndex that is free for the type.
Probe(k) == (fNextIndex + k) % IndexSpace
FreeProbes(ty) ==
  {k \in 0..(IndexSpace - 1) :
     fRefToEntry[ty * IndexSpace + Probe(k)] = NULL}

AdvanceIndex_Stays(k) == fNextIndex
AdvanceIndex(k) == (fNextIndex + k + 1) % IndexSpace

\* Without a free index the loop never ends and neither does the block.
RunInsert(t) ==
  /\ Runs(t, "insert")
  /\ \E k \in 0..(IndexSpace - 1) :
       LET n == type[t] * IndexSpace + Probe(k)
           e == entry[t]
           c == client[t]
           p == parent[t]
       IN /\ IsLeast(k, FreeProbes(type[t]))
          /\ fNextIndex' = AdvanceIndex(k)
          /\ tried' = tried + k + 1
          /\ born' = [born EXCEPT ![e] = tried + k + 1]
          /\ status' = [status EXCEPT ![e] = "live"]
          /\ fRefNum' = [fRefNum EXCEPT ![e] = n]
          /\ fParentID' = [fParentID EXCEPT ![e] = ref[t]]
          \* counted: the thread, the table, the client's and the parent's list
          /\ retain' = [retain EXCEPT ![e] = 2 + (IF c # NULL THEN 1 ELSE 0)
                                               + (IF p # NULL THEN 1 ELSE 0)]
          /\ fRefToEntry' = [fRefToEntry EXCEPT ![n] = e]
          /\ cSubRefs' = IF c # NULL THEN [cSubRefs EXCEPT ![c][n] = e] ELSE cSubRefs
          /\ fRefToClientEntry' = [fRefToClientEntry EXCEPT ![n] = c]
          /\ cRetain' = Kept(cRetain, c)
          /\ fSubRefs' = IF p # NULL THEN [fSubRefs EXCEPT ![p][n] = e] ELSE fSubRefs
  /\ pc' = [pc EXCEPT ![t] = "release"]
  /\ UNCHANGED <<fPortToClientEntry, cStatus, portInfo, cleanup, stack, request,
                 client, parent, entry>>

\* Second block of VerifyReference: the entry is found through the client.
RunPlugin(t) ==
  /\ Runs(t, "plugin")
  /\ pc' = [pc EXCEPT ![t] =
              IF cSubRefs[client[t]][ref[t]] = NULL THEN "release" ELSE "copy_name"]
  /\ UNCHANGED <<tables, entries, clients, cleanup, stack, request, client,
                 parent, entry>>

SubmitCopyName_KeepsClient(t) ==
  /\ pc[t] = "copy_name" /\ stack[t] = <<>>
  /\ client' = [client EXCEPT ![t] = NULL]
  /\ Submit(t, "get_entry")
  /\ UNCHANGED <<tables, entries, clients, cleanup, stack, request, parent, entry>>

\* The verified caller drops the client and asks for the node's name.
SubmitCopyName(t) ==
  /\ pc[t] = "copy_name"
  /\ IF client[t] # NULL
       THEN /\ ReleaseClient(t, client[t])
            /\ client' = [client EXCEPT ![t] = NULL]
            /\ UNCHANGED <<queue, pc>>
       ELSE /\ stack[t] = <<>>
            /\ Submit(t, "get_entry")
            /\ UNCHANGED <<cRetain, cStatus, stack, client>>
  /\ UNCHANGED <<tables, entries, portInfo, cSubRefs, cleanup, request, parent,
                 entry>>

\* GetRefEntry keeps the entry; its caller reads it and releases it.
RunGetEntry(t) ==
  /\ Runs(t, "get_entry")
  /\ LET e == fRefToEntry[ref[t]]
     IN /\ entry' = [entry EXCEPT ![t] = e]
        /\ retain' = Kept(retain, e)
  /\ pc' = [pc EXCEPT ![t] = "release"]
  /\ UNCHANGED <<tables, status, fRefNum, fParentID, fSubRefs, clients, cleanup,
                 stack, request, client, parent>>

\* CleanRefsForMachRefs: the port forgets its client, then its references go.
RunClean(t) ==
  /\ Runs(t, "clean")
  /\ LET c == fPortToClientEntry[PortOf[t]]
     IN IF c = NULL
          THEN /\ Idle(t)
               /\ UNCHANGED <<fPortToClientEntry, stack, client>>
          ELSE /\ fPortToClientEntry' = [fPortToClientEntry EXCEPT ![PortOf[t]] = NULL]
               /\ stack' = [stack EXCEPT ![Worker] = <<ClientFrame(c)>>]
               /\ client' = [client EXCEPT ![t] = c]
               /\ pc' = [pc EXCEPT ![t] = "cleaning"]
               /\ UNCHANGED <<op, ref, type, meant>>
  /\ UNCHANGED <<numbering, fRefToEntry, fRefToClientEntry, entries, clients,
                 cleanup, calls, requests, parent, entry>>

\* The static RemoveReference: the client's maps, then the table, then the
\* parent's list if the parent is still in the table.  The entry listed by
\* the client and the one in the table are the same (MapsAgree).
RunRemove ==
  /\ queue # <<>>
  /\ Head(queue).op = "remove"
  /\ stack[Worker] = <<>>
  /\ queue' = Tail(queue)
  /\ LET n == Head(queue).num
         c == fRefToClientEntry[n]
         e == fRefToEntry[n]
         p == IF e = NULL \/ fParentID[e] = 0 THEN NULL
                                              ELSE fRefToEntry[fParentID[e]]
         byClient == c # NULL /\ cSubRefs[c][n] # NULL
         byParent == p # NULL /\ fSubRefs[p][n] # NULL
         drops == 1 + (IF byClient THEN 1 ELSE 0) + (IF byParent THEN 1 ELSE 0)
         lastOfClient == c # NULL /\ cRetain[c] = 1
         lastOfEntry == e # NULL /\ retain[e] = drops
     IN /\ fRefToClientEntry' = [fRefToClientEntry EXCEPT ![n] = NULL]
        /\ cSubRefs' = IF byClient THEN WithoutRef(cSubRefs, c, n) ELSE cSubRefs
        /\ cRetain' = IF c # NULL THEN [cRetain EXCEPT ![c] = @ - 1] ELSE cRetain
        /\ cStatus' = IF lastOfClient THEN [cStatus EXCEPT ![c] = "dying"]
                                      ELSE cStatus
        /\ fRefToEntry' = [fRefToEntry EXCEPT ![n] = NULL]
        /\ fSubRefs' = IF byParent THEN WithoutRef(fSubRefs, p, n) ELSE fSubRefs
        /\ retain' = IF e # NULL THEN [retain EXCEPT ![e] = @ - drops] ELSE retain
        /\ status' = IF lastOfEntry THEN [status EXCEPT ![e] = "dying"] ELSE status
        /\ stack' = [stack EXCEPT ![Worker] =
                       (IF lastOfClient THEN <<ClientFrame(c)>> ELSE <<>>)
                       \o (IF lastOfEntry THEN <<EntryFrame(e)>> ELSE <<>>)]
  /\ UNCHANGED <<numbering, fPortToClientEntry, fRefNum, fParentID, portInfo,
                 cleanup, request, pc, client, parent, entry>>

-----------------------------------------------------------------------------
\* Every request ends by dropping what it kept: the client, the entry, the
\* parent, in this order (the tails of CreateReference and VerifyReference).
ReleaseLocalClient(t) ==
  /\ pc[t] = "release" /\ stack[t] = <<>>
  /\ client[t] # NULL
  /\ ReleaseClient(t, client[t])
  /\ client' = [client EXCEPT ![t] = NULL]
  /\ UNCHANGED <<tables, entries, portInfo, cSubRefs, queue, cleanup, request,
                 pc, parent, entry>>

ReleaseLocalEntry(t) ==
  /\ pc[t] = "release" /\ stack[t] = <<>>
  /\ client[t] = NULL /\ entry[t] # NULL
  /\ ReleaseEntry(t, entry[t], <<>>)
  /\ entry' = [entry EXCEPT ![t] = NULL]
  /\ UNCHANGED <<tables, fRefNum, fParentID, fSubRefs, clients, queue, cleanup,
                 request, pc, client, parent>>

ReleaseLocalParent(t) ==
  /\ pc[t] = "release" /\ stack[t] = <<>>
  /\ client[t] = NULL /\ entry[t] = NULL /\ parent[t] # NULL
  /\ ReleaseEntry(t, parent[t], <<>>)
  /\ parent' = [parent EXCEPT ![t] = NULL]
  /\ UNCHANGED <<tables, fRefNum, fParentID, fSubRefs, clients, queue, cleanup,
                 request, pc, client, entry>>

Return(t) ==
  /\ pc[t] = "release" /\ stack[t] = <<>>
  /\ client[t] = NULL /\ entry[t] = NULL /\ parent[t] = NULL
  /\ Idle(t)
  /\ UNCHANGED <<tables, entries, clients, queue, cleanup, stack, calls,
                 requests, client, parent, entry>>

-----------------------------------------------------------------------------
\* Nothing is in progress: the daemon waits for requests.
Quiet ==
  /\ queue = <<>>
  /\ \A a \in Agents : stack[a] = <<>>
  /\ \A t \in Threads : pc[t] = "idle"

Rest == Quiet /\ UNCHANGED vars

NewRequest(t) ==
  \/ BeginOpenDir(t)
  \/ \E n \in Issued, ty \in RefType : BeginOpenChild(t, n, ty)
  \/ \E n \in Issued : BeginClose(t, n) \/ BeginUse(t, n) \/ Drop(t, n)
  \/ BeginClean(t)

\* What a thread does between two blocks of a request.
ThreadStep(t) ==
  \/ CheckFails(t) \/ CheckForUse(t) \/ CheckPasses(t)
  \/ SubmitRemove(t) \/ SubmitLookup(t) \/ CheckRoom(t) \/ SubmitCopyName(t)
  \/ ReleaseLocalClient(t) \/ ReleaseLocalEntry(t) \/ ReleaseLocalParent(t)
  \/ Return(t)

Destructor(a) ==
  ReleaseSubRef(a) \/ FinishEntry(a) \/ ClearChildRef(a) \/ FreeClient(a)

RunBlock ==
  \/ RunRemove
  \/ \E t \in Threads :
       \/ RunVerify(t) \/ RunLookup(t) \/ RunFindClient(t) \/ RunInsert(t)
       \/ RunPlugin(t) \/ RunGetEntry(t) \/ RunClean(t) \/ FinishClean(t)

Next ==
  \/ \E t \in Threads : NewRequest(t) \/ ThreadStep(t)
  \/ \E a \in Agents : Destructor(a)
  \/ RunBlock
  \/ RunDealloc
  \/ Rest

Spec == Init /\ [][Next]_vars

\* libdispatch runs every block it is given and every thread that has begun
\* a request goes on: while something is under way in the daemon, some step of
\* it is taken.  Nothing obliges a client to send another request.
Proceed ==
  \/ \E t \in Threads : ThreadStep(t)
  \/ \E a \in Agents : Destructor(a)
  \/ RunBlock
  \/ RunDealloc

Fairness == WF_vars(Proceed)
FairSpec == Spec /\ Fairness

-----------------------------------------------------------------------------
(***************************************************************************)
(* Properties.                                                             *)
(***************************************************************************)
MaybeObject == Object \cup {NULL}
RefMap == [RefNum -> MaybeObject]
Block == [op : {"sync"}, who : Threads]
           \cup [op : {"remove"}, num : RefNum, of : MaybeObject]
Frame == [kind : {"entry", "client"}, obj : Object]
Where == {"idle", "find_client", "verify", "check", "verified", "lookup",
          "room", "insert", "plugin", "copy_name", "get_entry", "clean",
          "cleaning", "release"}

TablesOK ==
  /\ fNextIndex \in 0..(IndexSpace - 1)
  /\ tried \in Nat
  /\ born \in [Object -> Nat]
  /\ fRefToEntry \in RefMap
  /\ fRefToClientEntry \in RefMap
  /\ fPortToClientEntry \in [Ports -> MaybeObject]
EntriesOK ==
  /\ status \in [Object -> {"unmade", "live", "dying", "freed", "closed"}]
  /\ fRefNum \in [Object -> RefNum \cup {0}]
  /\ fParentID \in [Object -> RefNum \cup {0}]
  /\ retain \in [Object -> Int]
  /\ fSubRefs \in [Object -> RefMap]
ClientsOK ==
  /\ cStatus \in [Object -> {"unmade", "live", "dying", "freed"}]
  /\ portInfo \in [Object -> Ports]
  /\ cRetain \in [Object -> Int]
  /\ cSubRefs \in [Object -> RefMap]
QueuesOK ==
  /\ queue \in Seq(Block)
  /\ cleanup \in Seq(Object)
  /\ stack \in [Agents -> Seq(Frame)]
RequestsOK ==
  /\ calls \in 0..MaxCalls
  /\ requests \in 0..MaxRequests
  /\ pc \in [Threads -> Where]
  /\ op \in [Threads -> {"none", "create", "close", "use", "clean"}]
  /\ ref \in [Threads -> RefNum \cup {0}]
  /\ type \in [Threads -> RefType \cup {0}]
  /\ meant \in [Threads -> MaybeObject]
LocalsOK ==
  /\ client \in [Threads -> MaybeObject]
  /\ parent \in [Threads -> MaybeObject]
  /\ entry \in [Threads -> MaybeObject]

\* The shape of the state.
TypeOK ==
  TablesOK /\ EntriesOK /\ ClientsOK /\ QueuesOK /\ RequestsOK /\ LocalsOK

\* What RunRemove takes for granted: the table, the clients' lists and the
\* map from numbers to clients describe the same references, except that a
\* client's list loses a reference before the table does.
MapsAgree ==
  /\ \A n \in RefNum :
       /\ (fRefToEntry[n] = NULL) <=> (fRefToClientEntry[n] = NULL)
       /\ fRefToEntry[n] # NULL => fRefNum[fRefToEntry[n]] = n
  /\ \A c \in Object, n \in RefNum :
       cSubRefs[c][n] # NULL => /\ fRefToClientEntry[n] = c
                                /\ fRefToEntry[n] = cSubRefs[c][n]

Live(e) == e # NULL => status[e] = "live"
LiveClient(c) == c # NULL => cStatus[c] = "live"

\* No pointer that the daemon keeps, in a map, in a list or in a thread,
\* points to an object whose destructor has run.
NoDangling ==
  /\ \A n \in RefNum : Live(fRefToEntry[n]) /\ LiveClient(fRefToClientEntry[n])
  /\ \A p \in Ports : LiveClient(fPortToClientEntry[p])
  /\ \A o \in Object, n \in RefNum : Live(fSubRefs[o][n]) /\ Live(cSubRefs[o][n])
  /\ \A t \in Threads : /\ Live(parent[t]) /\ LiveClient(client[t])
                        /\ pc[t] = "release" => Live(entry[t])

\* The pointers to an entry: the table, the clients' lists, the parents' lists
\* and what CreateReference and GetRefEntry have retained for their thread.
InTable(e) == Cardinality({n \in RefNum : fRefToEntry[n] = e})
InClients(e) == Cardinality({x \in Object \X RefNum : cSubRefs[x[1]][x[2]] = e})
InParents(e) == Cardinality({x \in Object \X RefNum : fSubRefs[x[1]][x[2]] = e})
InHand(e) == Cardinality({t \in Threads : pc[t] = "release" /\ entry[t] = e})
AsParent(e) == Cardinality({t \in Threads : parent[t] = e})
Pointers(e) == InTable(e) + InClients(e) + InParents(e) + InHand(e) + AsParent(e)

\* The pointers to a client: the numbers it owns, its port, the threads.
OfNumbers(c) == Cardinality({n \in RefNum : fRefToClientEntry[n] = c})
OfPorts(c) == Cardinality({p \in Ports : fPortToClientEntry[p] = c})
OfThreads(c) == Cardinality({t \in Threads : client[t] = c})
ClientPointers(c) == OfNumbers(c) + OfPorts(c) + OfThreads(c)

\* Each object's reference count is the number of pointers to it: no path
\* forgets a Release or makes one too many.  For the entries that is so until
\* an index is used again: then an insertion under a parent that has left the
\* table may find in the parent's list a child that left the table too and had
\* the same number, and overwrites it (CRefTable.cpp:307) without a Release.
NoIndexRecycled == tried <= IndexSpace
RetainCountsExact ==
  /\ NoIndexRecycled => \A e \in Object : retain[e] = Pointers(e)
  /\ \A c \in Object : cRetain[c] = ClientPointers(c)

\* Between the verification of a parent and the insertion of its child the
\* queue runs other blocks; still, if the parent that is looked up is the one
\* that was verified, the child goes to the caller's own client.
CallersOwnClient ==
  \A t \in Threads :
    pc[t] \in {"room", "insert"} /\ parent[t] = meant[t] =>
      client[t] # NULL /\ portInfo[client[t]] = PortOf[t]

\* CRefTable.h:55 "Indexes are not recycled until we loop back around": while
\* a thread still uses a number it verified, or a removal of it waits in the
\* queue, the number can come to name another entry only once every index
\* has been tried since the first entry got it.
Looped(e, n) == LET f == fRefToEntry[n]
                IN f # NULL /\ f # e => born[f] - born[e] >= IndexSpace
ReusedAfterALoop ==
  /\ \A t \in Threads : meant[t] # NULL => Looped(meant[t], ref[t])
  /\ \A i \in 1..Len(queue) :
       queue[i].op = "remove" /\ queue[i].of # NULL
         => Looped(queue[i].of, queue[i].num)

\* When nothing is in progress there is no leak and no orphan: a live client
\* is its port's client, and a live entry is in the table, in its client's
\* list, and under a parent that is itself in the table.  (Again until an index
\* is used again: a child that is overwritten in its parent's list, as said at
\* RetainCountsExact, is never released.)
NothingLeftBehind ==
  Quiet /\ NoIndexRecycled =>
    /\ \A c \in Object : cStatus[c] = "live" => fPortToClientEntry[portInfo[c]] = c
    /\ \A e \in Object : status[e] = "live" =>
         /\ fRefToEntry[fRefNum[e]] = e
         /\ cSubRefs[fRefToClientEntry[fRefNum[e]]][fRefNum[e]] = e
         /\ fParentID[e] # 0 =>
              LET p == fRefToEntry[fParentID[e]]
              IN p # NULL /\ fSubRefs[p][fRefNum[e]] = e

\* k was opened under e, and not under another entry of the same number.
Opened(k, e) ==
  /\ status[k] # "unmade"
  /\ fParentID[k] = fRefNum[e]
  /\ born[e] < born[k]
  /\ \A f \in Object : fRefNum[f] = fRefNum[e] => ~(born[e] < born[f] /\ born[f] < born[k])

\* CRefTable.cpp:92 "We use a non-concurrent queue to ensure ordered cleanup.
\* Out-of-order cleanup can cause a node release before the records that
\* reference the node": no node is closed in its plug-in before its records.
OrderedCleanup ==
  \A e, k \in Object :
    (/\ status[e] = "closed"
     /\ Opened(k, e)
     /\ GetRefType(fRefNum[e]) = eRefTypeDirNode) => status[k] = "closed"

\* The block that inserts an entry looks for a free index until it finds one
\* (CRefTable.cpp:260), with fQueue waiting behind it: there is one, although
\* the room was looked at before and outside the queue, and other threads have
\* inserted since.
InsertionsEnd == \A t \in Threads : pc[t] = "insert" => FreeProbes(type[t]) # {}

\* A reference that is in the table, for a client whose port is not cleaned.
InUse(e) ==
  /\ status[e] = "live"
  /\ fRefToEntry[fRefNum[e]] = e
  /\ LET c == fRefToClientEntry[fRefNum[e]]
     IN c # NULL /\ fPortToClientEntry[portInfo[c]] = c

\* The references that are still to be closed, or that were opened under one
\* that is gone.
Owed ==
  {e \in Object :
     /\ status[e] # "unmade" /\ ~InUse(e)
     /\ ~ \A k \in Object : k = e \/ Opened(k, e) => status[k] = "closed"}

\* When a reference is removed, or its client's port is cleaned, it is closed in
\* its plug-in and its descendants follow, whatever other threads do with them
\* meanwhile, even what the client was opening when its port was lost.  (Once
\* owed, a reference is so until it is closed, and threads make a bounded number
\* of requests: so nothing is owed in the end.)
DescendantsFollow == Owed # {} ~> Owed = {}
=============================================================================
