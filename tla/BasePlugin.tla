------------------------------ MODULE BasePlugin ------------------------------
(***************************************************************************)
(* The base class of plug-ins (PlugIns/Common/BaseDirectoryPlugin.cpp):    *)
(* what it keeps for the references of the daemon, and what becomes of it. *)
(* fContextHash has a context for each node and record, found by the       *)
(* reference; a record's context points at the virtual node of its node's. *)
(* fContinueHash has the searches that are not done, each under a number   *)
(* the client keeps between the parts of its result.                       *)
(*                                                                         *)
(* Both tables have a lock, held for one look-up, addition or removal:     *)
(* the pointers handed out are used without it and nothing counts their    *)
(* uses.  Whether they stay good depends on who closes what and when, so   *)
(* the daemon's part is here as well: its table, which thread serves which *)
(* client, and the queue from which the plug-in learns, later and in any   *)
(* order, that references are gone.                                        *)
(*                                                                         *)
(* A request is two steps: the handler finds what it needs, and, when the  *)
(* plug-in's own class has answered, ends.  Refused requests change        *)
(* nothing and are left out.  Operators with a suffix are faulty variants. *)
(***************************************************************************)
EXTENDS Integers, FiniteSets, Functions

CONSTANTS
  Handlers,      \* each serves one client, one request at a time
  NodeRefs, RecordRefs,  \* the numbers of references, used again and again
  ContextSpace,  \* 2^32: fNextContextID is a UInt32
  MaxObjects,    \* bound: contexts and searches at once
  MaxCalls,      \* bound: opens and requests
  MaxChanges     \* bound: how often the plug-in is made inactive

\* What the constants must be; a module that gives them values assumes it.
BasePluginAssumption ==
  /\ NodeRefs \cap RecordRefs = {} /\ 0 \notin NodeRefs \cup RecordRefs
  /\ ContextSpace \in Nat /\ ContextSpace > 1
  /\ MaxObjects \in Nat /\ MaxCalls \in Nat /\ MaxChanges \in Nat

Memory == 1..MaxObjects   \* blocks of memory; a freed one is used again
Null == 0

VARIABLES
  fState,         \* the flags kInitialized and kActive
  fContextHash,   \* reference -> [block, node], whose virtual node it uses
  fContextMap,    \* number -> [fPointer, fRefNum]
  fNextContextID,
  table,          \* the daemon: live reference -> [owner, node, object]
  closing,        \* references removed, the plug-in not told yet
  ignored,        \* references whose closing the plug-in refused
  held,           \* node -> [number, search] the client holds
  dropped,        \* numbers of searches the client gave up on without a word
  serves,         \* per thread: [op, ref, new, context, search, number]
  calls, changes  \* how many, for the bounds

baseVars == <<fState, fContextHash, fContextMap, fNextContextID,
              table, closing, ignored, held, dropped, serves, calls, changes>>
counts == <<calls, changes>>
tables == <<fContextHash, fContextMap, fNextContextID>>
daemon == <<table, closing, ignored>>
client == <<held, dropped>>

-----------------------------------------------------------------------------
(* The handlers: what they look up, whether they call the virtual node,    *)
(* what a success adds or takes away.                                      *)

Request(on, uses, then) == [on |-> on, uses |-> uses, then |-> then]
NoRequest == Request("none", FALSE, "nothing")

DoPlugInCustomCall == Request("node", TRUE, "nothing")
GetDirNodeInfo     == Request("node", TRUE, "nothing")
DoAuthGetPolicy          == Request("node", TRUE, "nothing")
DoSimpleAuthentication   == Request("node", TRUE, "nothing")
DoSimplePasswordChange   == Request("node", TRUE, "nothing")
DoExtendedAuthentication == Request("node", FALSE, "nothing")
DoAuthentication == {DoAuthGetPolicy, DoSimpleAuthentication, DoSimplePasswordChange, DoExtendedAuthentication}
GetRecordList                   == Request("node", TRUE, "search")
DoAttributeValueSearchWithData  == Request("node", TRUE, "search")
OpenRecord   == Request("node", TRUE, "record")
CreateRecord == Request("node", TRUE, "record")    \* and open it
GetRecRefInfo          == Request("record", FALSE, "nothing")
GetRecAttribInfo       == Request("record", TRUE, "nothing")
GetRecAttrValueByValue == Request("record", FALSE, "nothing")
GetRecAttrValueByIndex == Request("record", FALSE, "nothing")
GetRecAttrValueByID    == Request("record", FALSE, "nothing")
SetRecordType        == Request("record", TRUE, "nothing")
SetRecordName        == Request("record", TRUE, "nothing")
FlushRecord          == Request("record", TRUE, "nothing")
AddAttribute         == Request("record", TRUE, "nothing")
RemoveAttribute      == Request("record", TRUE, "nothing")
AddAttributeValue    == Request("record", TRUE, "nothing")
RemoveAttributeValue == Request("record", TRUE, "nothing")
SetAttributeValue    == Request("record", TRUE, "nothing")
DeleteRecord         == Request("record", TRUE, "gone")

\* Attribute lists and their values never get a context here: the
\* requests on them (GetAttributeEntry and the others) are refused.
ProcessRequest ==
  {DoPlugInCustomCall, GetDirNodeInfo, GetRecordList, DoAttributeValueSearchWithData,
   OpenRecord, CreateRecord, GetRecRefInfo, GetRecAttribInfo,
   GetRecAttrValueByValue, GetRecAttrValueByIndex, GetRecAttrValueByID,
   SetRecordType, SetRecordName, FlushRecord, AddAttribute, RemoveAttribute,
   AddAttributeValue, RemoveAttributeValue, SetAttributeValue, DeleteRecord}
  \cup DoAuthentication

NoContext == [block |-> Null, node |-> Null]
NoJob == [op |-> NoRequest, ref |-> Null, new |-> Null, context |-> NoContext, search |-> Null, number |-> 0]
Resting(t) == serves[t].ref = Null
NoSearch == [number |-> 0, search |-> Null]

BaseInit ==
  /\ fState = [initialized |-> FALSE, active |-> FALSE]
  /\ fContextHash = <<>>
  /\ fContextMap = <<>>
  /\ fNextContextID = 1
  /\ table = <<>>
  /\ closing = {}
  /\ ignored = {}
  /\ held = [n \in NodeRefs |-> NoSearch]
  /\ dropped = {}
  /\ serves = [t \in Handlers |-> NoJob]
  /\ calls = 0 /\ changes = 0

-----------------------------------------------------------------------------
(* The state of the plug-in.                                               *)

\* Requests wait for the event this posts.
Initialize ==
  /\ ~fState.initialized
  /\ fState' = [fState EXCEPT !.initialized = TRUE]
  /\ UNCHANGED <<tables, daemon, client, serves, counts>>

SetPluginState(active) ==
  /\ fState.active # active
  /\ changes' = (IF active THEN changes ELSE changes + 1) /\ changes' <= MaxChanges
  /\ fState' = [fState EXCEPT !.active = active]
  /\ UNCHANGED <<tables, daemon, client, serves, calls>>

\* An inactive plug-in serves custom calls and opens of its own name only.
Admitted(op) == fState.initialized /\ (fState.active \/ op = DoPlugInCustomCall)

-----------------------------------------------------------------------------
(* The two tables.  A block is allocated while it is in one of them.       *)

Blocks == {fContextHash[r].block : r \in DOMAIN fContextHash}
Searches == {fContextMap[n].fPointer : n \in DOMAIN fContextMap}
Pointed ==
  Blocks \cup Searches
  \cup UNION {{serves[t].context.block, serves[t].context.node, serves[t].search} : t \in Handlers}
  \cup {fContextHash[r].node : r \in DOMAIN fContextHash}
  \cup {table[r].object : r \in DOMAIN table} \cup {held[n].search : n \in NodeRefs}
Unused == Memory \ Pointed
\* Blocks are alike: the least unused one.
MakeContextData == CHOOSE o \in Unused : \A p \in Unused : o <= p

With(f, k, v) == [x \in DOMAIN f \cup {k} |-> IF x = k THEN v ELSE f[x]]
Without(f, ks) == Restrict(f, DOMAIN f \ ks)

\* A reference that has a context keeps that one.
AddItem(ref, context) == IF ref \in DOMAIN fContextHash THEN fContextHash ELSE With(fContextHash, ref, context)

\* Numbers in use are skipped, and 0 on the way; but one past the last
\* number fNextContextID is 0 itself.
Probe(k) == fNextContextID + k - (IF fNextContextID + k < ContextSpace THEN 0 ELSE ContextSpace - 1)
Tries == {k \in 0..ContextSpace - 1 : Probe(k) \notin DOMAIN fContextMap}
NextNumber == Probe(CHOOSE k \in Tries : \A l \in Tries : k <= l)
AddPointer(search, ref) ==
  /\ fContextMap' = With(fContextMap, NextNumber, [fPointer |-> search, fRefNum |-> ref])
  /\ fNextContextID' = (NextNumber + 1) % ContextSpace

\* There is no context 0 to remove.
RemoveContext(number) == Without(fContextMap, {number} \ {0})
PointersForRefNum_All(ref) == DOMAIN fContextMap
PointersForRefNum_None(ref) == {}
PointersForRefNum(ref) == {n \in DOMAIN fContextMap : fContextMap[n].fRefNum = ref}

-----------------------------------------------------------------------------
(* References: the daemon makes one before it asks the plug-in, and the    *)
(* plug-in learns of its end from a queue.  A number is used again once    *)
(* the plug-in has been told.                                              *)

Counted == calls < MaxCalls /\ calls' = calls + 1

Unheld(refs) == refs \ (DOMAIN table \cup closing)
Below(r) == {c \in DOMAIN table : table[c].node = r}
Reference(t, n, object) == [owner |-> t, node |-> n, object |-> object]

\* OpenDirNode for thread t's client; of the plug-in's own name or not.  A
\* context left over under this number makes it fail, and goes.
Opened_Anyway(r, found) == found
Opened(r, found) == found /\ r \notin DOMAIN fContextHash
OpenDirNode(t, r, own, found) ==
  /\ Resting(t) /\ Unused # {}
  /\ Counted
  /\ fState.initialized /\ (fState.active \/ own)
  /\ r \in Unheld(NodeRefs)
  /\ LET object == MakeContextData
         opened == Opened(r, found)
     IN /\ fContextHash' = IF opened THEN AddItem(r, [block |-> object, node |-> object]) ELSE Without(fContextHash, {r})
        /\ table' = IF opened THEN With(table, r, Reference(t, Null, object)) ELSE table
        /\ closing' = IF opened THEN closing ELSE closing \cup {r}
  /\ UNCHANGED <<fState, fContextMap, fNextContextID, ignored, client, serves, changes>>

\* The client closes a reference, or dies; those below it go with it.
RemoveReference(t, r) ==
  /\ Resting(t)
  /\ r \in DOMAIN table /\ table[r].owner = t
  /\ LET gone == {r} \cup Below(r)
     IN /\ table' = Without(table, gone)
        /\ closing' = closing \cup gone
  /\ held' = IF r \in NodeRefs THEN [held EXCEPT ![r] = NoSearch] ELSE held
  /\ UNCHANGED <<fState, tables, ignored, dropped, serves, counts>>

\* CloseDirNode and CloseRecord, called for the queue.  Without a context
\* nothing is done, the searches of a node included.
CloseDirNode(r) ==
  /\ r \in NodeRefs
  /\ LET gone == IF r \in DOMAIN fContextHash THEN PointersForRefNum(r) ELSE {}
     IN /\ fContextMap' = Without(fContextMap, gone)
        /\ dropped' = dropped \ gone
CloseRecord(r) ==
  /\ r \in RecordRefs
  /\ UNCHANGED <<fContextMap, dropped>>
RefDealloc(r) ==
  /\ r \in closing
  /\ closing' = closing \ {r}
  /\ IF fState.active
     THEN /\ CloseDirNode(r) \/ CloseRecord(r)
          /\ fContextHash' = Without(fContextHash, {r})
          /\ ignored' = IF r \in DOMAIN fContextHash THEN ignored \ {r} ELSE ignored
     ELSE /\ ignored' = ignored \cup {r}
          /\ UNCHANGED <<fContextHash, fContextMap, dropped>>
  /\ UNCHANGED <<fState, fNextContextID, table, held, serves, counts>>

-----------------------------------------------------------------------------
(* Requests.                                                               *)

Begins(t, op, r) ==
  /\ Resting(t)
  /\ Counted /\ UNCHANGED changes
  /\ Admitted(op)
  /\ r \in DOMAIN table /\ table[r].owner = t
  /\ r \in IF op.on = "node" THEN NodeRefs ELSE RecordRefs
  /\ r \in DOMAIN fContextHash

Begun(t, op, r, new, search, number) ==
  serves' = [serves EXCEPT ![t] = [op |-> op, ref |-> r, new |-> new, context |-> fContextHash[r],
                             search |-> search, number |-> number]]

BeginPlain(t, op, r) ==
  /\ op.then \in {"nothing", "gone"}
  /\ Begins(t, op, r)
  /\ Begun(t, op, r, Null, Null, 0)
  /\ UNCHANGED <<fState, tables, daemon, client>>

\* The daemon has made the reference the record is to get.
BeginOpen(t, op, r, new) ==
  /\ op.then = "record"
  /\ Begins(t, op, r)
  /\ new \in Unheld(RecordRefs)
  /\ table' = With(table, new, Reference(t, r, Null))
  /\ Begun(t, op, r, new, Null, 0)
  /\ UNCHANGED <<fState, tables, closing, ignored, client>>

\* A search goes on under its number, or starts under a new one.
BeginSearch(t, op, r) ==
  /\ op.then = "search"
  /\ Begins(t, op, r)
  /\ IF held[r].number # 0
     THEN /\ held[r].number \in DOMAIN fContextMap
          /\ Begun(t, op, r, Null, fContextMap[held[r].number].fPointer, held[r].number)
          /\ UNCHANGED <<fContextMap, fNextContextID>>
     ELSE /\ Unused # {} /\ Cardinality(DOMAIN fContextMap) < ContextSpace - 1
          /\ AddPointer(MakeContextData, r)
          /\ Begun(t, op, r, Null, MakeContextData, NextNumber)
  /\ UNCHANGED <<fState, fContextHash, daemon, client>>

Ends(t, then) ==
  /\ ~Resting(t) /\ serves[t].op.then = then
  /\ serves' = [serves EXCEPT ![t] = NoJob]
  /\ UNCHANGED counts

End(t) ==
  /\ Ends(t, "nothing")
  /\ UNCHANGED <<fState, tables, daemon, client>>

\* The context is gone even if the record is still there.
EndDelete(t, deleted) ==
  /\ Ends(t, "gone")
  /\ LET r == serves[t].ref
     IN /\ fContextHash' = Without(fContextHash, {r})
        /\ table' = IF deleted THEN Without(table, {r}) ELSE [table EXCEPT ![r].object = Null]
        /\ closing' = IF deleted THEN closing \cup {r} ELSE closing
  /\ UNCHANGED <<fState, fContextMap, fNextContextID, ignored, client>>

\* Of a record that is not there the plug-in clears the reference in the
\* answer: the daemon does not find it to remove it.  Other failures leave it.
EndOpen(t, how) ==
  /\ Ends(t, "record")
  /\ LET new == serves[t].new
         object == MakeContextData
     IN CASE how = "found" ->
               /\ Unused # {}
               /\ fContextHash' = AddItem(new, [block |-> object, node |-> serves[t].context.node])
               /\ table' = [table EXCEPT ![new].object = object]
               /\ UNCHANGED closing
          [] how = "not_found" -> UNCHANGED <<fContextHash, table, closing>>
          [] how = "failed" ->
               /\ table' = Without(table, {new})
               /\ closing' = closing \cup {new}
               /\ UNCHANGED fContextHash
  /\ UNCHANGED <<fState, fContextMap, fNextContextID, ignored, client>>

\* done: nothing was found, or the search failed; not when records were, or
\* the buffer was too small for one.
Answered(number, search) == IF number = 0 THEN NoSearch ELSE [number |-> number, search |-> search]
EndSearch_Forgets(t, done) ==
  /\ Ends(t, "search")
  /\ fContextMap' = RemoveContext(serves[t].number)
  /\ held' = [held EXCEPT ![serves[t].ref] = Answered(IF done THEN 0 ELSE serves[t].number, serves[t].search)]
  /\ UNCHANGED <<fState, fContextHash, fNextContextID, daemon, dropped>>
EndSearch(t, done) ==
  /\ Ends(t, "search")
  /\ fContextMap' = IF done THEN RemoveContext(serves[t].number) ELSE fContextMap
  /\ held' = [held EXCEPT ![serves[t].ref] = Answered(IF done THEN 0 ELSE serves[t].number, serves[t].search)]
  /\ UNCHANGED <<fState, fContextHash, fNextContextID, daemon, dropped>>

\* The client has seen enough, and says so or not.
ReleaseContinueData(t, r) ==
  /\ Resting(t) /\ fState.initialized /\ fState.active
  /\ r \in DOMAIN table /\ table[r].owner = t
  /\ held[r].number # 0
  /\ fContextMap' = RemoveContext(held[r].number)
  /\ held' = [held EXCEPT ![r] = NoSearch]
  /\ UNCHANGED <<fState, fContextHash, fNextContextID, daemon, dropped, serves, counts>>
GiveUp(t, r) ==
  /\ Resting(t)
  /\ r \in DOMAIN table /\ table[r].owner = t
  /\ held[r].number # 0
  /\ dropped' = dropped \cup {held[r].number}
  /\ held' = [held EXCEPT ![r] = NoSearch]
  /\ UNCHANGED <<fState, tables, daemon, serves, counts>>

BaseNext ==
  \/ Initialize
  \/ \E active \in BOOLEAN : SetPluginState(active)
  \/ \E t \in Handlers, r \in NodeRefs, own, found \in BOOLEAN : OpenDirNode(t, r, own, found)
  \/ \E t \in Handlers, r \in NodeRefs \cup RecordRefs : RemoveReference(t, r)
  \/ \E r \in NodeRefs \cup RecordRefs : RefDealloc(r)
  \/ \E t \in Handlers, op \in ProcessRequest, r \in NodeRefs \cup RecordRefs : BeginPlain(t, op, r)
  \/ \E t \in Handlers, op \in ProcessRequest, r \in NodeRefs, new \in RecordRefs : BeginOpen(t, op, r, new)
  \/ \E t \in Handlers, op \in ProcessRequest, r \in NodeRefs : BeginSearch(t, op, r)
  \/ \E t \in Handlers : End(t)
  \/ \E t \in Handlers, deleted \in BOOLEAN : EndDelete(t, deleted)
  \/ \E t \in Handlers, how \in {"found", "not_found", "failed"} : EndOpen(t, how)
  \/ \E t \in Handlers, done \in BOOLEAN : EndSearch(t, done)
  \/ \E t \in Handlers, r \in NodeRefs : ReleaseContinueData(t, r)
  \/ \E t \in Handlers, r \in NodeRefs : GiveUp(t, r)

BaseSpec == BaseInit /\ [][BaseNext]_baseVars

-----------------------------------------------------------------------------
(* Properties.                                                             *)

\* What a handler found under a lock it no longer holds is still there when
\* it is used: its context, the virtual node of that context, its search
\* (GetItemData, GetPointer).  Only what others do keeps it so; the virtual
\* node is not there if the context is one that should have been closed.
NoneUsedAfterFree ==
  \A t \in Handlers : ~Resting(t) =>
    /\ serves[t].context.block \in Blocks
    /\ serves[t].op.uses /\ serves[t].ref \notin ignored => serves[t].context.node \in Blocks
    /\ serves[t].search # Null => serves[t].search \in Searches

\* A reference leads to the context made when it was opened, and a context
\* stays no longer than its reference: except a record's that the inactive
\* plug-in was told to close, which the next record of that number gets.
ContextsFollowReferences ==
  /\ \A r \in DOMAIN table : table[r].object # Null /\ r \notin ignored \cap RecordRefs =>
       r \in DOMAIN fContextHash /\ fContextHash[r].block = table[r].object
  /\ DOMAIN fContextHash \subseteq DOMAIN table \cup closing \cup ignored

\* "we never use 0" (CContinue::AddPointer): 0 is what an answer says when a
\* search is done.  But only the loop over used numbers skips it.
ZeroNeverUsed == 0 \notin DOMAIN fContextMap

\* The number a client holds leads to the search it was given for; and each
\* search is going on, held, given up on, or about to go with its node.
\* The one under number 0, if that was used after all (ZeroNeverUsed), is
\* lost to its client, and there until its node goes.
SearchesKept ==
  /\ \A r \in NodeRefs : held[r].number # 0 =>
       /\ held[r].number \in DOMAIN fContextMap
       /\ fContextMap[held[r].number] = [fPointer |-> held[r].search, fRefNum |-> r]
  /\ \A n \in DOMAIN fContextMap :
       \/ n # 0 /\ \E t \in Handlers : serves[t].number = n
       \/ n # 0 /\ \E r \in NodeRefs : held[r].number = n
       \/ n # 0 /\ n \in dropped
       \/ n = 0 /\ fContextMap[n].fRefNum \in DOMAIN table
       \/ fContextMap[n].fRefNum \in closing \cup ignored

\* Nothing a request holds without a lock or a count goes away under it, and
\* nothing a client was given a number for is lost.
KeptWhileNeeded == NoneUsedAfterFree /\ SearchesKept
=============================================================================
