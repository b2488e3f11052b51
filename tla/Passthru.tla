------------------------------- MODULE Passthru -------------------------------
(***************************************************************************)
(* The objects DirectoryService keeps for opendirectoryd                   *)
(* (Server/od_passthru.cpp): sessions, nodes and running queries, each     *)
(* under a fresh uuid in the red-black tree passthru_rbt, owned by the pid *)
(* that asked for it.  The tree has a serial queue; sessions of the        *)
(* local-only daemon have a second one, which also guards their count and  *)
(* path.                                                                   *)
(*                                                                         *)
(* A synchronous block of the tree's queue is one step, taken when no      *)
(* asynchronous deletion waits before it.  An object stands for the struct *)
(* that holds its uuid, too: the struct lives as long as the object is in  *)
(* the tree.  Authentication contexts are left out (see README).           *)
(*                                                                         *)
(* Operators with a suffix (Retained_Not) are faulty variants of the       *)
(* operator that follows; only runs that confirm a property use them.      *)
(***************************************************************************)
EXTENDS Integers, Sequences, FiniteSets

CONSTANTS
  Threads,        \* message handlers that run at once
  Pids,           \* processes that open sessions: instances of opendirectoryd
  LocalPaths,     \* values of "LocalPath" in a session request
  Modes,          \* the values gDSLocalOnlyMode may have
  MaxRefs,        \* bound on the objects made
  MaxRequests,    \* bound on the requests
  MaxDeaths       \* bound on the pids that exit

Kind == {"session", "node", "query"}
NULL == 0
NoPath == "none"     \* a session request without LocalPath

ASSUME PassthruAssumption ==
  /\ Modes \subseteq BOOLEAN
  /\ NoPath \notin LocalPaths
  /\ MaxRefs \in Nat /\ MaxRequests \in Nat /\ MaxDeaths \in Nat

Object == 1..MaxRefs

VARIABLES
  gDSLocalOnlyMode,  \* how the daemon was started
  passthru_rbt,    \* the objects in the tree
  deletes,         \* _delete_refs_for_pid blocks queued on the tree's queue
  sessionQueue,    \* the thread whose block the session queue runs, or none
  localOnlyCount, localonlyPath,
  kind, owner, path, retain,        \* per object; retain is CoreFoundation's
  answered,        \* objects whose uuid was sent to the client
  running,         \* queries whose results are being sent
  misused,         \* history: a freed query has been used
  pc, pid, object, new,             \* per thread: the object used, the one made
  alive, requests

tree    == <<passthru_rbt, deletes>>
local   == <<sessionQueue, localOnlyCount, localonlyPath>>
objects == <<kind, owner, path, retain>>
known   == <<answered, running, misused>>
world   == <<alive, requests>>
vars == <<gDSLocalOnlyMode, tree, local, objects, known, pc, pid, object, new, world>>

Free == "free"

Init ==
  /\ gDSLocalOnlyMode \in Modes
  /\ passthru_rbt = {}
  /\ deletes = << >>
  /\ sessionQueue = Free
  /\ localOnlyCount = 0
  /\ localonlyPath = NoPath
  /\ kind = [o \in Object |-> "unmade"]
  /\ owner = [o \in Object |-> NULL]
  /\ path = [o \in Object |-> NoPath]
  /\ retain = [o \in Object |-> 0]
  /\ answered = {}
  /\ running = {}
  /\ misused = FALSE
  /\ pc = [t \in Threads |-> "idle"]
  /\ pid = [t \in Threads |-> NULL]
  /\ object = [t \in Threads |-> NULL]
  /\ new = [t \in Threads |-> NULL]
  /\ alive = Pids
  /\ requests = 0

Goto(t, where) == pc' = [pc EXCEPT ![t] = where]

\* A request of a live process reaches a handler.
Receive(t, p) ==
  /\ pc[t] = "idle" /\ p \in alive /\ requests < MaxRequests
  /\ requests' = requests + 1
  /\ pid' = [pid EXCEPT ![t] = p]
  /\ UNCHANGED <<gDSLocalOnlyMode, alive>>

\* The next object, made by thread t with one reference of its own.
Make(t, p, k, where) ==
  \E o \in Object :
    /\ kind[o] = "unmade" /\ \A q \in 1..(o - 1) : kind[q] # "unmade"
    /\ kind' = [kind EXCEPT ![o] = k]
    /\ owner' = [owner EXCEPT ![o] = p]
    /\ path' = [path EXCEPT ![o] = where]
    /\ retain' = [retain EXCEPT ![o] = 1]
    /\ new' = [new EXCEPT ![t] = o]
    /\ Goto(t, "add")

-----------------------------------------------------------------------------
(***************************************************************************)
(* receive_session_create.                                                 *)
(***************************************************************************)
\* opendirectoryd names a path exactly when it uses the local-only daemon.
\* With a path, under the session queue: another path is refused; else the
\* path is taken, and ODSessionCreate succeeds or fails.
AcceptPath_Any(p) == TRUE
AcceptPath(p) == localonlyPath \in {NoPath, p}

CreateLocalSession(t, p, where) ==
  /\ gDSLocalOnlyMode
  /\ Receive(t, p)
  /\ sessionQueue = Free
  /\ IF AcceptPath(where)
       THEN /\ localonlyPath' = IF localonlyPath = NoPath THEN where
                                                          ELSE localonlyPath
            /\ \/ /\ Make(t, p, "session", where)
                  /\ localOnlyCount' = localOnlyCount + 1
               \/ UNCHANGED <<localOnlyCount, objects, new, pc>>
       ELSE UNCHANGED <<localonlyPath, localOnlyCount, objects, new, pc>>
  /\ UNCHANGED <<tree, sessionQueue, known, object>>

\* Without one (proxy request).
CreateProxySession(t, p) ==
  /\ ~gDSLocalOnlyMode
  /\ Receive(t, p)
  /\ Make(t, p, "session", NoPath)
  /\ UNCHANGED <<tree, local, known, object>>

\* _add_od_ref: the tree takes over the reference of the maker.
Add(t) ==
  /\ pc[t] = "add" /\ deletes = << >>
  /\ passthru_rbt' = passthru_rbt \cup {new[t]}
  /\ Goto(t, "answer")
  /\ UNCHANGED <<gDSLocalOnlyMode, deletes, local, objects, known, pid, object,
                 new, world>>

\* The uuid is read from the struct and sent; when a deletion has freed the
\* struct, the bytes are still the same or those of a struct in its place.
SentFor(o) == {o} \cup (IF o \in passthru_rbt THEN {} ELSE passthru_rbt)

Release(counts, o) == IF o = NULL THEN counts ELSE [counts EXCEPT ![o] = @ - 1]
Retained(counts, o) == IF o = NULL THEN counts ELSE [counts EXCEPT ![o] = @ + 1]

\* The handler is done with a session or a node; the object the request used
\* is released.
Answer(t) ==
  /\ pc[t] = "answer" /\ kind[new[t]] # "query"
  /\ \E o \in SentFor(new[t]) : answered' = answered \cup {o}
  /\ retain' = Release(retain, object[t])
  /\ object' = [object EXCEPT ![t] = NULL]
  /\ new' = [new EXCEPT ![t] = NULL]
  /\ Goto(t, "idle")
  /\ UNCHANGED <<gDSLocalOnlyMode, tree, local, kind, owner, path, running, misused,
                 pid, world>>

\* A query is given its request, port and uuid, and answered.  The handler holds
\* no reference: a deletion may have freed the query.  Then memory is undefined
\* from here on; the model follows the build in which the bytes still are the
\* query's, and misused says that nothing is claimed any more.
AnswerQuery(t) ==
  /\ pc[t] = "answer" /\ kind[new[t]] = "query"
  /\ misused' = (misused \/ retain[new[t]] = 0)
  /\ \E o \in SentFor(new[t]) : answered' = answered \cup {o}
  /\ Goto(t, "start")
  /\ UNCHANGED <<gDSLocalOnlyMode, tree, local, objects, running, pid, object, new,
                 world>>

\* Only now is it retained, for _QueryStart on a queue of its own.
StartQuery(t) ==
  /\ pc[t] = "start"
  /\ misused' = (misused \/ retain[new[t]] = 0)
  /\ running' = running \cup {new[t]}
  /\ retain' = Release(Retained(retain, new[t]), object[t])
  /\ object' = [object EXCEPT ![t] = NULL]
  /\ new' = [new EXCEPT ![t] = NULL]
  /\ Goto(t, "idle")
  /\ UNCHANGED <<gDSLocalOnlyMode, tree, local, kind, owner, path, answered, pid,
                 world>>

-----------------------------------------------------------------------------
(***************************************************************************)
(* receive_session_close, a block of the session queue in two steps.       *)
(***************************************************************************)
BeginClose(t, p, s) ==
  /\ s \in answered /\ kind[s] = "session"
  /\ Receive(t, p)
  /\ sessionQueue = Free
  /\ sessionQueue' = t
  /\ new' = [new EXCEPT ![t] = s]
  /\ Goto(t, "close")
  /\ UNCHANGED <<tree, localOnlyCount, localonlyPath, objects, known, object>>

\* _remove_identifier by a pid; 0 stands for any.
Removes(p, o) == o \in passthru_rbt /\ p \in {NULL, owner[o]}
RemoveIdentifier(p, o) ==
  IF Removes(p, o)
    THEN passthru_rbt' = passthru_rbt \ {o} /\ retain' = Release(retain, o)
    ELSE UNCHANGED <<passthru_rbt, retain>>

CloseRemoves_Always(t) ==
  /\ pc[t] = "close" /\ deletes = << >>
  /\ RemoveIdentifier(pid[t], new[t])
  /\ Goto(t, IF gDSLocalOnlyMode THEN "count" ELSE "closed")
  /\ UNCHANGED <<gDSLocalOnlyMode, deletes, local, kind, owner, path, known, pid,
                 object, new, world>>
CloseRemoves(t) ==
  /\ pc[t] = "close" /\ deletes = << >>
  /\ RemoveIdentifier(pid[t], new[t])
  /\ Goto(t, IF Removes(pid[t], new[t]) /\ gDSLocalOnlyMode THEN "count" ELSE "closed")
  /\ UNCHANGED <<gDSLocalOnlyMode, deletes, local, kind, owner, path, known, pid,
                 object, new, world>>

\* The last close forgets the path and submits the deletion of the rest.
CloseCounts(t) ==
  /\ pc[t] = "count"
  /\ localOnlyCount' = localOnlyCount - 1
  /\ IF localOnlyCount' = 0
       THEN deletes' = Append(deletes, pid[t]) /\ localonlyPath' = NoPath
       ELSE UNCHANGED <<deletes, localonlyPath>>
  /\ Goto(t, "closed")
  /\ UNCHANGED <<gDSLocalOnlyMode, passthru_rbt, sessionQueue, objects, known,
                 pid, object, new, world>>

CloseEnds(t) ==
  /\ pc[t] = "closed"
  /\ sessionQueue' = Free
  /\ new' = [new EXCEPT ![t] = NULL]
  /\ Goto(t, "idle")
  /\ UNCHANGED <<gDSLocalOnlyMode, tree, localOnlyCount, localonlyPath, objects,
                 known, pid, object,
                 world>>

-----------------------------------------------------------------------------
(***************************************************************************)
(* receive_session_process_request: the object is found and retained by    *)
(* _get_and_retain_od_ref, or the request fails.                           *)
(***************************************************************************)
Uses == {"open_node", "query", "release_node"}
NeedsKind(use) == IF use = "open_node" THEN "session" ELSE "node"

BeginRequest(t, p, o, use) ==
  /\ o \in answered /\ kind[o] = NeedsKind(use)
  /\ Receive(t, p)
  /\ deletes = << >>
  /\ IF o \in passthru_rbt /\ owner[o] = p
       THEN /\ retain' = Retained(retain, o)
            /\ object' = [object EXCEPT ![t] = o]
            /\ Goto(t, use)
       ELSE UNCHANGED <<retain, object, pc>>
  /\ UNCHANGED <<tree, local, kind, owner, path, known, new>>

\* _NodeCreateWithName_async and _QueryCreateWithNode_async, when the library
\* makes the object ...
OpenNode(t) ==
  /\ pc[t] = "open_node"
  /\ Make(t, pid[t], "node", NoPath)
  /\ UNCHANGED <<gDSLocalOnlyMode, tree, local, known, pid, object, world>>

CreateQuery(t) ==
  /\ pc[t] = "query"
  /\ Make(t, pid[t], "query", NoPath)
  /\ UNCHANGED <<gDSLocalOnlyMode, tree, local, known, pid, object, world>>

\* ... or does not; and the end of every other request.
EndRequest(t) ==
  /\ pc[t] \in {"open_node", "query", "end"}
  /\ retain' = Release(retain, object[t])
  /\ object' = [object EXCEPT ![t] = NULL]
  /\ Goto(t, "idle")
  /\ UNCHANGED <<gDSLocalOnlyMode, tree, local, kind, owner, path, known, pid,
                 new, world>>

\* ODNodeRelease.
ReleaseNode(t) ==
  /\ pc[t] = "release_node" /\ deletes = << >>
  /\ RemoveIdentifier(pid[t], object[t])
  /\ Goto(t, "end")
  /\ UNCHANGED <<gDSLocalOnlyMode, deletes, local, kind, owner, path, known, pid,
                 object, new, world>>

\* The end of _QueryStart: the uuid is removed for any pid and the query
\* released.  When the struct is gone, the bytes are those of no object or of
\* any whose struct took its place.
EndQuery(q) ==
  /\ q \in running /\ deletes = << >>
  /\ running' = running \ {q}
  /\ \/ /\ q \in passthru_rbt
        /\ passthru_rbt' = passthru_rbt \ {q}
        /\ retain' = [retain EXCEPT ![q] = @ - 2]
     \/ /\ q \notin passthru_rbt
        /\ \/ retain' = Release(retain, q) /\ UNCHANGED passthru_rbt
           \/ \E o \in passthru_rbt :
                /\ passthru_rbt' = passthru_rbt \ {o}
                /\ retain' = Release(Release(retain, q), o)
  /\ UNCHANGED <<gDSLocalOnlyMode, deletes, local, kind, owner, path, answered,
                 misused, pc, pid, object, new, world>>

-----------------------------------------------------------------------------
\* The exit of a process reaches its dispatch source.
PidDies(p) ==
  /\ p \in alive
  /\ Cardinality(Pids \ alive) < MaxDeaths
  /\ alive' = alive \ {p}
  /\ deletes' = Append(deletes, p)
  /\ UNCHANGED <<gDSLocalOnlyMode, passthru_rbt, local, objects, known, pc, pid,
                 object, new, requests>>

\* The block of _delete_refs_for_pid: every object, whatever the pid.
RunDelete_StructsOnly ==
  /\ deletes # << >>
  /\ deletes' = Tail(deletes)
  /\ passthru_rbt' = {}
  /\ UNCHANGED <<gDSLocalOnlyMode, local, objects, known, pc, pid, object, new,
                 world>>
RunDelete ==
  /\ deletes # << >>
  /\ deletes' = Tail(deletes)
  /\ passthru_rbt' = {}
  /\ retain' = [o \in Object |-> IF o \in passthru_rbt THEN retain[o] - 1 ELSE retain[o]]
  /\ UNCHANGED <<gDSLocalOnlyMode, local, kind, owner, path, known, pc, pid,
                 object, new, world>>

Handler(t) ==
  \/ Add(t) \/ Answer(t) \/ AnswerQuery(t) \/ StartQuery(t)
  \/ CloseRemoves(t) \/ CloseCounts(t) \/ CloseEnds(t)
  \/ OpenNode(t) \/ CreateQuery(t) \/ ReleaseNode(t) \/ EndRequest(t)

\* The daemon waits for messages.
Rest ==
  /\ deletes = << >> /\ \A t \in Threads : pc[t] = "idle"
  /\ UNCHANGED vars

Next ==
  \/ \E t \in Threads :
       \/ Handler(t)
       \/ \E p \in Pids :
            \/ CreateProxySession(t, p)
            \/ \E where \in LocalPaths : CreateLocalSession(t, p, where)
            \/ \E o \in answered : \/ BeginClose(t, p, o)
                                   \/ \E use \in Uses : BeginRequest(t, p, o, use)
  \/ \E q \in running : EndQuery(q)
  \/ \E p \in Pids : PidDies(p)
  \/ RunDelete
  \/ Rest

Spec == Init /\ [][Next]_vars

-----------------------------------------------------------------------------
TypeOK ==
  /\ gDSLocalOnlyMode \in Modes
  /\ passthru_rbt \subseteq Object
  /\ deletes \in Seq(Pids)
  /\ sessionQueue \in Threads \cup {Free}
  /\ localOnlyCount \in Int /\ localonlyPath \in LocalPaths \cup {NoPath}
  /\ kind \in [Object -> Kind \cup {"unmade"}]
  /\ owner \in [Object -> Pids \cup {NULL}]
  /\ path \in [Object -> LocalPaths \cup {NoPath}]
  /\ retain \in [Object -> Nat]
  /\ answered \subseteq Object /\ running \subseteq Object /\ misused \in BOOLEAN
  /\ pc \in [Threads -> {"idle", "add", "answer", "start", "close", "count", "closed",
                         "end"} \cup Uses]
  /\ pid \in [Threads -> Pids \cup {NULL}]
  /\ object \in [Threads -> Object \cup {NULL}]
  /\ new \in [Threads -> Object \cup {NULL}]
  /\ alive \subseteq Pids /\ requests \in 0..MaxRequests

\* A handler uses the query it made until it has started it ...
Starting(o) ==
  \E t \in Threads : pc[t] \in {"add", "answer", "start"} /\ new[t] = o /\ kind[o] = "query"

\* ... though once the query is in the tree the only reference is the tree's, and
\* a deletion that crosses (an exit, or the last close) frees it.
Overtaken(o) ==
  /\ o \notin passthru_rbt
  /\ \E t \in Threads : pc[t] \in {"answer", "start"} /\ new[t] = o /\ kind[o] = "query"

Claims(o) ==
  (IF o \in passthru_rbt THEN 1 ELSE 0)
  + (IF o \in running THEN 1 ELSE 0)
  + Cardinality({t \in Threads : pc[t] = "add" /\ new[t] = o})
  + Cardinality({t \in Threads : object[t] = o})

\* CoreFoundation's count of an object is one for the tree, one for a maker that
\* has not added it yet, one for each request that uses it and one for a running
\* query, and no object is freed while any of these, or the handler that starts a
\* query, uses it, though deletions, releases and the end of queries cross: except
\* a query that a deletion takes before its maker has retained it.  (Once such a
\* query is used nothing is claimed.)
RetainCountsExact ==
  ~misused =>
    \A o \in Object :
      /\ retain[o] = Claims(o)
      /\ Starting(o) /\ ~Overtaken(o) => retain[o] > 0

\* The local-only sessions a client can use, or is about to be told of, or whose
\* close is half-way.
Sessions == {o \in passthru_rbt : kind[o] = "session"}
Adding   == {t \in Threads : pc[t] = "add" /\ kind[new[t]] = "session"}
Closing  == {t \in Threads : pc[t] = "count"}

\* localOnlyCount counts exactly those, so the deletion that the last close
\* submits never takes a session of another client with it: not one being added,
\* not one opened meanwhile.  (Until a process dies or a query is made.)
CountIsSessions ==
  gDSLocalOnlyMode /\ alive = Pids /\ (\A o \in Object : kind[o] # "query") =>
    localOnlyCount
      = Cardinality(Sessions) + Cardinality(Adding) + Cardinality(Closing)

\* All local-only sessions that can be used are for the path that new ones are
\* compared with, through closes, reopenings and deaths of clients.
OneLocalPath ==
  \A o \in passthru_rbt : path[o] # NoPath => path[o] = localonlyPath

\* Server/od_passthru.cpp:1908 "create a source to cleanup all references tied to
\* the PID": the deletion for a process that exited spares those of others.
OthersKeepTheirs ==
  [][\A o \in passthru_rbt \ passthru_rbt' :
       deletes' = deletes \/ owner[o] = Head(deletes)]_vars
=============================================================================
