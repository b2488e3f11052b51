----------------------------- MODULE PluginTable -----------------------------
(***************************************************************************)
(* The table of plug-ins (Server/CPlugInList.cpp) and the loading of a     *)
(* plug-in by the first request that needs it.  Requests ask for a plug-in *)
(* by name or by key, or through a node of the node list, which keeps the  *)
(* pointer it is given.  Loading must not hold the lock of the table, so a *)
(* request copies the entry, loads the copy under the lock of the node     *)
(* list and merges the copy into the table; then it tells the plug-in and  *)
(* opendirectoryd the plug-in's state.                                     *)
(*                                                                         *)
(* A section under the table's lock is one step: what it calls takes no    *)
(* other lock a request can hold.  The lock of the node list is held       *)
(* across a load and is a variable.  The lock for lazy loading is always   *)
(* taken under it and needs none.                                          *)
(*                                                                         *)
(* Operators with a suffix (Attempted_No) are faulty variants of the       *)
(* operator that follows; only runs that confirm a property use them.      *)
(***************************************************************************)
EXTENDS Integers, FiniteSets

CONSTANTS
  Plugins,       \* in the table, all set to be loaded lazily
  Callers,       \* threads that serve requests
  Admin,         \* the thread that changes the configuration
  MaxAttempts,   \* uiAttempts: 100
  MaxLazy,       \* gMaxLazyLoaders: 20
  MaxCalls,      \* bound on the requests of a thread
  MaxChanges     \* bound on the changes of the configuration

NULL == "null"
States == {"active", "inactive"}
Vias == {"name", "key", "node"}

ASSUME PluginAssumption ==
  /\ MaxAttempts \in Nat \ {0} /\ MaxLazy \in Nat
  /\ MaxCalls \in Nat /\ MaxChanges \in Nat
  /\ Admin \notin Callers

VARIABLES
  fPluginPtr,    \* per plug-in: the instance the table has, or NULL
  fState,        \* per plug-in: "uninitialized", "failed" or a state
  instances,     \* per plug-in: instances created so far
  attempted,     \* gLazyLoadAttemptedList
  fPlugInPtr,    \* per plug-in: the pointer its node keeps, or NULL
  config,        \* per plug-in: GetPluginState of the configuration
  running,       \* per plug-in: the state it was last told
  enabled,       \* per plug-in: the state opendirectoryd was last told
  nodeLock,      \* holder of the node list's lock, or NULL
  pc, call,      \* per thread: next step and its request
  calls, changes,
  overtaken,     \* history: plug-ins with a request that was overtaken
  crossed        \* history: plug-ins configured while being loaded

table == <<fPluginPtr, fState, attempted, instances>>
told == <<running, enabled>>
conf == <<config, changes, crossed>>
vars == <<table, told, conf, fPlugInPtr, nodeLock, pc, call, calls, overtaken>>

NoCall == [plugin |-> NULL, via |-> NULL, ptr |-> NULL, state |-> NULL, tries |-> 0, new |-> NULL]

Init ==
  /\ fPluginPtr = [p \in Plugins |-> NULL]
  /\ fState = [p \in Plugins |-> "uninitialized"]
  /\ instances = [p \in Plugins |-> 0]
  /\ attempted = {}
  /\ fPlugInPtr = [p \in Plugins |-> NULL]
  /\ config \in [Plugins -> States]
  /\ running = [p \in Plugins |-> NULL]
  /\ enabled = config
  /\ nodeLock = NULL
  /\ pc = [t \in Callers \cup {Admin} |-> "idle"]
  /\ call = [t \in Callers \cup {Admin} |-> NoCall]
  /\ calls = [t \in Callers |-> 0]
  /\ changes = 0
  /\ overtaken = {} /\ crossed = {}

Goto(t, where) == pc' = [pc EXCEPT ![t] = where]
Done(t) == Goto(t, "idle") /\ call' = [call EXCEPT ![t] = NoCall]
Loading(p) == \E t \in Callers : pc[t] # "idle" /\ call[t].plugin = p

-----------------------------------------------------------------------------
\* A request for plug-in p.  One that comes through a node holds the lock of
\* the node list until it has its answer, and goes to the table only when
\* the node has no pointer.
Begin(t, p, via) ==
  /\ pc[t] = "idle" /\ calls[t] < MaxCalls
  /\ via = "node" => nodeLock = NULL /\ fPlugInPtr[p] = NULL
  /\ nodeLock' = IF via = "node" THEN t ELSE nodeLock
  /\ call' = [call EXCEPT ![t] = [NoCall EXCEPT !.plugin = p, !.via = via]]
  /\ calls' = [calls EXCEPT ![t] = @ + 1]
  /\ crossed' = IF pc[Admin] # "idle" /\ call[Admin].plugin = p THEN crossed \cup {p} ELSE crossed
  /\ Goto(t, "look_up")
  /\ UNCHANGED <<table, told, config, changes, fPlugInPtr, overtaken>>

\* The end of a request: the node keeps the pointer and the lock is given up.
Answer(t, ptr) ==
  LET c == call[t]
  IN /\ fPlugInPtr' = IF c.via = "node" THEN [fPlugInPtr EXCEPT ![c.plugin] = ptr] ELSE fPlugInPtr
     /\ nodeLock' = IF c.via = "node" THEN NULL ELSE nodeLock
     /\ Done(t)

\* A request by key, as one through a node is, loads only an active plug-in.
Wanted(t) == call[t].via = "name" \/ config[call[t].plugin] = "active"

LookUp(t) ==
  LET p == call[t].plugin
  IN /\ pc[t] = "look_up"
     /\ IF fPluginPtr[p] = NULL /\ Wanted(t)
          THEN /\ call' = [call EXCEPT ![t].state = fState[p]]
               /\ Goto(t, "lock")
               /\ UNCHANGED <<fPlugInPtr, nodeLock>>
          ELSE Answer(t, fPluginPtr[p])
     /\ UNCHANGED <<table, told, conf, calls, overtaken>>

\* The lock is recursive: a request through a node has it.
LockNodeList(t) ==
  /\ pc[t] = "lock"
  /\ nodeLock \in {NULL, t}
  /\ nodeLock' = t
  /\ Goto(t, "load")
  /\ UNCHANGED <<table, told, conf, fPlugInPtr, call, calls, overtaken>>

\* What becomes of the lock when a load is over.
Unlocked_Never(t) == t

Unlocked(t) == IF call[t].via = "node" THEN t ELSE NULL

\* Was a load of p attempted?  The list has room for MaxLazy names.
Attempted_No(p) == FALSE

Attempted(p) == p \in attempted

\* LoadPlugin: the second request for a plug-in does not load it.
Load(t) ==
  LET p == call[t].plugin
  IN /\ pc[t] = "load"
     /\ IF Attempted(p)
          THEN /\ nodeLock' = Unlocked(t)
               /\ Goto(t, "merge")
               /\ UNCHANGED <<attempted, instances, call>>
          ELSE /\ attempted' = IF Cardinality(attempted) < MaxLazy THEN attempted \cup {p} ELSE attempted
               /\ \/ /\ instances' = [instances EXCEPT ![p] = @ + 1]
                     /\ call' = [call EXCEPT ![t].ptr = "instance"]
                     /\ Goto(t, "initialize")
                     /\ UNCHANGED nodeLock
                  \/ /\ nodeLock' = Unlocked(t)     \* the constructor throws
                     /\ Goto(t, "merge")
                     /\ UNCHANGED <<instances, call>>
     /\ UNCHANGED <<fPluginPtr, fState, told, conf, fPlugInPtr, calls, overtaken>>

\* One attempt to initialize the plug-in.
Initialize(t, ok) ==
  LET last == call[t].tries + 1 = MaxAttempts
  IN /\ pc[t] = "initialize"
     /\ IF ok \/ last
          THEN /\ call' = [call EXCEPT ![t].state = IF ok THEN "inactive" ELSE "failed"]
               /\ nodeLock' = Unlocked(t)
               /\ Goto(t, "merge")
          ELSE /\ call' = [call EXCEPT ![t].tries = @ + 1]
               /\ UNCHANGED <<nodeLock, pc>>
     /\ UNCHANGED <<table, told, conf, fPlugInPtr, calls, overtaken>>

\* A request finds, when it has the table again, that it is to merge its copy.

Merges(t) == fPluginPtr[call[t].plugin] = NULL /\ Wanted(t)

\* What the plug-in is told: kUnknownState if another request merged first.
NewState_Inactive(t) == IF Merges(t) THEN "inactive" ELSE "unknown"

NewState(t) == IF Merges(t) THEN config[call[t].plugin] ELSE "unknown"

\* The copy is merged into the table if the table still has no instance; the
\* state of a loaded plug-in is the configured one, whatever became of its
\* initialization.
Merge(t) ==
  LET c == call[t]  p == c.plugin
      result == IF Merges(t) THEN c.ptr ELSE fPluginPtr[p]
  IN /\ pc[t] = "merge"
     /\ fPluginPtr' = IF Merges(t) THEN [fPluginPtr EXCEPT ![p] = c.ptr] ELSE fPluginPtr
     /\ fState' = IF Merges(t) THEN [fState EXCEPT ![p] = IF c.ptr # NULL THEN config[p] ELSE c.state]
                               ELSE fState
     /\ overtaken' = IF c.ptr = NULL /\ instances[p] > 0 THEN overtaken \cup {p} ELSE overtaken
     /\ IF result # NULL
          THEN /\ call' = [call EXCEPT ![t].new = NewState(t)]
               /\ Goto(t, "tell_plugin")
               /\ UNCHANGED <<fPlugInPtr, nodeLock>>
          ELSE Answer(t, NULL)
     /\ UNCHANGED <<attempted, instances, told, conf, calls>>

\* SetPluginState: a plug-in ignores kUnknownState, opendirectoryd is told
\* that a plug-in whose state is not kActive is disabled.
TellPlugin(t) ==
  LET c == call[t]
  IN /\ pc[t] = "tell_plugin"
     /\ running' = IF c.new \in States THEN [running EXCEPT ![c.plugin] = c.new] ELSE running
     /\ Goto(t, "tell_daemon")
     /\ UNCHANGED <<table, conf, enabled, fPlugInPtr, nodeLock, call, calls, overtaken>>

TellDaemon(t) ==
  LET c == call[t]
  IN /\ pc[t] = "tell_daemon"
     /\ enabled' = [enabled EXCEPT ![c.plugin] = IF c.new = "active" THEN "active" ELSE "inactive"]
     /\ Answer(t, fPluginPtr[c.plugin])
     /\ UNCHANGED <<table, conf, running, calls, overtaken>>

-----------------------------------------------------------------------------
\* CPluginConfig::SetPluginState: it tells a loaded plug-in, then
\* opendirectoryd, then changes the configuration.
Configure(p, s) ==
  /\ pc[Admin] = "idle" /\ changes < MaxChanges
  /\ changes' = changes + 1
  /\ crossed' = IF Loading(p) THEN crossed \cup {p} ELSE crossed
  /\ call' = [call EXCEPT ![Admin] = [NoCall EXCEPT !.plugin = p, !.ptr = fPluginPtr[p], !.new = s]]
  /\ Goto(Admin, "tell_plugin")
  /\ UNCHANGED <<table, told, config, fPlugInPtr, nodeLock, calls, overtaken>>

ConfigureTells ==
  LET c == call[Admin]
  IN /\ pc[Admin] = "tell_plugin"
     /\ running' = IF c.ptr # NULL THEN [running EXCEPT ![c.plugin] = c.new] ELSE running
     /\ Goto(Admin, "tell_daemon")
     /\ UNCHANGED <<table, conf, enabled, fPlugInPtr, nodeLock, call, calls, overtaken>>

ConfigureSets ==
  LET c == call[Admin]
  IN /\ pc[Admin] = "tell_daemon"
     /\ enabled' = [enabled EXCEPT ![c.plugin] = c.new]
     /\ config' = [config EXCEPT ![c.plugin] = c.new]
     /\ Done(Admin)
     /\ UNCHANGED <<table, running, changes, crossed, fPlugInPtr, nodeLock, calls, overtaken>>

Request(t) ==
  \/ LookUp(t) \/ LockNodeList(t) \/ Load(t) \/ Merge(t) \/ TellPlugin(t) \/ TellDaemon(t)
  \/ \E ok \in BOOLEAN : Initialize(t, ok)

Next ==
  \/ \E t \in Callers :
       \/ Request(t)
       \/ \E p \in Plugins, via \in Vias : Begin(t, p, via)
  \/ \E p \in Plugins, s \in States : Configure(p, s)
  \/ ConfigureTells \/ ConfigureSets

\* A thread that can take a step of its request takes one; the lock is free
\* to be taken again and again, but each thread makes finitely many requests.
Fairness == \A t \in Callers : WF_vars(Request(t))

Spec == Init /\ [][Next]_vars
FairSpec == Spec /\ Fairness

-----------------------------------------------------------------------------
TypeOK ==
  /\ fPluginPtr \in [Plugins -> {NULL, "instance"}]
  /\ fState \in [Plugins -> States \cup {"uninitialized", "failed"}]
  /\ attempted \subseteq Plugins
  /\ nodeLock \in Callers \cup {NULL}

\* However many requests race for a plug-in, it is created once, and is not
\* lost: it is in the table, or the request that created it is on its way to
\* put it there (or found, on its way, that the plug-in had been configured
\* inactive).  It is created once because the list of attempts has room for
\* every plug-in: with more plug-ins than gMaxLazyLoaders it is not.
OneInstanceEach ==
  \A p \in Plugins :
    /\ instances[p] <= 1
    /\ instances[p] > 0 => \/ fPluginPtr[p] # NULL
                           \/ p \in crossed
                           \/ \E t \in Callers : call[t].plugin = p /\ call[t].ptr # NULL

\* When no request for a loaded plug-in is under way, the plug-in,
\* opendirectoryd and the configuration agree on its state, unless a request
\* was overtaken by the one that loaded it (it says kUnknownState) or the
\* configuration changed while the plug-in was being loaded.
StateAgreed ==
  \A p \in Plugins \ (overtaken \cup crossed) :
    /\ fPluginPtr[p] # NULL
    /\ \A t \in Callers \cup {Admin} : call[t].plugin # p
    => running[p] = config[p] /\ enabled[p] = config[p]

\* Every request is answered: no two requests wait for each other's lock.
Answered == \A t \in Callers : pc[t] # "idle" ~> pc[t] = "idle"
=============================================================================
