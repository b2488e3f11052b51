---------------------------- MODULE LocalSessions ----------------------------
(***************************************************************************)
(* Sessions of the local-only daemon.  In this mode the daemon serves one  *)
(* local database, whose path the first opener chooses; the path, the      *)
(* number of sessions and a lock are globals shared by the request handler *)
(* (Server/CHandlers.cpp), the reference table, which counts down, and the *)
(* timer that stops an unused daemon (Server/od_passthru.cpp).             *)
(*                                                                         *)
(* The handler runs in one thread for each session port; it reads the path *)
(* and the count without the lock, so each of its accesses is a step.      *)
(* A timer handler runs ten seconds after it is set and in no time: it is  *)
(* one step.                                                               *)
(*                                                                         *)
(* Operators with a suffix (RunRemoval_NoTimer) are faulty variants of the *)
(* operator that follows; only runs that confirm a property use them.      *)
(***************************************************************************)
EXTENDS Integers, FiniteSets

CONSTANTS
  Threads,      \* one for each session port
  Paths,        \* paths clients ask for, all absolute (see README)
  Missing,      \* the paths lstat fails on
  CountSpace,   \* 2^32: gLocalSessionCount is a UInt32
  MaxOpens,     \* bound on the number of opens
  MaxPlain,     \* bound on the daemon's own dsOpenDirService calls
  MaxExits      \* bound on the exits of client processes

ASSUME LocalAssumption ==
  /\ Missing \subseteq Paths
  /\ CountSpace \in Nat \ {0}
  /\ MaxOpens \in Nat /\ MaxPlain \in Nat /\ MaxExits \in Nat

NULL == "null"
ASSUME NullAssumption == NULL \notin Paths

VARIABLES
  gDSLocalFilePath, gLocalSessionCount, gLocalSessionLock,
  timers,       \* timers set and not yet fired
  stopped,      \* CFRunLoopStop has been called
  pc, want,     \* per thread: where the handler is and the path it was given
  sessions,     \* answered opens: session -> the path its client asked for
  plain,        \* directory references the daemon opened for itself
  removing,     \* removals of directory references queued in the table
  opens, plains, exits  \* so far, for the bounds

lock == <<gLocalSessionLock, timers, stopped, exits>>
refs == <<sessions, plain, removing, plains>>
vars == <<gDSLocalFilePath, gLocalSessionCount, lock, pc, want, refs, opens>>

Init ==
  /\ gDSLocalFilePath = NULL
  /\ gLocalSessionCount = 0
  /\ gLocalSessionLock = "free"
  /\ timers = 0
  /\ stopped = FALSE
  /\ pc = [t \in Threads |-> "idle"]
  /\ want = [t \in Threads |-> NULL]
  /\ sessions = << >>
  /\ plain = 0
  /\ removing = 0
  /\ opens = 0
  /\ plains = 0
  /\ exits = 0

Goto(t, where) == pc' = [pc EXCEPT ![t] = where]

-----------------------------------------------------------------------------
\* kOpenDirServiceLocal.
Open(t, p) ==
  /\ pc[t] = "idle" /\ opens < MaxOpens
  /\ opens' = opens + 1
  /\ want' = [want EXCEPT ![t] = p]
  /\ Goto(t, "read path")
  /\ UNCHANGED <<gDSLocalFilePath, gLocalSessionCount, lock, refs>>

ReadPath(t) ==
  /\ pc[t] = "read path"
  /\ Goto(t, IF gDSLocalFilePath = NULL THEN "set path" ELSE "read count")
  /\ UNCHANGED <<gDSLocalFilePath, gLocalSessionCount, lock, want, refs, opens>>

ReadCount(t) ==
  /\ pc[t] = "read count"
  /\ Goto(t, IF gLocalSessionCount = 0 THEN "free path" ELSE "compare")
  /\ UNCHANGED <<gDSLocalFilePath, gLocalSessionCount, lock, want, refs, opens>>

FreePath(t) ==
  /\ pc[t] = "free path"
  /\ gDSLocalFilePath' = NULL
  /\ Goto(t, "set path")
  /\ UNCHANGED <<gLocalSessionCount, lock, want, refs, opens>>

SetPath(t) ==
  /\ pc[t] = "set path"
  /\ gDSLocalFilePath' = want[t]
  /\ Goto(t, "stat")
  /\ UNCHANGED <<gLocalSessionCount, lock, want, refs, opens>>

\* A path freed by another handler meanwhile compares as anything.
Compare(t) ==
  /\ pc[t] = "compare"
  /\ \/ gDSLocalFilePath \in {want[t], NULL} /\ Goto(t, "stat")
     \/ gDSLocalFilePath # want[t] /\ Goto(t, "idle")    \* eDSCannotAccessSession
  /\ UNCHANGED <<gDSLocalFilePath, gLocalSessionCount, lock, want, refs, opens>>

\* lstat reads whatever path is set by now; on failure the path is forgotten.
Stat(t) ==
  /\ pc[t] = "stat"
  /\ IF gDSLocalFilePath \in Missing \cup {NULL}
       THEN gDSLocalFilePath' = NULL /\ Goto(t, "idle")  \* eDSInvalidFilePath
       ELSE UNCHANGED gDSLocalFilePath /\ Goto(t, "create")
  /\ UNCHANGED <<gLocalSessionCount, lock, want, refs, opens>>

Create_CountsFailure(t) ==
  /\ pc[t] = "create"
  /\ \/ Goto(t, "lock") /\ UNCHANGED gLocalSessionCount
     \/ Goto(t, "idle") /\ gLocalSessionCount' = (gLocalSessionCount + 1) % CountSpace
  /\ UNCHANGED <<gDSLocalFilePath, lock, want, refs, opens>>
\* CreateReference succeeds, or the table is full.
Create(t) ==
  /\ pc[t] = "create"
  /\ Goto(t, "lock") \/ Goto(t, "idle")
  /\ UNCHANGED <<gDSLocalFilePath, gLocalSessionCount, lock, want, refs, opens>>

Lock(t) ==
  /\ pc[t] = "lock"
  /\ gLocalSessionLock = "free"
  /\ gLocalSessionLock' = "handler"
  /\ Goto(t, "increment")
  /\ UNCHANGED <<gDSLocalFilePath, gLocalSessionCount, timers, stopped, exits, want,
                 refs, opens>>

\* The count goes up, the lock is released and the client gets its answer.
Increment(t) ==
  /\ pc[t] = "increment"
  /\ gLocalSessionCount' = (gLocalSessionCount + 1) % CountSpace
  /\ gLocalSessionLock' = "free"
  /\ \E s \in 1..MaxOpens :
       /\ s \notin DOMAIN sessions
       /\ \A r \in 1..MaxOpens : r \notin DOMAIN sessions => s <= r
       /\ sessions' = [r \in DOMAIN sessions \cup {s} |->
                         IF r = s THEN want[t] ELSE sessions[r]]
  /\ Goto(t, "idle")
  /\ UNCHANGED <<gDSLocalFilePath, timers, stopped, exits, want, plain, removing,
                 plains, opens>>

-----------------------------------------------------------------------------
\* A client closes a session, or its port is cleaned: the table queues the
\* removal of the directory reference.
Close(s) ==
  /\ s \in DOMAIN sessions
  /\ sessions' = [r \in DOMAIN sessions \ {s} |-> sessions[r]]
  /\ removing' = removing + 1
  /\ UNCHANGED <<gDSLocalFilePath, gLocalSessionCount, lock, pc, want, plain,
                 plains, opens>>

\* Daemon code opens the directory for itself (kOpenDirService): no count ...
OpenPlain ==
  /\ plains < MaxPlain
  /\ plains' = plains + 1
  /\ plain' = plain + 1
  /\ UNCHANGED <<gDSLocalFilePath, gLocalSessionCount, lock, pc, want, sessions,
                 removing, opens>>

\* ... and closes it: the same removal as that of a session.
ClosePlain ==
  /\ plain > 0
  /\ plain' = plain - 1
  /\ removing' = removing + 1
  /\ UNCHANGED <<gDSLocalFilePath, gLocalSessionCount, lock, pc, want, sessions,
                 plains, opens>>

RunRemoval_NoTimer ==
  /\ removing > 0
  /\ removing' = removing - 1
  /\ gLocalSessionCount' = (gLocalSessionCount - 1) % CountSpace
  /\ UNCHANGED <<gDSLocalFilePath, lock, pc, want, sessions, plain, plains, opens>>
\* The static RemoveReference of a directory reference.
RunRemoval ==
  /\ removing > 0
  /\ removing' = removing - 1
  /\ gLocalSessionCount' = (gLocalSessionCount - 1) % CountSpace
  /\ timers' = IF gLocalSessionCount' = 0 THEN timers + 1 ELSE timers
  /\ UNCHANGED <<gDSLocalFilePath, gLocalSessionLock, stopped, exits, pc, want,
                 sessions, plain, plains, opens>>

\* A process that got a session port exits or execs: a timer is set whatever
\* the count is.  (What it had open is closed by the no-senders message.)
ProcessGone ==
  /\ opens > 0 /\ exits < MaxExits
  /\ exits' = exits + 1
  /\ timers' = timers + 1
  /\ UNCHANGED <<gDSLocalFilePath, gLocalSessionCount, gLocalSessionLock, stopped,
                 pc, want, refs, opens>>

\* The handler of the timer: without the lock it does nothing; when it stops
\* the daemon it keeps the lock.
TimerFires_NoLock ==
  /\ timers > 0
  /\ timers' = timers - 1
  /\ stopped' = (gLocalSessionCount = 0)
  /\ UNCHANGED <<gDSLocalFilePath, gLocalSessionCount, gLocalSessionLock, exits, pc,
                 want, refs, opens>>
TimerFires ==
  /\ timers > 0
  /\ timers' = timers - 1
  /\ IF gLocalSessionLock = "free" /\ gLocalSessionCount = 0
       THEN stopped' = TRUE /\ gLocalSessionLock' = "exit"
       ELSE UNCHANGED <<stopped, gLocalSessionLock>>
  /\ UNCHANGED <<gDSLocalFilePath, gLocalSessionCount, exits, pc, want, refs, opens>>

Handler(t) ==
  \/ ReadPath(t) \/ ReadCount(t) \/ FreePath(t) \/ SetPath(t) \/ Compare(t)
  \/ Stat(t) \/ Create(t) \/ Lock(t) \/ Increment(t)

\* The daemon waits for messages, or has stopped: then it may well be with a
\* handler that waits for the lock.
Rest ==
  /\ stopped \/ (removing = 0 /\ timers = 0 /\ \A t \in Threads : pc[t] = "idle")
  /\ UNCHANGED vars

Next ==
  \/ \E t \in Threads : Handler(t) \/ \E p \in Paths : Open(t, p)
  \/ \E s \in DOMAIN sessions : Close(s)
  \/ OpenPlain \/ ClosePlain
  \/ RunRemoval \/ ProcessGone \/ TimerFires \/ Rest

Spec == Init /\ [][Next]_vars

\* Queued removals run, timers fire and handlers go on; clients are free.
Fairness ==
  /\ WF_vars(RunRemoval) /\ WF_vars(TimerFires)
  /\ \A t \in Threads : WF_vars(Handler(t))
FairSpec == Spec /\ Fairness

-----------------------------------------------------------------------------
CountersOK ==
  /\ gLocalSessionCount \in 0..(CountSpace - 1)
  /\ timers \in Nat /\ plain \in 0..plains /\ removing \in Nat
  /\ opens \in 0..MaxOpens /\ plains \in 0..MaxPlain /\ exits \in 0..MaxExits

HandlersOK ==
  /\ gDSLocalFilePath \in Paths \cup {NULL}
  /\ gLocalSessionLock \in {"free", "handler", "exit"}
  /\ pc \in [Threads -> {"idle", "read path", "read count", "free path",
                         "set path", "compare", "stat", "create", "lock",
                         "increment"}]
  /\ want \in [Threads -> Paths \cup {NULL}]

SessionsOK ==
  /\ DOMAIN sessions \subseteq 1..MaxOpens
  /\ \A s \in DOMAIN sessions : sessions[s] \in Paths

TypeOK == CountersOK /\ HandlersOK /\ SessionsOK /\ stopped \in BOOLEAN

\* Handlers, which count up under the lock, and the removals of the table's
\* queue, which count down without it, keep the number of the sessions that were
\* answered and are not yet removed, whatever their order - less one for each
\* reference of the daemon's own that was closed, since nothing counted it up.
CountIsExact ==
  gLocalSessionCount
    = (Cardinality(DOMAIN sessions) + removing + plain - plains) % CountSpace

\* The daemon does not stop under a client: no session is ever answered by a
\* daemon that has decided to exit, and it decides so only when none is left.
\* (Until the daemon opens a reference of its own, which makes the count wrong.)
NeverStopsUnderAClient == stopped /\ plains = 0 => DOMAIN sessions = {}

\* APIFramework/DirServices.cpp:540-542 "first call wins, all the rest of use
\* the first caller's path once all are closed, then a new path can be
\* targetted.  You can't target 2 other local DBs at the same time": sessions
\* that are open together asked for the same path.
OneTargetAtATime ==
  \A r, s \in DOMAIN sessions : sessions[r] = sessions[s]

\* After the last session is closed the daemon exits, unless it is used again.
\* (Also until the daemon opens a reference of its own.)
Unused == DOMAIN sessions = {} /\ \A t \in Threads : pc[t] = "idle"
UnusedDaemonExits == (removing > 0) ~> (stopped \/ ~Unused \/ plains > 0)
=============================================================================
