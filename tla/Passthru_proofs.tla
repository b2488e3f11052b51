-------------------------- MODULE Passthru_proofs --------------------------
(* Proofs about the pass-through, for any number of threads, processes,    *)
(* paths and objects: its local-only sessions are for one path, every      *)
(* reference count is exact, and the count of sessions is.                 *)
EXTENDS Passthru, FiniteSetTheorems, TLAPS

USE PassthruAssumption DEF tree, local, objects, known, world, Goto

-----------------------------------------------------------------------------
\* The part of the state the path depends on is well formed.

Where == {"idle", "add", "answer", "start", "close", "count", "closed", "end"} \cup Uses

Shape ==
  /\ passthru_rbt \subseteq Object /\ answered \subseteq Object
  /\ localOnlyCount \in Int
  /\ kind \in [Object -> Kind \cup {"unmade"}]
  /\ path \in [Object -> LocalPaths \cup {NoPath}]
  /\ pc \in [Threads -> Where]
  /\ new \in [Threads -> Object \cup {NULL}]
  /\ \A t \in Threads : pc[t] \in {"add", "answer", "start"} => new[t] \in Object

\* An object that is being added is its maker's alone; one that is not made is
\* nowhere.
Makers ==
  /\ \A t, u \in Threads :
       pc[t] = "add" /\ pc[u] = "add" /\ new[t] = new[u] => t = u
  /\ \A t \in Threads :
       pc[t] = "add" => new[t] \notin passthru_rbt /\ kind[new[t]] # "unmade"
  /\ \A o \in Object : kind[o] = "unmade" => o \notin passthru_rbt /\ path[o] = NoPath

\* The local-only daemon's sessions have a path, another's objects have none.
Pathed ==
  /\ gDSLocalOnlyMode => \A o \in Object : kind[o] = "session" => path[o] # NoPath
  /\ ~gDSLocalOnlyMode => \A o \in Object : path[o] = NoPath
  /\ \A t \in Threads : pc[t] = "close" => new[t] \in Object /\ kind[new[t]] = "session"

InUse == {o \in passthru_rbt : path[o] # NoPath}
Coming == {t \in Threads : pc[t] = "add" /\ path[new[t]] # NoPath}
Leaving == {t \in Threads : pc[t] = "count"}

\* The count is at least that of the sessions in use, coming and half closed
\* (and more than that once a process died, whose sessions nobody counts down).
Counted ==
  Cardinality(InUse) + Cardinality(Coming) + Cardinality(Leaving) <= localOnlyCount

OnePath == OneLocalPath /\ \A t \in Coming : path[new[t]] = localonlyPath

Inv == Shape /\ Makers /\ Pathed /\ Counted /\ OnePath

LEMMA SetsFinite ==
  ASSUME Shape, IsFiniteSet(Threads)
  PROVE  /\ IsFiniteSet(InUse) /\ Cardinality(InUse) \in Nat
         /\ IsFiniteSet(Coming) /\ Cardinality(Coming) \in Nat
         /\ IsFiniteSet(Leaving) /\ Cardinality(Leaving) \in Nat
  <1>1. IsFiniteSet(Object)
    BY FS_Interval DEF Object
  <1>2. InUse \in SUBSET Object /\ Coming \in SUBSET Threads /\ Leaving \in SUBSET Threads
    BY DEF Shape, InUse, Coming, Leaving
  <1>3. QED
    BY <1>1, <1>2, FS_Subset, FS_CardinalityType

LEMMA InitInv == Init => Inv
  <1> SUFFICES ASSUME Init PROVE Inv
    OBVIOUS
  <1>1. Shape
    BY DEF Init, Shape, Where
  <1>2. Makers /\ Pathed
    BY DEF Init, Makers, Pathed, Kind
  <1>3. InUse = {} /\ Coming = {} /\ Leaving = {}
    BY DEF Init, InUse, Coming, Leaving
  <1>4. Counted
    BY <1>3, FS_EmptySet DEF Init, Counted
  <1>5. OnePath
    BY <1>3 DEF Init, OnePath, OneLocalPath
  <1>6. QED
    BY <1>1, <1>2, <1>4, <1>5 DEF Inv

-----------------------------------------------------------------------------
\* A step that makes nothing, counts nothing, adds nothing to the tree and
\* brings no thread to an addition or a count.
Quiet ==
  /\ passthru_rbt' \subseteq passthru_rbt
  /\ UNCHANGED <<gDSLocalOnlyMode, localOnlyCount, localonlyPath, kind, path>>
  /\ \A t \in Threads :
       pc'[t] \in {"add", "count", "close"} => pc'[t] = pc[t] /\ new'[t] = new[t]

LEMMA QuietStep ==
  ASSUME Inv, Shape', IsFiniteSet(Threads), Quiet
  PROVE  Inv'
  <1>1. Makers'
    BY DEF Inv, Makers, Quiet, Shape
  <1>2. Pathed'
    BY DEF Inv, Pathed, Quiet
  <1>3. InUse' \in SUBSET InUse /\ Coming' \in SUBSET Coming /\ Leaving' \in SUBSET Leaving
    BY DEF Quiet, InUse, Coming, Leaving
  <1>4. /\ Cardinality(InUse') <= Cardinality(InUse) /\ Cardinality(InUse') \in Nat
        /\ Cardinality(Coming') <= Cardinality(Coming) /\ Cardinality(Coming') \in Nat
        /\ Cardinality(Leaving') <= Cardinality(Leaving) /\ Cardinality(Leaving') \in Nat
    BY <1>3, SetsFinite, FS_Subset, FS_CardinalityType DEF Inv
  <1>5. Counted'
    BY <1>4, SetsFinite DEF Inv, Shape, Counted, Quiet
  <1>6. OnePath'
    BY <1>3 DEF Inv, OnePath, OneLocalPath, Quiet, InUse, Coming
  <1>7. QED
    BY <1>1, <1>2, <1>5, <1>6 DEF Inv

-----------------------------------------------------------------------------
\* The shape is kept.

LEMMA MakeShape ==
  ASSUME Shape, NEW t \in Threads, NEW p, NEW k \in Kind,
         NEW where \in LocalPaths \cup {NoPath}, Make(t, p, k, where),
         UNCHANGED <<passthru_rbt, answered>>, localOnlyCount' \in Int
  PROVE  Shape'
  <1>1. PICK o \in Object :
          /\ kind' = [kind EXCEPT ![o] = k] /\ path' = [path EXCEPT ![o] = where]
          /\ new' = [new EXCEPT ![t] = o] /\ pc' = [pc EXCEPT ![t] = "add"]
    BY DEF Make
  <1>2. QED
    BY <1>1 DEF Shape, Where

LEMMA HandlerShape ==
  ASSUME Shape, NEW t \in Threads, Handler(t)
  PROVE  Shape'
  <1>1. CASE Add(t)
    BY <1>1 DEF Add, Shape, Where
  <1>2. CASE Answer(t) \/ AnswerQuery(t) \/ StartQuery(t)
    <2>1. CASE Answer(t)
      BY <2>1 DEF Answer, SentFor, Shape, Where
    <2>2. CASE AnswerQuery(t)
      BY <2>2 DEF AnswerQuery, SentFor, Shape, Where
    <2>3. CASE StartQuery(t)
      BY <2>3 DEF StartQuery, Shape, Where
    <2>4. QED
      BY <1>2, <2>1, <2>2, <2>3
  <1>3. CASE CloseRemoves(t)
    BY <1>3 DEF CloseRemoves, RemoveIdentifier, Shape, Where
  <1>4. CASE CloseCounts(t) \/ CloseEnds(t)
    BY <1>4 DEF CloseCounts, CloseEnds, Shape, Where
  <1>5. CASE OpenNode(t)
    <2>1. UNCHANGED <<passthru_rbt, answered, localOnlyCount>>
      BY <1>5 DEF OpenNode
    <2>2. QED
      BY <1>5, <2>1, MakeShape DEF OpenNode, Shape, Kind
  <1>6. CASE CreateQuery(t)
    <2>1. UNCHANGED <<passthru_rbt, answered, localOnlyCount>>
      BY <1>6 DEF CreateQuery
    <2>2. QED
      BY <1>6, <2>1, MakeShape DEF CreateQuery, Shape, Kind
  <1>7. CASE ReleaseNode(t) \/ EndRequest(t)
    BY <1>7 DEF ReleaseNode, EndRequest, RemoveIdentifier, Shape, Where
  <1>8. QED
    BY <1>1, <1>2, <1>3, <1>4, <1>5, <1>6, <1>7 DEF Handler

LEMMA ReceiveShape ==
  ASSUME Shape, NEW t \in Threads, NEW p \in Pids,
         \/ CreateProxySession(t, p)
         \/ \E where \in LocalPaths : CreateLocalSession(t, p, where)
         \/ \E o \in answered : \/ BeginClose(t, p, o)
                                \/ \E use \in Uses : BeginRequest(t, p, o, use)
  PROVE  Shape'
  <1>1. CASE CreateProxySession(t, p)
    <2>1. UNCHANGED <<passthru_rbt, answered, localOnlyCount>>
      BY <1>1 DEF CreateProxySession
    <2>2. QED
      BY <1>1, <2>1, MakeShape DEF CreateProxySession, Shape, Kind
  <1>2. ASSUME NEW where \in LocalPaths, CreateLocalSession(t, p, where) PROVE Shape'
    <2>1. UNCHANGED <<passthru_rbt, answered>>
      BY <1>2 DEF CreateLocalSession
    <2>2. CASE Make(t, p, "session", where) /\ localOnlyCount' = localOnlyCount + 1
      <3>1. localOnlyCount' \in Int /\ "session" \in Kind /\ where \in LocalPaths \cup {NoPath}
        BY <2>2 DEF Shape, Kind
      <3>2. QED
        BY <2>1, <2>2, <3>1, MakeShape
    <2>3. CASE UNCHANGED <<localOnlyCount, kind, path, new, pc>>
      BY <2>1, <2>3 DEF Shape
    <2>4. QED
      BY <1>2, <2>2, <2>3 DEF CreateLocalSession
  <1>3. ASSUME NEW o \in answered, BeginClose(t, p, o) PROVE Shape'
    <2>1. o \in Object
      BY DEF Shape
    <2>2. QED
      BY <1>3, <2>1 DEF BeginClose, Shape, Where
  <1>4. ASSUME NEW o \in answered, NEW use \in Uses, BeginRequest(t, p, o, use) PROVE Shape'
    BY <1>4 DEF BeginRequest, Shape, Where, Uses
  <1>5. QED
    BY <1>1, <1>2, <1>3, <1>4

LEMMA NextShape == Shape /\ [Next]_vars => Shape'
  <1> SUFFICES ASSUME Shape, [Next]_vars PROVE Shape'
    OBVIOUS
  <1>1. ASSUME NEW t \in Threads, Handler(t) PROVE Shape'
    BY <1>1, HandlerShape
  <1>2. ASSUME NEW t \in Threads, NEW p \in Pids,
               \/ CreateProxySession(t, p)
               \/ \E where \in LocalPaths : CreateLocalSession(t, p, where)
               \/ \E o \in answered : \/ BeginClose(t, p, o)
                                      \/ \E use \in Uses : BeginRequest(t, p, o, use)
        PROVE  Shape'
    BY <1>2, ReceiveShape
  <1>3. ASSUME NEW q \in running, EndQuery(q) PROVE Shape'
    BY <1>3 DEF EndQuery, Shape
  <1>4. ASSUME NEW p \in Pids, PidDies(p) PROVE Shape'
    BY <1>4 DEF PidDies, Shape
  <1>5. CASE RunDelete
    BY <1>5 DEF RunDelete, Shape
  <1>6. CASE UNCHANGED vars
    BY <1>6 DEF vars, Shape
  <1>7. QED
    BY <1>1, <1>2, <1>3, <1>4, <1>5, <1>6 DEF Next, Rest

-----------------------------------------------------------------------------
\* The steps that are not quiet.

\* A node, a query or a session without a path is made.
LEMMA MakeWithoutPath ==
  ASSUME Inv, Shape', IsFiniteSet(Threads), NEW t \in Threads, NEW p, NEW k \in Kind,
         pc[t] # "close", k = "session" => ~gDSLocalOnlyMode,
         Make(t, p, k, NoPath),
         UNCHANGED <<gDSLocalOnlyMode, passthru_rbt, localOnlyCount, localonlyPath>>
  PROVE  Inv'
  <1>1. PICK o \in Object :
          /\ kind[o] = "unmade"
          /\ kind' = [kind EXCEPT ![o] = k] /\ path' = [path EXCEPT ![o] = NoPath]
          /\ new' = [new EXCEPT ![t] = o] /\ pc' = [pc EXCEPT ![t] = "add"]
    BY DEF Make
  <1>2. path' = path
    BY <1>1 DEF Inv, Makers, Shape
  <1>3. k # "unmade"
    BY DEF Kind
  <1>4. Makers'
    BY <1>1, <1>2, <1>3 DEF Inv, Makers, Shape
  <1>5. Pathed'
    BY <1>1, <1>2 DEF Inv, Pathed, Shape
  <1>6. InUse' = InUse
    BY <1>2 DEF InUse
  <1>7. path[o] = NoPath
    BY <1>1 DEF Inv, Makers
  <1>8. Coming' \in SUBSET Coming /\ Leaving' \in SUBSET Leaving
    BY <1>1, <1>2, <1>7 DEF Coming, Leaving, Inv, Shape
  <1>9. /\ Cardinality(Coming') <= Cardinality(Coming) /\ Cardinality(Coming') \in Nat
        /\ Cardinality(Leaving') <= Cardinality(Leaving) /\ Cardinality(Leaving') \in Nat
    BY <1>8, SetsFinite, FS_Subset, FS_CardinalityType DEF Inv
  <1>10. Counted'
    BY <1>6, <1>9, SetsFinite DEF Inv, Shape, Counted
  <1>11. OnePath'
    <2>1. \A u \in Coming' : u \in Coming /\ new'[u] = new[u]
      BY <1>1, <1>7, <1>8, <1>2 DEF Coming, Inv, Shape
    <2>2. QED
      BY <1>2, <2>1 DEF Inv, OnePath, OneLocalPath
  <1>12. QED
    BY <1>4, <1>5, <1>10, <1>11 DEF Inv

\* A local-only session is made: it is counted at once, and for the one path.
LEMMA MakeWithPath ==
  ASSUME Inv, Shape', IsFiniteSet(Threads), NEW t \in Threads, NEW p,
         NEW where \in LocalPaths, gDSLocalOnlyMode, pc[t] = "idle",
         AcceptPath(where), localonlyPath' = where, localOnlyCount' = localOnlyCount + 1,
         Make(t, p, "session", where), UNCHANGED <<gDSLocalOnlyMode, passthru_rbt>>
  PROVE  Inv'
  <1>0. where # NoPath
    OBVIOUS
  <1>1. PICK o \in Object :
          /\ kind[o] = "unmade"
          /\ kind' = [kind EXCEPT ![o] = "session"] /\ path' = [path EXCEPT ![o] = where]
          /\ new' = [new EXCEPT ![t] = o] /\ pc' = [pc EXCEPT ![t] = "add"]
    BY DEF Make
  <1>2. o \notin passthru_rbt /\ \A u \in Threads : pc[u] = "add" => new[u] # o
    BY <1>1 DEF Inv, Makers
  <1>3. Makers'
    BY <1>1, <1>2 DEF Inv, Makers, Shape
  <1>4. Pathed'
    BY <1>0, <1>1 DEF Inv, Pathed, Shape
  <1>5. /\ \A q \in Object \ {o} : path'[q] = path[q]
        /\ path'[o] = where /\ pc'[t] = "add" /\ new'[t] = o
        /\ \A u \in Threads \ {t} : pc'[u] = pc[u] /\ new'[u] = new[u]
    BY <1>1 DEF Inv, Shape
  <1>6. InUse' = InUse
    BY <1>2, <1>5 DEF InUse, Inv, Shape
  <1>7. t \notin Coming /\ Coming' = Coming \cup {t}
    BY <1>0, <1>2, <1>5 DEF Coming, Inv, Shape
  <1>8. Leaving' = Leaving
    BY <1>5 DEF Leaving
  <1>9. Cardinality(Coming') = Cardinality(Coming) + 1
    BY <1>7, SetsFinite, FS_AddElement DEF Inv
  <1>10. Counted'
    BY <1>6, <1>8, <1>9, SetsFinite DEF Inv, Shape, Counted
  <1>11. OnePath'
    <2>1. localonlyPath = NoPath \/ localonlyPath = where
      BY DEF AcceptPath
    <2>2. \A q \in passthru_rbt : path[q] # NoPath => path[q] = where
      BY <2>1 DEF Inv, OnePath, OneLocalPath
    <2>3. \A u \in Coming : path[new[u]] = where
      BY <2>1 DEF Inv, OnePath, Coming
    <2>4. \A q \in passthru_rbt' : path'[q] # NoPath => path'[q] = where
      BY <1>2, <1>5, <2>2 DEF Inv, Shape
    <2>5. \A u \in Coming' : path'[new'[u]] = where
      <3>1. \A u \in Coming : u # t /\ new[u] \in Object \ {o}
        BY <1>2, <1>7 DEF Coming, Inv, Shape
      <3>2. QED
        BY <1>5, <1>7, <2>3, <3>1 DEF Coming
    <2>6. QED
      BY <2>4, <2>5 DEF OnePath, OneLocalPath
  <1>12. QED
    BY <1>3, <1>4, <1>10, <1>11 DEF Inv

\* What was being added is in use.
LEMMA AddInv ==
  ASSUME Inv, Shape', IsFiniteSet(Threads), NEW t \in Threads, Add(t)
  PROVE  Inv'
  <1>1. /\ pc[t] = "add" /\ passthru_rbt' = passthru_rbt \cup {new[t]}
        /\ pc' = [pc EXCEPT ![t] = "answer"]
        /\ UNCHANGED <<gDSLocalOnlyMode, localOnlyCount, localonlyPath, kind, path, new>>
    BY DEF Add
  <1>2. new[t] \in Object /\ new[t] \notin passthru_rbt /\ kind[new[t]] # "unmade"
    BY <1>1 DEF Inv, Shape, Makers
  <1>3. pc'[t] = "answer" /\ \A u \in Threads \ {t} : pc'[u] = pc[u]
    BY <1>1 DEF Inv, Shape
  <1>4. Makers'
    BY <1>1, <1>2, <1>3 DEF Inv, Makers
  <1>5. Pathed'
    BY <1>1, <1>3 DEF Inv, Pathed
  <1>6. Leaving' = Leaving
    BY <1>1, <1>3 DEF Leaving
  <1>7. CASE path[new[t]] # NoPath
    <2>1. InUse' = InUse \cup {new[t]} /\ new[t] \notin InUse
      BY <1>1, <1>2, <1>7 DEF InUse
    <2>2. Coming' = Coming \ {t} /\ t \in Coming
      BY <1>1, <1>3, <1>7 DEF Coming
    <2>3. /\ Cardinality(InUse') = Cardinality(InUse) + 1
          /\ Cardinality(Coming') = Cardinality(Coming) - 1
      BY <2>1, <2>2, SetsFinite, FS_AddElement, FS_RemoveElement DEF Inv
    <2>4. Counted'
      BY <1>1, <1>6, <2>3, SetsFinite DEF Inv, Shape, Counted
    <2>5. OnePath'
      BY <1>1, <2>1, <2>2 DEF Inv, OnePath, OneLocalPath
    <2>6. QED
      BY <1>4, <1>5, <2>4, <2>5 DEF Inv
  <1>8. CASE path[new[t]] = NoPath
    <2>1. InUse' = InUse
      BY <1>1, <1>8 DEF InUse
    <2>2. Coming' = Coming
      BY <1>1, <1>3, <1>8 DEF Coming
    <2>3. Counted'
      BY <1>1, <1>6, <2>1, <2>2 DEF Inv, Counted
    <2>4. OnePath'
      BY <1>1, <1>8, <2>2 DEF Inv, OnePath, OneLocalPath
    <2>5. QED
      BY <1>4, <1>5, <2>3, <2>4 DEF Inv
  <1>9. QED
    BY <1>7, <1>8

LEMMA BeginCloseInv ==
  ASSUME Inv, Shape', IsFiniteSet(Threads), NEW t \in Threads, NEW p, NEW s \in answered,
         BeginClose(t, p, s)
  PROVE  Inv'
  <1>1. /\ kind[s] = "session" /\ pc[t] = "idle"
        /\ new' = [new EXCEPT ![t] = s] /\ pc' = [pc EXCEPT ![t] = "close"]
        /\ UNCHANGED <<gDSLocalOnlyMode, passthru_rbt, localOnlyCount, localonlyPath, kind,
                       path>>
    BY DEF BeginClose, Receive
  <1>2. /\ s \in Object /\ pc'[t] = "close" /\ new'[t] = s
        /\ \A u \in Threads \ {t} : pc'[u] = pc[u] /\ new'[u] = new[u]
    BY <1>1 DEF Inv, Shape
  <1>3. Makers'
    BY <1>1, <1>2 DEF Inv, Makers
  <1>4. Pathed'
    BY <1>1, <1>2 DEF Inv, Pathed
  <1>5. InUse' = InUse /\ Coming' = Coming /\ Leaving' = Leaving
    BY <1>1, <1>2 DEF InUse, Coming, Leaving
  <1>6. Counted'
    BY <1>1, <1>5 DEF Inv, Counted
  <1>7. OnePath'
    BY <1>1, <1>2, <1>5 DEF Inv, OnePath, OneLocalPath, Coming
  <1>8. QED
    BY <1>3, <1>4, <1>6, <1>7 DEF Inv

\* A session is removed by its close: what was in use is half closed.
LEMMA CloseRemovesInv ==
  ASSUME Inv, Shape', IsFiniteSet(Threads), NEW t \in Threads, CloseRemoves(t)
  PROVE  Inv'
  <1>1. /\ pc[t] = "close" /\ RemoveIdentifier(pid[t], new[t])
        /\ pc' = [pc EXCEPT ![t] = IF Removes(pid[t], new[t]) /\ gDSLocalOnlyMode
                                     THEN "count" ELSE "closed"]
        /\ UNCHANGED <<gDSLocalOnlyMode, localOnlyCount, localonlyPath, kind, path, new>>
    BY DEF CloseRemoves
  <1>2. passthru_rbt' \subseteq passthru_rbt
    BY <1>1 DEF RemoveIdentifier
  <1>3. \A u \in Threads \ {t} : pc'[u] = pc[u]
    BY <1>1 DEF Inv, Shape
  <1>4. CASE Removes(pid[t], new[t]) /\ gDSLocalOnlyMode
    <2>1. /\ pc'[t] = "count" /\ new[t] \in passthru_rbt
          /\ passthru_rbt' = passthru_rbt \ {new[t]}
      BY <1>1, <1>4 DEF Removes, RemoveIdentifier, Inv, Shape
    <2>2. path[new[t]] # NoPath
      BY <1>1, <1>4 DEF Inv, Pathed
    <2>3. InUse' = InUse \ {new[t]} /\ new[t] \in InUse
      BY <1>1, <2>1, <2>2 DEF InUse
    <2>4. Leaving' = Leaving \cup {t} /\ t \notin Leaving
      BY <1>1, <1>3, <2>1 DEF Leaving
    <2>5. Coming' = Coming
      BY <1>1, <1>3, <2>1 DEF Coming
    <2>6. /\ Cardinality(InUse') = Cardinality(InUse) - 1
          /\ Cardinality(Leaving') = Cardinality(Leaving) + 1
      BY <2>3, <2>4, SetsFinite, FS_AddElement, FS_RemoveElement DEF Inv
    <2>7. Counted'
      BY <1>1, <2>5, <2>6, SetsFinite DEF Inv, Shape, Counted
    <2>8. Makers'
      BY <1>1, <1>2, <1>3, <2>1 DEF Inv, Makers
    <2>9. Pathed'
      BY <1>1, <1>3, <2>1 DEF Inv, Pathed
    <2>10. OnePath'
      BY <1>1, <1>2, <2>5 DEF Inv, OnePath, OneLocalPath
    <2>11. QED
      BY <2>7, <2>8, <2>9, <2>10 DEF Inv
  <1>5. CASE ~(Removes(pid[t], new[t]) /\ gDSLocalOnlyMode)
    <2>1. pc'[t] = "closed"
      BY <1>1, <1>5 DEF Inv, Shape
    <2>2. Quiet
      BY <1>1, <1>2, <1>3, <2>1 DEF Quiet
    <2>3. QED
      BY <2>2, QuietStep
  <1>6. QED
    BY <1>4, <1>5

\* The count goes down; at zero nothing is left that has the path.
LEMMA CloseCountsInv ==
  ASSUME Inv, Shape', IsFiniteSet(Threads), NEW t \in Threads, CloseCounts(t)
  PROVE  Inv'
  <1>1. /\ pc[t] = "count" /\ localOnlyCount' = localOnlyCount - 1
        /\ localonlyPath' = IF localOnlyCount' = 0 THEN NoPath ELSE localonlyPath
        /\ pc' = [pc EXCEPT ![t] = "closed"]
        /\ UNCHANGED <<gDSLocalOnlyMode, passthru_rbt, kind, path, new>>
    BY DEF CloseCounts
  <1>2. pc'[t] = "closed" /\ \A u \in Threads \ {t} : pc'[u] = pc[u]
    BY <1>1 DEF Inv, Shape
  <1>3. InUse' = InUse
    BY <1>1 DEF InUse
  <1>4. Coming' = Coming
    BY <1>1, <1>2 DEF Coming
  <1>5. Leaving' = Leaving \ {t} /\ t \in Leaving
    BY <1>1, <1>2 DEF Leaving
  <1>6. Cardinality(Leaving') = Cardinality(Leaving) - 1 /\ Cardinality(Leaving') \in Nat
    BY <1>5, SetsFinite, FS_RemoveElement, FS_CardinalityType DEF Inv
  <1>7. Counted'
    BY <1>1, <1>3, <1>4, <1>6, SetsFinite DEF Inv, Shape, Counted
  <1>8. Makers' /\ Pathed'
    BY <1>1, <1>2 DEF Inv, Makers, Pathed
  <1>9. OnePath'
    <2>1. CASE localOnlyCount' = 0
      <3>1. Cardinality(InUse) = 0 /\ Cardinality(Coming) = 0
        BY <1>3, <1>4, <1>6, <1>7, <2>1, SetsFinite DEF Inv, Counted
      <3>2. InUse = {} /\ Coming = {}
        BY <3>1, SetsFinite, FS_EmptySet DEF Inv
      <3>3. QED
        BY <1>1, <1>4, <3>2 DEF OnePath, OneLocalPath, InUse
    <2>2. CASE localOnlyCount' # 0
      BY <1>1, <1>4, <2>2 DEF Inv, OnePath, OneLocalPath
    <2>3. QED
      BY <2>1, <2>2
  <1>10. QED
    BY <1>7, <1>8, <1>9 DEF Inv

\* A local-only session is asked for, and made, refused or failed.
LEMMA CreateLocalInv ==
  ASSUME Inv, Shape', IsFiniteSet(Threads), NEW t \in Threads, NEW p,
         NEW where \in LocalPaths, CreateLocalSession(t, p, where)
  PROVE  Inv'
  <1>1. /\ gDSLocalOnlyMode /\ pc[t] = "idle" /\ UNCHANGED <<gDSLocalOnlyMode, passthru_rbt>>
    BY DEF CreateLocalSession, Receive
  <1>2. CASE AcceptPath(where)
    <2>1. localonlyPath' = where
      BY <1>2 DEF CreateLocalSession, AcceptPath
    <2>2. CASE Make(t, p, "session", where) /\ localOnlyCount' = localOnlyCount + 1
      BY <1>1, <1>2, <2>1, <2>2, MakeWithPath
    <2>3. CASE UNCHANGED <<localOnlyCount, kind, path, new, pc>>
      <3>1. InUse' = InUse /\ Coming' = Coming /\ Leaving' = Leaving
        BY <1>1, <2>3 DEF InUse, Coming, Leaving
      <3>2. Makers' /\ Pathed' /\ Counted'
        BY <1>1, <2>3, <3>1 DEF Inv, Makers, Pathed, Counted
      <3>3. \A o \in passthru_rbt : path[o] # NoPath => path[o] = where
        BY <1>2 DEF AcceptPath, Inv, OnePath, OneLocalPath
      <3>4. \A u \in Coming : path[new[u]] = where
        BY <1>2 DEF AcceptPath, Inv, OnePath, Coming
      <3>5. OnePath'
        BY <1>1, <2>1, <2>3, <3>1, <3>3, <3>4 DEF OnePath, OneLocalPath
      <3>6. QED
        BY <3>2, <3>5 DEF Inv
    <2>4. QED
      BY <1>2, <2>2, <2>3 DEF CreateLocalSession
  <1>3. CASE ~AcceptPath(where)
    <2>1. Quiet
      BY <1>1, <1>3 DEF CreateLocalSession, Quiet
    <2>2. QED
      BY <2>1, QuietStep
  <1>4. QED
    BY <1>2, <1>3

\* A step of a thread that ends its request, or goes on with one that is no
\* close and makes nothing.
LEMMA MovesQuietly ==
  ASSUME Shape, NEW t \in Threads, NEW w \in Where \ {"add", "count", "close"},
         pc' = [pc EXCEPT ![t] = w], \A u \in Threads \ {t} : new'[u] = new[u],
         passthru_rbt' \subseteq passthru_rbt,
         UNCHANGED <<gDSLocalOnlyMode, localOnlyCount, localonlyPath, kind, path>>
  PROVE  Quiet
  BY DEF Quiet, Shape

LEMMA HandlerInv ==
  ASSUME Inv, Shape', IsFiniteSet(Threads), NEW t \in Threads, Handler(t)
  PROVE  Inv'
  <1>0. CASE AnswerQuery(t)
    <2>1. /\ pc[t] = "answer" /\ pc' = [pc EXCEPT ![t] = "start"]
          /\ UNCHANGED <<gDSLocalOnlyMode, passthru_rbt, localOnlyCount, localonlyPath,
                         kind, path, new>>
      BY <1>0 DEF AnswerQuery
    <2>2. Quiet
      BY <2>1, MovesQuietly DEF Inv, Where
    <2>3. QED
      BY <2>2, QuietStep
  <1>1. CASE Answer(t) \/ StartQuery(t)
    <2>1. /\ pc' = [pc EXCEPT ![t] = "idle"] /\ new' = [new EXCEPT ![t] = NULL]
          /\ UNCHANGED <<gDSLocalOnlyMode, passthru_rbt, localOnlyCount, localonlyPath,
                         kind, path>>
      BY <1>1 DEF Answer, StartQuery
    <2>2. \A u \in Threads \ {t} : new'[u] = new[u]
      BY <2>1 DEF Inv, Shape
    <2>3. Quiet
      BY <2>1, <2>2, MovesQuietly DEF Inv, Where
    <2>4. QED
      BY <2>3, QuietStep
  <1>2. CASE CloseEnds(t)
    <2>1. /\ pc' = [pc EXCEPT ![t] = "idle"] /\ new' = [new EXCEPT ![t] = NULL]
          /\ UNCHANGED <<gDSLocalOnlyMode, passthru_rbt, localOnlyCount, localonlyPath,
                         kind, path>>
      BY <1>2 DEF CloseEnds
    <2>2. \A u \in Threads \ {t} : new'[u] = new[u]
      BY <2>1 DEF Inv, Shape
    <2>3. Quiet
      BY <2>1, <2>2, MovesQuietly DEF Inv, Where
    <2>4. QED
      BY <2>3, QuietStep
  <1>3. CASE ReleaseNode(t) \/ EndRequest(t)
    <2>1. /\ \E w \in {"end", "idle"} : pc' = [pc EXCEPT ![t] = w]
          /\ passthru_rbt' \subseteq passthru_rbt
          /\ UNCHANGED <<gDSLocalOnlyMode, localOnlyCount, localonlyPath, kind, path, new>>
      BY <1>3 DEF ReleaseNode, EndRequest, RemoveIdentifier
    <2>2. Quiet
      BY <2>1, MovesQuietly DEF Inv, Where
    <2>3. QED
      BY <2>2, QuietStep
  <1>4. CASE OpenNode(t)
    <2>1. /\ pc[t] # "close" /\ Make(t, pid[t], "node", NoPath)
          /\ UNCHANGED <<gDSLocalOnlyMode, passthru_rbt, localOnlyCount, localonlyPath>>
      BY <1>4 DEF OpenNode
    <2>2. QED
      BY <2>1, MakeWithoutPath DEF Kind
  <1>5. CASE CreateQuery(t)
    <2>1. /\ pc[t] # "close" /\ Make(t, pid[t], "query", NoPath)
          /\ UNCHANGED <<gDSLocalOnlyMode, passthru_rbt, localOnlyCount, localonlyPath>>
      BY <1>5 DEF CreateQuery
    <2>2. QED
      BY <2>1, MakeWithoutPath DEF Kind
  <1>6. QED
    BY <1>0, <1>1, <1>2, <1>3, <1>4, <1>5, AddInv, CloseRemovesInv, CloseCountsInv DEF Handler

LEMMA NextInv ==
  ASSUME IsFiniteSet(Threads)
  PROVE  Inv /\ [Next]_vars => Inv'
  <1> SUFFICES ASSUME Inv, [Next]_vars PROVE Inv'
    OBVIOUS
  <1>0. Shape'
    BY NextShape DEF Inv
  <1>1. ASSUME NEW t \in Threads, Handler(t) PROVE Inv'
    BY <1>0, <1>1, HandlerInv
  <1>2. ASSUME NEW t \in Threads, NEW p \in Pids, CreateProxySession(t, p) PROVE Inv'
    <2>1. /\ ~gDSLocalOnlyMode /\ pc[t] # "close" /\ Make(t, p, "session", NoPath)
          /\ UNCHANGED <<gDSLocalOnlyMode, passthru_rbt, localOnlyCount, localonlyPath>>
      BY <1>2 DEF CreateProxySession, Receive
    <2>2. QED
      BY <1>0, <2>1, MakeWithoutPath DEF Kind
  <1>3. ASSUME NEW t \in Threads, NEW p \in Pids, NEW where \in LocalPaths,
               CreateLocalSession(t, p, where)
        PROVE  Inv'
    BY <1>0, <1>3, CreateLocalInv
  <1>4. ASSUME NEW t \in Threads, NEW p \in Pids, NEW o \in answered, BeginClose(t, p, o)
        PROVE  Inv'
    BY <1>0, <1>4, BeginCloseInv
  <1>5. ASSUME NEW t \in Threads, NEW p \in Pids, NEW o \in answered, NEW use \in Uses,
               BeginRequest(t, p, o, use)
        PROVE  Inv'
    <2>1. /\ pc' = [pc EXCEPT ![t] = use] \/ pc' = pc
          /\ UNCHANGED <<gDSLocalOnlyMode, passthru_rbt, localOnlyCount, localonlyPath,
                         kind, path, new>>
      BY <1>5 DEF BeginRequest, Receive
    <2>2. Quiet
      BY <2>1, MovesQuietly DEF Inv, Where, Uses, Quiet
    <2>3. QED
      BY <1>0, <2>2, QuietStep
  <1>6. ASSUME NEW q \in running, EndQuery(q) PROVE Inv'
    <2>1. Quiet
      BY <1>6 DEF EndQuery, Quiet
    <2>2. QED
      BY <1>0, <2>1, QuietStep
  <1>7. ASSUME NEW p \in Pids, PidDies(p) PROVE Inv'
    <2>1. Quiet
      BY <1>7 DEF PidDies, Quiet
    <2>2. QED
      BY <1>0, <2>1, QuietStep
  <1>8. CASE RunDelete \/ UNCHANGED vars
    <2>1. Quiet
      BY <1>8 DEF RunDelete, Quiet, vars
    <2>2. QED
      BY <1>0, <2>1, QuietStep
  <1>9. QED
    BY <1>1, <1>2, <1>3, <1>4, <1>5, <1>6, <1>7, <1>8 DEF Next, Rest

\* All local-only sessions that can be used are for one path
\* (Server/od_passthru.cpp, receive_session_create and receive_session_close),
\* however closes, reopenings, deletions and ends of queries cross.
THEOREM OnePathCorrect ==
  ASSUME IsFiniteSet(Threads)
  PROVE  Spec => []OneLocalPath
  <1>1. Init => Inv
    BY InitInv
  <1>2. Inv /\ [Next]_vars => Inv'
    BY NextInv
  <1>3. Inv => OneLocalPath
    BY DEF Inv, OnePath
  <1>4. QED
    BY <1>1, <1>2, <1>3, PTL DEF Spec

-----------------------------------------------------------------------------
(***************************************************************************)
(* The retain counts.                                                      *)
(***************************************************************************)
Adders(o) == {t \in Threads : pc[t] = "add" /\ new[t] = o}
Users(o) == {t \in Threads : object[t] = o}
InTree(o) == IF o \in passthru_rbt THEN 1 ELSE 0
Runs(o) == IF o \in running THEN 1 ELSE 0

RetainShape ==
  /\ running \subseteq Object
  /\ object \in [Threads -> Object \cup {NULL}]
  /\ retain \in [Object -> Int]

Unused == {"idle", "close", "count", "closed"}

\* A thread without a request or in a close uses nothing; what is not made is used by nobody;
\* what is being added or answered does not run yet and is its maker's alone.
Holders ==
  /\ \A t \in Threads : pc[t] \in Unused => object[t] = NULL
  /\ \A o \in Object : kind[o] = "unmade" => o \notin running /\ Users(o) = {}
  /\ \A t \in Threads :
       pc[t] \in {"add", "answer", "start"} => new[t] \notin running /\ kind[new[t]] # "unmade"
  /\ \A t, u \in Threads :
       /\ pc[t] \in {"add", "answer", "start"} /\ pc[u] \in {"add", "answer", "start"}
       /\ new[t] = new[u]
       => t = u

ExactCounts ==
  \A o \in Object :
    retain[o] = InTree(o) + Runs(o) + Cardinality(Adders(o)) + Cardinality(Users(o))

RetainInv == Inv /\ RetainShape /\ Holders /\ ExactCounts

LEMMA UsersFinite ==
  ASSUME IsFiniteSet(Threads), NEW o
  PROVE  /\ IsFiniteSet(Adders(o)) /\ Cardinality(Adders(o)) \in Nat
         /\ IsFiniteSet(Users(o)) /\ Cardinality(Users(o)) \in Nat
  <1>1. Adders(o) \in SUBSET Threads /\ Users(o) \in SUBSET Threads
    BY DEF Adders, Users
  <1>2. QED
    BY <1>1, FS_Subset, FS_CardinalityType

LEMMA RetainIs ==
  ExactCounts <=>
    \A o \in Object :
      retain[o] = InTree(o) + Runs(o) + Cardinality(Adders(o)) + Cardinality(Users(o))
  BY DEF ExactCounts

\* What the counts mean to a user: exact, and not zero for the maker of a query
\* unless a deletion has taken the query out of the tree.
LEMMA CountsServe ==
  ASSUME RetainInv, IsFiniteSet(Threads)
  PROVE  RetainCountsExact
  <1>1. ASSUME NEW o \in Object PROVE retain[o] = Claims(o)
    BY DEF RetainInv, ExactCounts, Claims, InTree, Runs, Adders, Users
  <1>2. ASSUME NEW o \in Object, Starting(o), ~Overtaken(o) PROVE retain[o] > 0
    <2>1. /\ Cardinality(Adders(o)) \in Nat /\ IsFiniteSet(Adders(o))
          /\ Cardinality(Users(o)) \in Nat
      BY UsersFinite
    <2>2. InTree(o) \in Nat /\ Runs(o) \in Nat
      BY DEF InTree, Runs
    <2>3. retain[o] = InTree(o) + Runs(o) + Cardinality(Adders(o)) + Cardinality(Users(o))
      BY RetainIs DEF RetainInv
    <2>4. CASE o \in passthru_rbt
      <3>1. InTree(o) = 1
        BY <2>4 DEF InTree
      <3>2. QED
        BY <2>1, <2>2, <2>3, <3>1
    <2>5. CASE o \notin passthru_rbt
      <3>1. Adders(o) # {}
        BY <1>2, <2>5 DEF Starting, Overtaken, Adders
      <3>2. Cardinality(Adders(o)) # 0
        BY <2>1, <3>1, FS_EmptySet
      <3>3. QED
        BY <2>1, <2>2, <2>3, <3>2
    <2>6. QED
      BY <2>4, <2>5
  <1>3. QED
    BY <1>1, <1>2 DEF RetainCountsExact

\* One thread's word changes the number of the threads that say o.
LEMMA OneMore ==
  ASSUME NEW S, IsFiniteSet(S), NEW x, x \notin S
  PROVE  Cardinality(S \cup {x}) = Cardinality(S) + 1
  BY FS_AddElement

LEMMA OneLess ==
  ASSUME NEW S, IsFiniteSet(S), NEW x \in S
  PROVE  Cardinality(S \ {x}) = Cardinality(S) - 1
  BY FS_RemoveElement

\* A thread begins or ceases to use an object.
LEMMA UserChange ==
  ASSUME IsFiniteSet(Threads), RetainShape, NEW t \in Threads, NEW v,
         object' = [object EXCEPT ![t] = v], object[t] = NULL \/ v = NULL, NEW o \in Object
  PROVE  Cardinality(Users(o)') = Cardinality(Users(o)) + (IF v = o THEN 1 ELSE 0)
                                  - (IF object[t] = o THEN 1 ELSE 0)
  <1>1. Cardinality(Users(o)) \in Nat /\ o # NULL
    BY UsersFinite DEF Object, NULL
  <1>2. CASE v = o
    <2>1. Users(o)' = Users(o) \cup {t} /\ t \notin Users(o)
      BY <1>1, <1>2 DEF Users, RetainShape
    <2>2. QED
      BY <1>1, <1>2, <2>1, OneMore, UsersFinite
  <1>3. CASE v # o /\ object[t] = o
    <2>1. Users(o)' = Users(o) \ {t} /\ t \in Users(o)
      BY <1>3 DEF Users, RetainShape
    <2>2. QED
      BY <1>1, <1>3, <2>1, OneLess, UsersFinite
  <1>4. CASE v # o /\ object[t] # o
    <2>1. Users(o)' = Users(o)
      BY <1>4 DEF Users, RetainShape
    <2>2. QED
      BY <1>1, <1>4, <2>1
  <1>5. QED
    BY <1>2, <1>3, <1>4

\* Who adds what is unchanged by a step that brings no thread to or from "add".
LEMMA AddersSame ==
  ASSUME NEW t \in Threads, \A u \in Threads \ {t} : pc'[u] = pc[u] /\ new'[u] = new[u],
         pc[t] # "add", pc'[t] # "add", NEW o
  PROVE  Adders(o)' = Adders(o)
  BY DEF Adders

LEMMA ReleaseIs ==
  ASSUME NEW counts \in [Object -> Int], NEW o \in Object, NEW p \in Object \cup {NULL}
  PROVE  /\ Release(counts, p)[o] = counts[o] - (IF p = o THEN 1 ELSE 0)
         /\ Retained(counts, p)[o] = counts[o] + (IF p = o THEN 1 ELSE 0)
         /\ Release(counts, p) \in [Object -> Int]
         /\ Retained(counts, p) \in [Object -> Int]
  BY DEF Release, Retained, Object, NULL

-----------------------------------------------------------------------------
\* A new object has the one reference of its maker.
LEMMA MakeRetain ==
  ASSUME RetainInv, Inv', IsFiniteSet(Threads), NEW t \in Threads, NEW p, NEW k \in Kind,
         NEW where, Make(t, p, k, where), pc[t] \notin {"add", "answer", "start"},
         UNCHANGED <<passthru_rbt, running, object>>
  PROVE  RetainInv'
  <1>1. PICK o \in Object :
          /\ kind[o] = "unmade" /\ kind' = [kind EXCEPT ![o] = k]
          /\ retain' = [retain EXCEPT ![o] = 1]
          /\ new' = [new EXCEPT ![t] = o] /\ pc' = [pc EXCEPT ![t] = "add"]
    BY DEF Make
  <1>2. RetainShape'
    BY <1>1 DEF RetainInv, RetainShape
  <1>3. /\ pc'[t] = "add" /\ new'[t] = o
        /\ \A u \in Threads \ {t} : pc'[u] = pc[u] /\ new'[u] = new[u]
    BY <1>1 DEF RetainInv, Inv, Shape
  <1>4. /\ o \notin passthru_rbt /\ o \notin running /\ Users(o) = {}
        /\ \A u \in Threads : pc[u] \in {"add", "answer", "start"} => new[u] # o
    BY <1>1 DEF RetainInv, Inv, Makers, Holders
  <1>5. \A q \in Object : Users(q)' = Users(q)
    BY DEF Users
  <1>6. \A q \in Object : kind'[q] = "unmade" => kind[q] = "unmade" /\ q # o
    BY <1>1 DEF RetainInv, Inv, Shape, Kind
  <1>7. Holders'
    <2>1. \A u \in Threads : pc'[u] \in Unused => object'[u] = NULL
      BY <1>3 DEF RetainInv, Holders, Unused
    <2>2. \A q \in Object : kind'[q] = "unmade" => q \notin running' /\ Users(q)' = {}
      BY <1>5, <1>6 DEF RetainInv, Holders, Unused
    <2>3. \A u \in Threads :
            pc'[u] \in {"add", "answer", "start"} => new'[u] \notin running' /\ kind'[new'[u]] # "unmade"
      BY <1>1, <1>3, <1>4 DEF RetainInv, Holders, Unused, Inv, Shape, Kind
    <2>4. \A u, w \in Threads :
            /\ pc'[u] \in {"add", "answer", "start"} /\ pc'[w] \in {"add", "answer", "start"}
            /\ new'[u] = new'[w]
            => u = w
      BY <1>3, <1>4 DEF RetainInv, Holders, Unused
    <2>5. QED
      BY <2>1, <2>2, <2>3, <2>4 DEF Holders
  <1>8. ASSUME NEW q \in Object
        PROVE  retain'[q] = InTree(q)' + Runs(q)' + Cardinality(Adders(q)') + Cardinality(Users(q)')
    <2>1. CASE q = o
      <3>1. Adders(q)' = {t}
        BY <1>3, <1>4, <2>1 DEF Adders
      <3>2. Cardinality(Adders(q)') = 1 /\ Cardinality(Users(q)') = 0
        BY <3>1, <2>1, <1>4, <1>5, FS_Singleton, FS_EmptySet
      <3>3. InTree(q)' = 0 /\ Runs(q)' = 0 /\ retain'[q] = 1
        BY <1>1, <1>4, <2>1 DEF InTree, Runs, RetainInv, RetainShape
      <3>4. QED
        BY <3>2, <3>3
    <2>2. CASE q # o
      <3>1. Adders(q)' = Adders(q)
        BY <1>3, <2>2 DEF Adders
      <3>2. InTree(q)' = InTree(q) /\ Runs(q)' = Runs(q) /\ retain'[q] = retain[q]
        BY <1>1, <2>2 DEF InTree, Runs, RetainInv, RetainShape
      <3>3. QED
        BY <3>1, <3>2, <1>5, RetainIs DEF RetainInv
    <2>3. QED
      BY <2>1, <2>2
  <1>9. QED
    BY <1>2, <1>7, <1>8, RetainIs DEF RetainInv, ExactCounts, InTree, Runs, Adders, Users

\* A step that makes nothing, and brings nothing to be added, answered or run.
Settled ==
  /\ kind' = kind /\ running' \subseteq running
  /\ \A t \in Threads : pc'[t] \in {"add", "answer", "start"} =>
       pc[t] \in {"add", "answer", "start"} /\ new'[t] = new[t]
  /\ \A t \in Threads : pc'[t] \in Unused => object'[t] = NULL
  /\ \A t \in Threads : object'[t] # object[t] =>
       object'[t] = NULL \/ kind[object'[t]] # "unmade"

LEMMA SettledHolders ==
  ASSUME Holders, RetainShape, Settled
  PROVE  Holders'
  <1>1. \A o \in Object : kind'[o] = "unmade" => Users(o)' = {}
    BY DEF Holders, Settled, Users, Object, NULL
  <1>2. QED
    BY <1>1 DEF Holders, Settled

\* Who adds is unchanged, the tree loses one object or none.
LEMMA RemovalRetain ==
  ASSUME RetainInv, NEW x \in Object, NEW p, RemoveIdentifier(p, x), NEW o \in Object
  PROVE  /\ retain'[o] - InTree(o)' = retain[o] - InTree(o)
         /\ retain' \in [Object -> Int]
  <1>1. CASE Removes(p, x)
    BY <1>1, ReleaseIs DEF RemoveIdentifier, Removes, InTree, RetainInv, RetainShape
  <1>2. CASE ~Removes(p, x)
    BY <1>2 DEF RemoveIdentifier, InTree, RetainInv, RetainShape
  <1>3. QED
    BY <1>1, <1>2

LEMMA AddRetain ==
  ASSUME RetainInv, Inv', IsFiniteSet(Threads), NEW t \in Threads, Add(t)
  PROVE  RetainInv'
  <1>1. /\ pc[t] = "add" /\ passthru_rbt' = passthru_rbt \cup {new[t]}
        /\ pc' = [pc EXCEPT ![t] = "answer"]
        /\ UNCHANGED <<kind, retain, running, object, new>>
    BY DEF Add
  <1>2. pc'[t] = "answer" /\ \A u \in Threads \ {t} : pc'[u] = pc[u]
    BY <1>1 DEF RetainInv, Inv, Shape
  <1>3. Settled
    BY <1>1, <1>2 DEF Settled, RetainInv, Holders, Unused
  <1>4. ASSUME NEW o \in Object
        PROVE  retain'[o] = InTree(o)' + Runs(o)' + Cardinality(Adders(o)') + Cardinality(Users(o)')
    <2>1. Users(o)' = Users(o) /\ Runs(o)' = Runs(o) /\ retain'[o] = retain[o]
      BY <1>1 DEF Users, Runs
    <2>2. CASE o = new[t]
      <3>1. InTree(o) = 0 /\ InTree(o)' = 1
        BY <1>1, <2>2 DEF InTree, RetainInv, Inv, Makers
      <3>2. Adders(o)' = Adders(o) \ {t} /\ t \in Adders(o)
        BY <1>1, <1>2, <2>2 DEF Adders
      <3>3. Cardinality(Adders(o)') = Cardinality(Adders(o)) - 1
        BY <3>2, OneLess, UsersFinite
      <3>4. Cardinality(Adders(o)) \in Int /\ Cardinality(Users(o)) \in Int /\ Runs(o) \in Int
        BY UsersFinite DEF Runs
      <3>5. retain[o] = InTree(o) + Runs(o) + Cardinality(Adders(o)) + Cardinality(Users(o))
        BY RetainIs DEF RetainInv
      <3>6. QED
        BY <2>1, <3>1, <3>3, <3>4, <3>5
    <2>3. CASE o # new[t]
      <3>1. InTree(o)' = InTree(o) /\ Adders(o)' = Adders(o)
        BY <1>1, <1>2, <2>3 DEF InTree, Adders
      <3>2. QED
        BY <2>1, <3>1, RetainIs DEF RetainInv
    <2>4. QED
      BY <2>2, <2>3
  <1>5. QED
    BY <1>1, <1>3, <1>4, SettledHolders
       DEF RetainInv, RetainShape, ExactCounts, InTree, Runs, Adders, Users

LEMMA AnswerRetain ==
  ASSUME RetainInv, Inv', IsFiniteSet(Threads), NEW t \in Threads,
         Answer(t) \/ StartQuery(t)
  PROVE  RetainInv'
  <1> DEFINE n == new[t]
             query == pc[t] = "start"
             more == IF query THEN Retained(retain, n) ELSE retain
  <1>1. /\ pc[t] \in {"answer", "start"} /\ pc' = [pc EXCEPT ![t] = "idle"]
        /\ running' = IF query THEN running \cup {n} ELSE running
        /\ retain' = Release(more, object[t])
        /\ object' = [object EXCEPT ![t] = NULL]
        /\ new' = [new EXCEPT ![t] = NULL]
        /\ UNCHANGED <<passthru_rbt, kind>>
    BY DEF Answer, StartQuery
  <1>2. pc'[t] = "idle" /\ object'[t] = NULL
        /\ \A u \in Threads \ {t} :
             pc'[u] = pc[u] /\ new'[u] = new[u] /\ object'[u] = object[u]
    BY <1>1 DEF RetainInv, RetainShape, Inv, Shape
  <1>3. n \in Object /\ n \notin running /\ kind[n] # "unmade"
    BY <1>1 DEF RetainInv, Inv, Shape, Holders
  <1>4. object[t] \in Object \cup {NULL} /\ retain \in [Object -> Int]
    BY DEF RetainInv, RetainShape
  <1>5. more \in [Object -> Int]
    BY <1>3, <1>4, ReleaseIs
  <1>6. RetainShape'
    BY <1>1, <1>3, <1>4, <1>5, ReleaseIs DEF RetainInv, RetainShape
  <1>7. Holders'
    <2>1. \A u \in Threads : pc'[u] \in Unused => object'[u] = NULL
      BY <1>2 DEF RetainInv, Holders, Unused
    <2>2. \A o \in Object : kind'[o] = "unmade" => o \notin running' /\ Users(o)' = {}
      BY <1>1, <1>2, <1>3 DEF RetainInv, Holders, Users, Object, NULL
    <2>3. \A u \in Threads : pc'[u] \in {"add", "answer", "start"} =>
            u # t /\ new'[u] = new[u] /\ pc[u] \in {"add", "answer", "start"} /\ new[u] # n
      BY <1>1, <1>2 DEF RetainInv, Holders, Unused
    <2>4. QED
      BY <1>1, <2>1, <2>2, <2>3 DEF RetainInv, Holders, Unused
  <1>8. ASSUME NEW o \in Object
        PROVE  retain'[o] = InTree(o)' + Runs(o)' + Cardinality(Adders(o)') + Cardinality(Users(o)')
    <2>1. Adders(o)' = Adders(o)
      BY <1>1, <1>2, AddersSame
    <2>2. InTree(o)' = InTree(o)
      BY <1>1 DEF InTree
    <2>3. Runs(o)' = Runs(o) + (IF query /\ n = o THEN 1 ELSE 0)
      BY <1>1, <1>3 DEF Runs
    <2>4. more[o] = retain[o] + (IF query /\ n = o THEN 1 ELSE 0)
      <3>1. CASE query
        <4>1. Retained(retain, n)[o] = retain[o] + (IF n = o THEN 1 ELSE 0)
          BY <1>3, <1>4, ReleaseIs
        <4>2. QED
          BY <3>1, <4>1
      <3>2. CASE ~query
        BY <3>2, <1>4
      <3>3. QED
        BY <3>1, <3>2
    <2>5. retain'[o] = more[o] - (IF object[t] = o THEN 1 ELSE 0)
      <3>1. \A p \in Object \cup {NULL} :
              Release(more, p)[o] = more[o] - (IF p = o THEN 1 ELSE 0)
        BY <1>5, ReleaseIs
      <3>2. QED
        BY <1>1, <1>4, <3>1
    <2>6. Cardinality(Users(o)') = Cardinality(Users(o)) + (IF NULL = o THEN 1 ELSE 0)
                                   - (IF object[t] = o THEN 1 ELSE 0)
      BY <1>1, UserChange DEF RetainInv
    <2>7. NULL # o
      BY DEF NULL, Object
    <2>8. retain[o] = InTree(o) + Runs(o) + Cardinality(Adders(o)) + Cardinality(Users(o))
      BY RetainIs DEF RetainInv
    <2>9. /\ InTree(o) \in Int /\ Runs(o) \in Int /\ Cardinality(Adders(o)) \in Int
          /\ Cardinality(Users(o)) \in Int
      BY UsersFinite DEF InTree, Runs
    <2>10. QED
      BY <2>1, <2>2, <2>3, <2>4, <2>5, <2>6, <2>7, <2>8, <2>9
  <1>9. QED
    BY <1>6, <1>7, <1>8 DEF RetainInv, ExactCounts, InTree, Runs, Adders, Users

\* A step that changes no count, nor what is counted.
LEMMA UncountedRetain ==
  ASSUME RetainInv, Inv', Settled, UNCHANGED <<passthru_rbt, running, retain, object>>,
         \A t \in Threads : pc'[t] = "add" <=> pc[t] = "add",
         \A t \in Threads : pc[t] = "add" => new'[t] = new[t]
  PROVE  RetainInv'
  <1>1. \A o \in Object :
          /\ InTree(o)' = InTree(o) /\ Runs(o)' = Runs(o)
          /\ Adders(o)' = Adders(o) /\ Users(o)' = Users(o)
    BY DEF InTree, Runs, Adders, Users
  <1>2. QED
    BY <1>1, RetainIs, SettledHolders
       DEF RetainInv, RetainShape, ExactCounts, InTree, Runs, Adders, Users

\* A thread removes an object by its uuid.
LEMMA RemovesRetain ==
  ASSUME RetainInv, Inv', IsFiniteSet(Threads), NEW t \in Threads, NEW x \in Object, NEW p,
         RemoveIdentifier(p, x),
         NEW w \in {"count", "closed", "end"}, w # "end" => object[t] = NULL, pc[t] # "add",
         pc' = [pc EXCEPT ![t] = w],
         UNCHANGED <<kind, running, object, new>>
  PROVE  RetainInv'
  <1>1. pc'[t] = w /\ \A u \in Threads \ {t} : pc'[u] = pc[u]
    BY DEF RetainInv, Inv, Shape
  <1>2. Settled
    BY <1>1 DEF Settled, RetainInv, Holders, Unused
  <1>3. \A o \in Object :
          Runs(o)' = Runs(o) /\ Adders(o)' = Adders(o) /\ Users(o)' = Users(o)
    BY <1>1 DEF Runs, Adders, Users
  <1>4. \A o \in Object :
          retain'[o] - InTree(o)' = retain[o] - InTree(o) /\ retain' \in [Object -> Int]
    BY RemovalRetain
  <1>5. \A o \in Object : InTree(o) \in Int /\ InTree(o)' \in Int
    BY DEF InTree
  <1>6. RetainShape'
    BY <1>4 DEF RetainInv, RetainShape
  <1>7. ASSUME NEW o \in Object
        PROVE  retain'[o] = InTree(o)' + Runs(o)' + Cardinality(Adders(o)) + Cardinality(Users(o))
    <2>1. retain[o] \in Int /\ retain'[o] \in Int
      BY <1>6 DEF RetainInv, RetainShape
    <2>2. retain[o] = InTree(o) + Runs(o) + Cardinality(Adders(o)) + Cardinality(Users(o))
      BY RetainIs DEF RetainInv
    <2>3. Cardinality(Adders(o)) \in Int /\ Cardinality(Users(o)) \in Int /\ Runs(o) \in Int
      BY UsersFinite DEF Runs
    <2>4. QED
      BY <1>3, <1>4, <1>5, <2>1, <2>2, <2>3
  <1>8. QED
    BY <1>2, <1>3, <1>6, <1>7, SettledHolders
       DEF RetainInv, ExactCounts, InTree, Runs, Adders, Users


LEMMA EndQueryRetain ==
  ASSUME RetainInv, Inv', IsFiniteSet(Threads), NEW q \in running, EndQuery(q)
  PROVE  RetainInv'
  <1>1. /\ q \in Object /\ running' = running \ {q}
        /\ UNCHANGED <<kind, object, pc, new>>
    BY DEF EndQuery, RetainInv, RetainShape
  <1>2. Settled
    BY <1>1 DEF Settled, RetainInv, Holders, Unused
  <1>3. retain \in [Object -> Int]
    BY DEF RetainInv, RetainShape
  <1>4. /\ retain' \in [Object -> Int]
        /\ \A o \in Object : retain'[o] - InTree(o)' - Runs(o)' = retain[o] - InTree(o) - Runs(o)
    <2>1. CASE q \in passthru_rbt
      <3>1. passthru_rbt' = passthru_rbt \ {q} /\ retain' = [retain EXCEPT ![q] = @ - 2]
        BY <2>1 DEF EndQuery
      <3>2. QED
        BY <1>1, <1>3, <2>1, <3>1 DEF InTree, Runs
    <2>2. CASE retain' = Release(retain, q) /\ UNCHANGED passthru_rbt
      BY <1>1, <1>3, <2>2, ReleaseIs DEF InTree, Runs
    <2>3. ASSUME NEW x \in passthru_rbt, q \notin passthru_rbt,
                 passthru_rbt' = passthru_rbt \ {x},
                 retain' = Release(Release(retain, q), x)
          PROVE  /\ retain' \in [Object -> Int]
                 /\ \A o \in Object :
                      retain'[o] - InTree(o)' - Runs(o)' = retain[o] - InTree(o) - Runs(o)
      <3>1. x \in Object
        BY <2>3 DEF RetainInv, Inv, Shape
      <3>2. Release(retain, q) \in [Object -> Int]
        BY <1>1, <1>3, ReleaseIs
      <3>3. retain' \in [Object -> Int]
        BY <2>3, <3>1, <3>2, ReleaseIs
      <3>4. ASSUME NEW o \in Object
            PROVE  retain'[o] - InTree(o)' - Runs(o)' = retain[o] - InTree(o) - Runs(o)
        <4>1. Release(retain, q)[o] = retain[o] - (IF q = o THEN 1 ELSE 0)
          BY <1>1, <1>3, ReleaseIs
        <4>2. retain'[o] = Release(retain, q)[o] - (IF x = o THEN 1 ELSE 0)
          BY <2>3, <3>1, <3>2, ReleaseIs
        <4>3. InTree(o)' = InTree(o) - (IF x = o THEN 1 ELSE 0)
          BY <2>3 DEF InTree
        <4>4. Runs(o)' = Runs(o) - (IF q = o THEN 1 ELSE 0)
          BY <1>1 DEF Runs
        <4>5. InTree(o) \in Int /\ Runs(o) \in Int /\ retain[o] \in Int
          BY <1>3 DEF InTree, Runs
        <4>6. QED
          BY <4>1, <4>2, <4>3, <4>4, <4>5
      <3>5. QED
        BY <3>3, <3>4
    <2>4. QED
      BY <2>1, <2>2, <2>3 DEF EndQuery
  <1>5. RetainShape'
    BY <1>1, <1>4 DEF RetainInv, RetainShape
  <1>6. ASSUME NEW o \in Object
        PROVE  retain'[o] = InTree(o)' + Runs(o)' + Cardinality(Adders(o)') + Cardinality(Users(o)')
    <2>1. Adders(o)' = Adders(o) /\ Users(o)' = Users(o)
      BY <1>1 DEF Adders, Users
    <2>2. retain[o] = InTree(o) + Runs(o) + Cardinality(Adders(o)) + Cardinality(Users(o))
      BY RetainIs DEF RetainInv
    <2>3. /\ Cardinality(Adders(o)) \in Int /\ Cardinality(Users(o)) \in Int
          /\ Runs(o) \in Int /\ Runs(o)' \in Int /\ InTree(o) \in Int /\ InTree(o)' \in Int
          /\ retain[o] \in Int /\ retain'[o] \in Int
      BY <1>3, <1>4, UsersFinite DEF Runs, InTree
    <2>4. retain'[o] - InTree(o)' - Runs(o)' = retain[o] - InTree(o) - Runs(o)
      BY <1>4
    <2>5. retain'[o] = InTree(o)' + Runs(o)' + Cardinality(Adders(o)) + Cardinality(Users(o))
      <3>1. retain[o] - InTree(o) - Runs(o) = Cardinality(Adders(o)) + Cardinality(Users(o))
        BY <2>2, <2>3
      <3>2. retain'[o] - InTree(o)' - Runs(o)' = Cardinality(Adders(o)) + Cardinality(Users(o))
        BY <2>4, <3>1
      <3>3. QED
        BY <2>3, <3>2
    <2>6. QED
      BY <2>1, <2>5
  <1>7. QED
    BY <1>2, <1>5, <1>6, SettledHolders
       DEF RetainInv, ExactCounts, InTree, Runs, Adders, Users

LEMMA DeleteRetain ==
  ASSUME RetainInv, Inv', IsFiniteSet(Threads), RunDelete
  PROVE  RetainInv'
  <1>1. /\ passthru_rbt' = {}
        /\ retain' = [o \in Object |-> IF o \in passthru_rbt THEN retain[o] - 1 ELSE retain[o]]
        /\ UNCHANGED <<kind, object, pc, new, running>>
    BY DEF RunDelete
  <1>2. Settled
    BY <1>1 DEF Settled, RetainInv, Holders, Unused
  <1>3. RetainShape'
    BY <1>1 DEF RetainInv, RetainShape
  <1>4. ASSUME NEW o \in Object
        PROVE  retain'[o] = InTree(o)' + Runs(o)' + Cardinality(Adders(o)') + Cardinality(Users(o)')
    <2>1. Adders(o)' = Adders(o) /\ Users(o)' = Users(o) /\ Runs(o)' = Runs(o)
      BY <1>1 DEF Adders, Users, Runs
    <2>2. retain[o] = InTree(o) + Runs(o) + Cardinality(Adders(o)) + Cardinality(Users(o))
      BY RetainIs DEF RetainInv
    <2>3. retain'[o] = retain[o] - InTree(o) /\ InTree(o)' = 0
      BY <1>1 DEF InTree, RetainInv, RetainShape
    <2>4. /\ Cardinality(Adders(o)) \in Int /\ Cardinality(Users(o)) \in Int
          /\ Runs(o) \in Int /\ InTree(o) \in Int /\ retain[o] \in Int
      BY UsersFinite DEF Runs, InTree, RetainInv, RetainShape
    <2>5. QED
      BY <2>1, <2>2, <2>3, <2>4
  <1>5. QED
    BY <1>2, <1>3, <1>4, SettledHolders
       DEF RetainInv, ExactCounts, InTree, Runs, Adders, Users

\* A request begins to use an object, or ends its use.
LEMMA UseRetain ==
  ASSUME RetainInv, Inv', IsFiniteSet(Threads), NEW t \in Threads, NEW v \in Object \cup {NULL},
         object[t] = NULL \/ v = NULL,
         v # NULL => kind[v] # "unmade",
         retain' = IF v = NULL THEN Release(retain, object[t]) ELSE Retained(retain, v),
         object' = [object EXCEPT ![t] = v],
         NEW w \in Uses \cup {"idle"}, w = "idle" => v = NULL,
         pc[t] # "add", pc' = [pc EXCEPT ![t] = w],
         UNCHANGED <<kind, running, passthru_rbt, new>>
  PROVE  RetainInv'
  <1>1. /\ pc'[t] = w /\ object'[t] = v
        /\ \A u \in Threads \ {t} : pc'[u] = pc[u] /\ object'[u] = object[u]
    BY DEF RetainInv, Inv, Shape, RetainShape
  <1>2. Settled
    <2>1. w \notin {"add", "answer", "start", "close", "count", "closed"}
      BY DEF Uses
    <2>2. \A u \in Threads : pc'[u] \in {"add", "answer", "start"} =>
            pc[u] \in {"add", "answer", "start"} /\ new'[u] = new[u]
      BY <1>1, <2>1
    <2>3. \A u \in Threads : pc'[u] \in Unused => object'[u] = NULL
      BY <1>1, <2>1 DEF RetainInv, Holders, Unused
    <2>4. QED
      BY <1>1, <2>2, <2>3 DEF Settled
  <1>3. retain \in [Object -> Int] /\ object[t] \in Object \cup {NULL}
    BY DEF RetainInv, RetainShape
  <1>4. RetainShape'
    <2>1. Release(retain, object[t]) \in [Object -> Int] /\ Retained(retain, v) \in [Object -> Int]
      BY <1>3 DEF Release, Retained
    <2>2. retain' \in [Object -> Int]
      BY <2>1
    <2>3. QED
      BY <2>2 DEF RetainInv, RetainShape
  <1>5. ASSUME NEW o \in Object
        PROVE  retain'[o] = InTree(o)' + Runs(o)' + Cardinality(Adders(o)') + Cardinality(Users(o)')
    <2>1. InTree(o)' = InTree(o) /\ Runs(o)' = Runs(o)
      BY DEF InTree, Runs
    <2>2. Adders(o)' = Adders(o)
      <3>1. w # "add"
        BY DEF Uses
      <3>2. QED
        BY <1>1, <3>1 DEF Adders
    <2>3. retain'[o] = retain[o] + (IF v = o THEN 1 ELSE 0) - (IF object[t] = o THEN 1 ELSE 0)
      <3>1. NULL # o
        BY DEF NULL, Object
      <3>2. CASE v = NULL
        <4>1. Release(retain, object[t])[o] = retain[o] - (IF object[t] = o THEN 1 ELSE 0)
          BY <1>3, ReleaseIs
        <4>2. QED
          BY <1>3, <3>1, <3>2, <4>1
      <3>3. CASE v # NULL
        <4>1. Retained(retain, v)[o] = retain[o] + (IF v = o THEN 1 ELSE 0)
          BY <1>3, ReleaseIs
        <4>2. QED
          BY <1>3, <3>1, <3>3, <4>1
      <3>4. QED
        BY <3>2, <3>3
    <2>4. Cardinality(Users(o)') = Cardinality(Users(o)) + (IF v = o THEN 1 ELSE 0)
                                   - (IF object[t] = o THEN 1 ELSE 0)
      BY UserChange DEF RetainInv
    <2>5. retain[o] = InTree(o) + Runs(o) + Cardinality(Adders(o)) + Cardinality(Users(o))
      BY RetainIs DEF RetainInv
    <2>6. /\ Cardinality(Adders(o)) \in Int /\ Cardinality(Users(o)) \in Int
          /\ Runs(o) \in Int /\ InTree(o) \in Int /\ retain[o] \in Int
      BY <1>3, UsersFinite DEF Runs, InTree
    <2>7. QED
      BY <2>1, <2>2, <2>3, <2>4, <2>5, <2>6
  <1>6. QED
    BY <1>2, <1>4, <1>5, SettledHolders
       DEF RetainInv, ExactCounts, InTree, Runs, Adders, Users

LEMMA HandlerRetain ==
  ASSUME RetainInv, Inv', IsFiniteSet(Threads), NEW t \in Threads, Handler(t)
  PROVE  RetainInv'
  <1>1. CASE CloseRemoves(t)
    <2>1. new[t] \in Object
      BY <1>1 DEF CloseRemoves, RetainInv, Inv, Pathed
    <2>2. /\ RemoveIdentifier(pid[t], new[t]) /\ pc[t] # "add" /\ object[t] = NULL
          /\ \E w \in {"count", "closed"} : pc' = [pc EXCEPT ![t] = w]
          /\ UNCHANGED <<kind, running, object, new>>
      BY <1>1 DEF CloseRemoves, RetainInv, Holders, Unused
    <2>3. QED
      BY <2>1, <2>2, RemovesRetain
  <1>2. CASE ReleaseNode(t)
    <2>1. object[t] \in Object \cup {NULL}
      BY DEF RetainInv, RetainShape
    <2>2. /\ RemoveIdentifier(pid[t], object[t]) /\ pc[t] # "add"
          /\ pc' = [pc EXCEPT ![t] = "end"]
          /\ UNCHANGED <<kind, running, object, new>>
      BY <1>2 DEF ReleaseNode, RemoveIdentifier, Removes, Release
    <2>3. CASE object[t] \in Object
      BY <2>2, <2>3, RemovesRetain
    <2>4. CASE object[t] \notin Object
      <3>1. ~Removes(pid[t], object[t])
        BY <2>4 DEF Removes, RetainInv, Inv, Shape
      <3>2. UNCHANGED <<passthru_rbt, retain>>
        BY <2>2, <3>1 DEF RemoveIdentifier
      <3>3. \A u \in Threads : pc'[u] = IF u = t THEN "end" ELSE pc[u]
        BY <2>2 DEF RetainInv, Inv, Shape
      <3>4. Settled
        BY <2>2, <3>3 DEF Settled, RetainInv, Holders, Unused
      <3>5. QED
        BY <2>2, <3>2, <3>3, <3>4, UncountedRetain
    <2>5. QED
      BY <2>3, <2>4
  <1>3. CASE CloseCounts(t) \/ CloseEnds(t)
    <2>1. /\ pc[t] \in {"count", "closed"}
          /\ \A u \in Threads : pc'[u] = IF u = t THEN pc'[t] ELSE pc[u]
          /\ pc'[t] \in {"closed", "idle"} /\ (pc'[t] = "idle" => pc[t] = "closed")
          /\ \A u \in Threads \ {t} : new'[u] = new[u]
          /\ UNCHANGED <<kind, passthru_rbt, running, retain, object>>
      BY <1>3 DEF CloseCounts, CloseEnds, RetainInv, Inv, Shape
    <2>2. object[t] = NULL
      BY <2>1 DEF RetainInv, Holders, Unused
    <2>3. Settled
      BY <2>1, <2>2 DEF Settled, RetainInv, Holders, Unused
    <2>4. QED
      BY <2>1, <2>3, UncountedRetain
  <1>4. CASE OpenNode(t)
    <2>1. /\ pc[t] \notin {"add", "answer", "start"} /\ Make(t, pid[t], "node", NoPath)
          /\ UNCHANGED <<passthru_rbt, running, object>>
      BY <1>4 DEF OpenNode
    <2>2. QED
      BY <2>1, MakeRetain DEF Kind
  <1>5. CASE CreateQuery(t)
    <2>1. /\ pc[t] \notin {"add", "answer", "start"} /\ Make(t, pid[t], "query", NoPath)
          /\ UNCHANGED <<passthru_rbt, running, object>>
      BY <1>5 DEF CreateQuery
    <2>2. QED
      BY <2>1, MakeRetain DEF Kind
  <1>6. CASE EndRequest(t)
    <2>1. /\ pc[t] # "add" /\ pc' = [pc EXCEPT ![t] = "idle"]
          /\ retain' = Release(retain, object[t]) /\ object' = [object EXCEPT ![t] = NULL]
          /\ UNCHANGED <<kind, running, passthru_rbt, new>>
      BY <1>6 DEF EndRequest, Release
    <2>2. QED
      BY <2>1, UseRetain
  <1>7. CASE AnswerQuery(t)
    <2>1. /\ pc[t] = "answer" /\ \A u \in Threads : pc'[u] = IF u = t THEN "start" ELSE pc[u]
          /\ UNCHANGED <<kind, passthru_rbt, running, retain, object, new>>
      BY <1>7 DEF AnswerQuery, RetainInv, Inv, Shape
    <2>2. Settled
      BY <2>1 DEF Settled, RetainInv, Holders, Unused
    <2>3. QED
      BY <2>1, <2>2, UncountedRetain
  <1>8. QED
    BY <1>1, <1>2, <1>3, <1>4, <1>5, <1>6, <1>7, AddRetain, AnswerRetain DEF Handler


LEMMA NextRetain ==
  ASSUME IsFiniteSet(Threads)
  PROVE  RetainInv /\ [Next]_vars => RetainInv'
  <1> SUFFICES ASSUME RetainInv, [Next]_vars PROVE RetainInv'
    OBVIOUS
  <1>0. Inv'
    BY NextInv DEF RetainInv
  <1>1. ASSUME NEW t \in Threads, Handler(t) PROVE RetainInv'
    BY <1>0, <1>1, HandlerRetain
  <1>2. ASSUME NEW t \in Threads, NEW p \in Pids, CreateProxySession(t, p) PROVE RetainInv'
    <2>1. /\ pc[t] \notin {"add", "answer", "start"} /\ Make(t, p, "session", NoPath)
          /\ UNCHANGED <<passthru_rbt, running, object>>
      BY <1>2 DEF CreateProxySession, Receive
    <2>2. QED
      BY <1>0, <2>1, MakeRetain DEF Kind
  <1>3. ASSUME NEW t \in Threads, NEW p \in Pids, NEW where \in LocalPaths,
               CreateLocalSession(t, p, where)
        PROVE  RetainInv'
    <2>1. pc[t] \notin {"add", "answer", "start"} /\ UNCHANGED <<passthru_rbt, running, object>>
      BY <1>3 DEF CreateLocalSession, Receive
    <2>2. CASE Make(t, p, "session", where)
      BY <1>0, <2>1, <2>2, MakeRetain DEF Kind
    <2>3. CASE UNCHANGED <<objects, new, pc>>
      <3>1. Settled
        BY <2>1, <2>3 DEF Settled, RetainInv, Holders, Unused
      <3>2. QED
        BY <1>0, <2>1, <2>3, <3>1, UncountedRetain
    <2>4. QED
      BY <1>3, <2>2, <2>3 DEF CreateLocalSession
  <1>4. ASSUME NEW t \in Threads, NEW p \in Pids, NEW o \in answered, BeginClose(t, p, o)
        PROVE  RetainInv'
    <2>1. /\ pc[t] = "idle" /\ object[t] = NULL
          /\ \A u \in Threads : pc'[u] = IF u = t THEN "close" ELSE pc[u]
          /\ \A u \in Threads \ {t} : new'[u] = new[u]
          /\ UNCHANGED <<kind, passthru_rbt, running, retain, object>>
      BY <1>4 DEF BeginClose, Receive, RetainInv, Holders, Unused, Inv, Shape
    <2>2. Settled
      BY <2>1 DEF Settled, RetainInv, Holders, Unused
    <2>3. QED
      BY <1>0, <2>1, <2>2, UncountedRetain
  <1>5. ASSUME NEW t \in Threads, NEW p \in Pids, NEW o \in answered, NEW use \in Uses,
               BeginRequest(t, p, o, use)
        PROVE  RetainInv'
    <2>1. /\ pc[t] = "idle" /\ object[t] = NULL
          /\ UNCHANGED <<kind, passthru_rbt, running, new>>
      BY <1>5 DEF BeginRequest, Receive, RetainInv, Holders, Unused
    <2>2. CASE o \in passthru_rbt /\ owner[o] = p
      <3>1. o \in Object /\ kind[o] # "unmade"
        BY <2>2 DEF RetainInv, Inv, Shape, Makers
      <3>2. /\ retain' = Retained(retain, o) /\ object' = [object EXCEPT ![t] = o]
            /\ pc' = [pc EXCEPT ![t] = use]
        BY <1>5, <2>2 DEF BeginRequest
      <3>3. o # NULL /\ use # "idle"
        BY <3>1 DEF Object, NULL, Uses
      <3>4. QED
        BY <1>0, <2>1, <3>1, <3>2, <3>3, UseRetain
    <2>3. CASE ~(o \in passthru_rbt /\ owner[o] = p)
      <3>1. UNCHANGED <<retain, object, pc>>
        BY <1>5, <2>3 DEF BeginRequest
      <3>2. Settled
        BY <2>1, <3>1 DEF Settled, RetainInv, Holders, Unused
      <3>3. QED
        BY <1>0, <2>1, <3>1, <3>2, UncountedRetain
    <2>4. QED
      BY <2>2, <2>3
  <1>6. ASSUME NEW q \in running, EndQuery(q) PROVE RetainInv'
    BY <1>0, <1>6, EndQueryRetain
  <1>7. ASSUME UNCHANGED <<kind, passthru_rbt, running, retain, object, pc, new>>
        PROVE  RetainInv'
    <2>1. Settled
      BY <1>7 DEF Settled, RetainInv, Holders, Unused
    <2>2. QED
      BY <1>0, <1>7, <2>1, UncountedRetain
  <1>8. ASSUME NEW p \in Pids, PidDies(p) PROVE RetainInv'
    BY <1>7, <1>8 DEF PidDies
  <1>9. CASE RunDelete
    BY <1>0, <1>9, DeleteRetain
  <1>10. CASE UNCHANGED vars
    BY <1>7, <1>10 DEF vars
  <1>11. QED
    BY <1>1, <1>2, <1>3, <1>4, <1>5, <1>6, <1>8, <1>9, <1>10 DEF Next, Rest

LEMMA InitRetain ==
  ASSUME IsFiniteSet(Threads)
  PROVE  Init => RetainInv
  <1> SUFFICES ASSUME Init PROVE RetainInv
    OBVIOUS
  <1>1. RetainShape /\ Holders
    BY DEF Init, RetainShape, Holders, Unused, Users, NULL, Object
  <1>2. \A o \in Object : InTree(o) = 0 /\ Runs(o) = 0 /\ Adders(o) = {} /\ Users(o) = {}
    BY DEF Init, InTree, Runs, Adders, Users, NULL, Object
  <1>3. \A o \in Object : Cardinality(Adders(o)) = 0 /\ Cardinality(Users(o)) = 0
    BY <1>2, FS_EmptySet
  <1>4. ExactCounts
    BY <1>2, <1>3, RetainIs DEF Init
  <1>5. QED
    BY <1>1, <1>4, InitInv DEF RetainInv

\* CoreFoundation's counts are exact (Server/od_passthru.cpp): the tree, a maker
\* that has not added its object, the requests and the running query each hold one
\* reference and release it once, however deletions, releases and ends of queries
\* cross; and the handler that starts a query, which holds none, uses one that is
\* not freed, unless a deletion takes the query before it is retained.
THEOREM RetainCorrect ==
  ASSUME IsFiniteSet(Threads)
  PROVE  Spec => []RetainCountsExact
  <1>1. Init => RetainInv
    BY InitRetain
  <1>2. RetainInv /\ [Next]_vars => RetainInv'
    BY NextRetain
  <1>3. RetainInv => RetainCountsExact
    BY CountsServe
  <1>4. QED
    BY <1>1, <1>2, <1>3, PTL DEF Spec


-----------------------------------------------------------------------------
(***************************************************************************)
(* The shape of the state.                                                 *)
(***************************************************************************)
RestOK ==
  /\ gDSLocalOnlyMode \in Modes
  /\ deletes \in Seq(Pids)
  /\ sessionQueue \in Threads \cup {Free}
  /\ localonlyPath \in LocalPaths \cup {NoPath}
  /\ owner \in [Object -> Pids \cup {NULL}]
  /\ pid \in [Threads -> Pids \cup {NULL}]
  /\ alive \subseteq Pids /\ requests \in 0..MaxRequests
  /\ \A t \in Threads : pc[t] \in Where \ {"idle"} => pid[t] \in Pids

LEMMA MakeOwner ==
  ASSUME owner \in [Object -> Pids \cup {NULL}], NEW t, NEW p \in Pids, NEW k, NEW where,
         Make(t, p, k, where)
  PROVE  owner' \in [Object -> Pids \cup {NULL}] /\ pc' = [pc EXCEPT ![t] = "add"]
  BY DEF Make

LEMMA NextRest == Shape /\ RestOK /\ [Next]_vars => RestOK'
  <1> SUFFICES ASSUME Shape, RestOK, [Next]_vars PROVE RestOK'
    OBVIOUS
  <1> USE DEF RestOK
  <1>0. pc \in [Threads -> Where]
    BY DEF Shape
  <1>1. ASSUME NEW t \in Threads, Handler(t) PROVE RestOK'
    <2>1. CASE \/ Add(t) \/ Answer(t) \/ AnswerQuery(t) \/ StartQuery(t)
               \/ CloseRemoves(t) \/ EndRequest(t) \/ ReleaseNode(t)
      BY <1>0, <2>1 DEF Add, Answer, AnswerQuery, StartQuery, CloseRemoves, EndRequest, ReleaseNode, Where, Uses
    <2>2. CASE CloseCounts(t)
      <3>1. pid[t] \in Pids
        BY <1>0, <2>2 DEF CloseCounts, Where
      <3>2. deletes' \in Seq(Pids)
        <4>1. deletes' \in {deletes, Append(deletes, pid[t])}
          BY <2>2 DEF CloseCounts
        <4>2. Append(deletes, pid[t]) \in Seq(Pids)
          BY <3>1
        <4>3. QED
          BY <4>1, <4>2
      <3>3. QED
        BY <1>0, <2>2, <3>2 DEF CloseCounts, Where
    <2>3. CASE CloseEnds(t)
      BY <1>0, <2>3 DEF CloseEnds, Where, Free
    <2>4. CASE OpenNode(t) \/ CreateQuery(t)
      <3>1. pid[t] \in Pids
        BY <1>0, <2>4 DEF OpenNode, CreateQuery, Where, Uses
      <3>2. owner' \in [Object -> Pids \cup {NULL}] /\ pc' = [pc EXCEPT ![t] = "add"]
        BY <2>4, <3>1, MakeOwner DEF OpenNode, CreateQuery
      <3>3. QED
        BY <1>0, <2>4, <3>1, <3>2 DEF OpenNode, CreateQuery
    <2>5. QED
      BY <1>1, <2>1, <2>2, <2>3, <2>4 DEF Handler
  <1>2. ASSUME NEW t \in Threads, NEW p \in Pids, Receive(t, p)
        PROVE  /\ pid' = [pid EXCEPT ![t] = p] /\ pid' \in [Threads -> Pids \cup {NULL}]
               /\ requests' \in 0..MaxRequests /\ alive' \subseteq Pids
               /\ gDSLocalOnlyMode' \in Modes
    BY <1>2 DEF Receive
  <1>3. ASSUME NEW t \in Threads, NEW p \in Pids, CreateProxySession(t, p) PROVE RestOK'
    <2>1. owner' \in [Object -> Pids \cup {NULL}] /\ pc' = [pc EXCEPT ![t] = "add"]
      BY <1>3, MakeOwner DEF CreateProxySession
    <2>2. Receive(t, p) /\ UNCHANGED <<deletes, sessionQueue, localonlyPath>>
      BY <1>3 DEF CreateProxySession
    <2>3. QED
      BY <1>0, <1>2, <2>1, <2>2
  <1>4. ASSUME NEW t \in Threads, NEW p \in Pids, NEW where \in LocalPaths,
               CreateLocalSession(t, p, where)
        PROVE  RestOK'
    <2>1. Receive(t, p) /\ UNCHANGED <<deletes, sessionQueue>>
      BY <1>4 DEF CreateLocalSession
    <2>2. localonlyPath' \in LocalPaths \cup {NoPath}
      BY <1>4 DEF CreateLocalSession
    <2>3. owner' \in [Object -> Pids \cup {NULL}]
      BY <1>4, MakeOwner DEF CreateLocalSession
    <2>4. pc' = pc \/ pc' = [pc EXCEPT ![t] = "add"]
      BY <1>4, MakeOwner DEF CreateLocalSession
    <2>5. QED
      BY <1>0, <1>2, <2>1, <2>2, <2>3, <2>4
  <1>5. ASSUME NEW t \in Threads, NEW p \in Pids, NEW o \in answered, BeginClose(t, p, o)
        PROVE  RestOK'
    BY <1>0, <1>2, <1>5 DEF BeginClose
  <1>6. ASSUME NEW t \in Threads, NEW p \in Pids, NEW o \in answered, NEW use \in Uses,
               BeginRequest(t, p, o, use)
        PROVE  RestOK'
    <2>1. /\ Receive(t, p) /\ UNCHANGED <<deletes, sessionQueue, localonlyPath, owner>>
          /\ (pc' = pc \/ pc' = [pc EXCEPT ![t] = use])
      BY <1>6 DEF BeginRequest
    <2>2. QED
      BY <1>0, <1>2, <2>1
  <1>7. ASSUME NEW q \in running, EndQuery(q) PROVE RestOK'
    BY <1>7 DEF EndQuery
  <1>8. ASSUME NEW p \in Pids, PidDies(p) PROVE RestOK'
    BY <1>8 DEF PidDies
  <1>9. CASE RunDelete
    BY <1>9 DEF RunDelete
  <1>10. CASE UNCHANGED vars
    BY <1>10 DEF vars
  <1>11. QED
    BY <1>1, <1>3, <1>4, <1>5, <1>6, <1>7, <1>8, <1>9, <1>10 DEF Next, Rest

LEMMA NextMisused == misused \in BOOLEAN /\ [Next]_vars => misused' \in BOOLEAN
  <1> SUFFICES ASSUME misused \in BOOLEAN, [Next]_vars PROVE misused' \in BOOLEAN
    OBVIOUS
  <1>1. ASSUME NEW t \in Threads, AnswerQuery(t) \/ StartQuery(t) PROVE misused' \in BOOLEAN
    BY <1>1, Zenon DEF AnswerQuery, StartQuery
  <1>2. ASSUME NEW t \in Threads, Handler(t) PROVE misused' \in BOOLEAN
    <2>1. CASE misused' = misused
      BY <2>1
    <2>2. CASE AnswerQuery(t) \/ StartQuery(t)
      BY <1>1, <2>2
    <2>3. QED
      BY <1>2, <2>1, <2>2, Zenon
         DEF Handler, Add, Answer, CloseRemoves, CloseCounts, CloseEnds, OpenNode,
             CreateQuery, ReleaseNode, EndRequest
  <1>3. ASSUME misused' = misused PROVE misused' \in BOOLEAN
    BY <1>3
  <1>4. QED
    BY <1>2, <1>3, Zenon
       DEF Next, Rest, vars, RunDelete, PidDies, EndQuery, BeginRequest, BeginClose,
           CreateProxySession, CreateLocalSession

\* The state of the pass-through (Server/od_passthru.cpp) is well formed; above
\* all no reference count drops below zero: no object is released twice.
THEOREM TypeCorrect ==
  ASSUME IsFiniteSet(Threads)
  PROVE  Spec => []TypeOK
  <1>1. Init => RetainInv /\ RestOK /\ misused \in BOOLEAN
    <2>1. Init => RestOK
      BY DEF Init, RestOK, Where
    <2>2. Init => misused \in BOOLEAN
      BY Zenon DEF Init
    <2>3. QED
      BY <2>1, <2>2, InitRetain
  <1>2. RetainInv /\ RestOK /\ misused \in BOOLEAN /\ [Next]_vars
          => (RetainInv /\ RestOK /\ misused \in BOOLEAN)'
    BY NextRetain, NextRest, NextMisused DEF RetainInv, Inv
  <1>3. RetainInv /\ RestOK /\ misused \in BOOLEAN => TypeOK
    <2>1. ASSUME RetainInv, NEW o \in Object
          PROVE  retain[o] \in Nat
      <3>1. retain[o] = InTree(o) + Runs(o) + Cardinality(Adders(o)) + Cardinality(Users(o))
        BY <2>1, RetainIs DEF RetainInv
      <3>2. InTree(o) \in Nat /\ Runs(o) \in Nat
        BY DEF InTree, Runs
      <3>3. QED
        BY <3>1, <3>2, UsersFinite
    <2>2. RetainInv => retain \in [Object -> Nat]
      BY <2>1 DEF RetainInv, RetainShape
    <2>3. QED
      BY <2>2 DEF RetainInv, RetainShape, Inv, Shape, RestOK, TypeOK, Where
  <1>4. QED
    BY <1>1, <1>2, <1>3, PTL DEF Spec


-----------------------------------------------------------------------------
(***************************************************************************)
(* The count of local-only sessions.                                       *)
(***************************************************************************)
\* While no process has died and no query been made ...
Plain == gDSLocalOnlyMode /\ alive = Pids /\ \A o \in Object : kind[o] # "query"

\* ... a deletion is submitted by the last close alone: it finds no session, nor
\* is one added before it runs.
NothingToDelete == deletes # << >> => Sessions = {}

\* Queries run, nodes are released.
Kinds ==
  /\ \A q \in running : kind[q] = "query"
  /\ \A t \in Threads : pc[t] = "start" => kind[new[t]] = "query"
  /\ \A t \in Threads : pc[t] = "release_node" =>
       object[t] \in Object /\ kind[object[t]] = "node"

CountIs == localOnlyCount = Cardinality(Sessions) + Cardinality(Adding) + Cardinality(Closing)

SessionInv == Inv /\ RetainShape /\ Kinds /\ (Plain => CountIs /\ NothingToDelete)

LEMMA SessionsFinite ==
  ASSUME Shape, IsFiniteSet(Threads)
  PROVE  /\ IsFiniteSet(Sessions) /\ Cardinality(Sessions) \in Nat
         /\ IsFiniteSet(Adding) /\ Cardinality(Adding) \in Nat
         /\ IsFiniteSet(Closing) /\ Cardinality(Closing) \in Nat
  <1>1. IsFiniteSet(Object)
    BY FS_Interval DEF Object
  <1>2. Sessions \in SUBSET Object /\ Adding \in SUBSET Threads /\ Closing \in SUBSET Threads
    BY DEF Shape, Sessions, Adding, Closing
  <1>3. QED
    BY <1>1, <1>2, FS_Subset, FS_CardinalityType

\* A step that makes, adds, removes and counts no session.
LEMMA SameSessions ==
  ASSUME SessionInv, Inv', RetainShape', Kinds', Plain' => Plain,
         Plain => /\ Sessions' = Sessions /\ Adding' = Adding /\ Closing' = Closing
                  /\ localOnlyCount' = localOnlyCount
                  /\ (deletes' # << >> => deletes # << >>)
  PROVE  SessionInv'
  BY DEF SessionInv, CountIs, NothingToDelete

LEMMA MakeSessions ==
  ASSUME SessionInv, Inv', RetainShape', IsFiniteSet(Threads), NEW t \in Threads, NEW p,
         NEW k \in Kind, NEW where, Make(t, p, k, where), pc[t] # "count",
         UNCHANGED <<passthru_rbt, running, object, deletes, gDSLocalOnlyMode, alive>>,
         gDSLocalOnlyMode /\ pc[t] # "add" =>
           localOnlyCount' = IF k = "session" THEN localOnlyCount + 1 ELSE localOnlyCount,
         pc[t] # "add"
  PROVE  SessionInv'
  <1>1. PICK o \in Object :
          /\ kind[o] = "unmade" /\ kind' = [kind EXCEPT ![o] = k]
          /\ new' = [new EXCEPT ![t] = o] /\ pc' = [pc EXCEPT ![t] = "add"]
    BY DEF Make
  <1>2. /\ pc'[t] = "add" /\ new'[t] = o
        /\ \A u \in Threads \ {t} : pc'[u] = pc[u] /\ new'[u] = new[u]
        /\ kind'[o] = k /\ \A q \in Object \ {o} : kind'[q] = kind[q]
    BY <1>1 DEF SessionInv, Inv, Shape
  <1>3. o \notin passthru_rbt /\ \A u \in Threads : pc[u] = "add" => new[u] \in Object \ {o}
    BY <1>1 DEF SessionInv, Inv, Makers, Shape
  <1>4. Kinds'
    BY <1>1, <1>2 DEF SessionInv, Kinds, RetainShape
  <1>5. Plain' => Plain
    BY <1>1, <1>2 DEF Plain
  <1>6. Sessions' = Sessions /\ Closing' = Closing
    BY <1>2, <1>3 DEF Sessions, Closing, SessionInv, Inv, Shape
  <1>7. CASE k = "session"
    <2>1. Adding' = Adding \cup {t} /\ t \notin Adding
      BY <1>2, <1>3, <1>7 DEF Adding
    <2>2. Cardinality(Adding') = Cardinality(Adding) + 1
      BY <2>1, OneMore, SessionsFinite DEF SessionInv, Inv
    <2>3. Plain => CountIs'
      <3>1. Plain => localOnlyCount' = localOnlyCount + 1
        BY <1>7 DEF Plain
      <3>2. QED
        BY <1>6, <2>2, <3>1, SessionsFinite DEF SessionInv, Inv, CountIs
    <2>4. QED
      BY <1>4, <1>5, <1>6, <2>3 DEF SessionInv, NothingToDelete
  <1>8. CASE k # "session"
    <2>1. Adding' = Adding
      BY <1>2, <1>3, <1>8 DEF Adding
    <2>2. Plain => localOnlyCount' = localOnlyCount
      BY <1>8 DEF Plain
    <2>3. QED
      BY <1>4, <1>5, <1>6, <2>1, <2>2, SameSessions
  <1>9. QED
    BY <1>7, <1>8

LEMMA AddSessions ==
  ASSUME SessionInv, Inv', RetainShape', IsFiniteSet(Threads), NEW t \in Threads, Add(t)
  PROVE  SessionInv'
  <1>1. /\ pc[t] = "add" /\ deletes = << >> /\ passthru_rbt' = passthru_rbt \cup {new[t]}
        /\ pc' = [pc EXCEPT ![t] = "answer"]
        /\ UNCHANGED <<kind, running, object, new, deletes, gDSLocalOnlyMode, alive,
                       localOnlyCount>>
    BY DEF Add
  <1>2. pc'[t] = "answer" /\ \A u \in Threads \ {t} : pc'[u] = pc[u]
    BY <1>1 DEF SessionInv, Inv, Shape
  <1>3. new[t] \in Object /\ new[t] \notin passthru_rbt
    BY <1>1 DEF SessionInv, Inv, Makers, Shape
  <1>4. Kinds' /\ (Plain' => Plain) /\ NothingToDelete'
    BY <1>1, <1>2 DEF SessionInv, Kinds, Plain, NothingToDelete
  <1>5. Closing' = Closing
    BY <1>1, <1>2 DEF Closing
  <1>6. CASE kind[new[t]] = "session"
    <2>1. Sessions' = Sessions \cup {new[t]} /\ new[t] \notin Sessions
      BY <1>1, <1>3, <1>6 DEF Sessions
    <2>2. Adding' = Adding \ {t} /\ t \in Adding
      BY <1>1, <1>2, <1>6 DEF Adding
    <2>3. /\ Cardinality(Sessions') = Cardinality(Sessions) + 1
          /\ Cardinality(Adding') = Cardinality(Adding) - 1
      BY <2>1, <2>2, OneMore, OneLess, SessionsFinite DEF SessionInv, Inv
    <2>4. Plain => CountIs'
      BY <1>1, <1>5, <2>3, SessionsFinite DEF SessionInv, Inv, CountIs
    <2>5. QED
      BY <1>4, <2>4 DEF SessionInv
  <1>7. CASE kind[new[t]] # "session"
    <2>1. Sessions' = Sessions /\ Adding' = Adding
      BY <1>1, <1>2, <1>7 DEF Sessions, Adding
    <2>2. QED
      BY <1>1, <1>4, <1>5, <2>1, SameSessions
  <1>8. QED
    BY <1>6, <1>7

LEMMA CloseRemovesSessions ==
  ASSUME SessionInv, Inv', RetainShape', IsFiniteSet(Threads), NEW t \in Threads,
         CloseRemoves(t)
  PROVE  SessionInv'
  <1>1. /\ pc[t] = "close" /\ deletes = << >> /\ RemoveIdentifier(pid[t], new[t])
        /\ pc' = [pc EXCEPT ![t] = IF Removes(pid[t], new[t]) /\ gDSLocalOnlyMode
                                     THEN "count" ELSE "closed"]
        /\ UNCHANGED <<kind, running, object, new, deletes, gDSLocalOnlyMode, alive,
                       localOnlyCount>>
    BY DEF CloseRemoves
  <1>2. \A u \in Threads \ {t} : pc'[u] = pc[u]
    BY <1>1 DEF SessionInv, Inv, Shape
  <1>3. kind[new[t]] = "session"
    BY <1>1 DEF SessionInv, Inv, Pathed
  <1>4. pc'[t] \in {"count", "closed"}
    BY <1>1 DEF SessionInv, Inv, Shape
  <1>5. Kinds' /\ (Plain' => Plain) /\ NothingToDelete' /\ Adding' = Adding
    BY <1>1, <1>2, <1>4 DEF SessionInv, Kinds, Plain, NothingToDelete, Adding
  <1>6. CASE Removes(pid[t], new[t]) /\ gDSLocalOnlyMode
    <2>1. /\ pc'[t] = "count" /\ new[t] \in passthru_rbt
          /\ passthru_rbt' = passthru_rbt \ {new[t]}
      BY <1>1, <1>6 DEF Removes, RemoveIdentifier, SessionInv, Inv, Shape
    <2>2. Sessions' = Sessions \ {new[t]} /\ new[t] \in Sessions
      BY <1>1, <1>3, <2>1 DEF Sessions
    <2>3. Closing' = Closing \cup {t} /\ t \notin Closing
      BY <1>1, <1>2, <2>1 DEF Closing
    <2>4. /\ Cardinality(Sessions') = Cardinality(Sessions) - 1
          /\ Cardinality(Closing') = Cardinality(Closing) + 1
      BY <2>2, <2>3, OneMore, OneLess, SessionsFinite DEF SessionInv, Inv
    <2>5. Plain => CountIs'
      BY <1>1, <1>5, <2>4, SessionsFinite DEF SessionInv, Inv, CountIs
    <2>6. QED
      BY <1>5, <2>5 DEF SessionInv
  <1>7. CASE ~gDSLocalOnlyMode
    BY <1>1, <1>5, <1>7 DEF SessionInv, Plain
  <1>8. CASE gDSLocalOnlyMode /\ ~Removes(pid[t], new[t])
    <2>1. passthru_rbt' = passthru_rbt /\ pc'[t] = "closed"
      BY <1>1, <1>8 DEF RemoveIdentifier, SessionInv, Inv, Shape
    <2>2. Sessions' = Sessions /\ Closing' = Closing
      BY <1>1, <1>2, <2>1 DEF Sessions, Closing
    <2>3. QED
      BY <1>1, <1>5, <2>2, SameSessions
  <1>9. QED
    BY <1>6, <1>7, <1>8

\* The last close of a session finds none left.
LEMMA CloseCountsSessions ==
  ASSUME SessionInv, Inv', RetainShape', IsFiniteSet(Threads), NEW t \in Threads,
         CloseCounts(t)
  PROVE  SessionInv'
  <1>1. /\ pc[t] = "count" /\ localOnlyCount' = localOnlyCount - 1
        /\ localOnlyCount' # 0 => deletes' = deletes
        /\ pc' = [pc EXCEPT ![t] = "closed"]
        /\ UNCHANGED <<passthru_rbt, kind, running, object, new, gDSLocalOnlyMode, alive>>
    BY DEF CloseCounts
  <1>2. pc'[t] = "closed" /\ \A u \in Threads \ {t} : pc'[u] = pc[u]
    BY <1>1 DEF SessionInv, Inv, Shape
  <1>3. Kinds' /\ (Plain' => Plain) /\ Adding' = Adding /\ Sessions' = Sessions
    BY <1>1, <1>2 DEF SessionInv, Kinds, Plain, Adding, Sessions
  <1>4. Closing' = Closing \ {t} /\ t \in Closing
    BY <1>1, <1>2 DEF Closing
  <1>5. Cardinality(Closing') = Cardinality(Closing) - 1 /\ Cardinality(Closing') \in Nat
    BY <1>4, OneLess, SessionsFinite, FS_RemoveElement, FS_CardinalityType DEF SessionInv, Inv
  <1>6. Plain => CountIs'
    BY <1>1, <1>3, <1>5, SessionsFinite DEF SessionInv, Inv, CountIs
  <1>7. Plain => NothingToDelete'
    <2>1. CASE localOnlyCount' # 0
      BY <1>1, <1>3, <2>1 DEF SessionInv, NothingToDelete
    <2>2. CASE localOnlyCount' = 0
      <3>1. Plain => Cardinality(Sessions) = 0
        BY <1>3, <1>5, <1>6, <2>2, SessionsFinite DEF SessionInv, Inv, CountIs
      <3>2. Plain => Sessions = {}
        BY <3>1, SessionsFinite, FS_EmptySet DEF SessionInv, Inv
      <3>3. QED
        BY <1>3, <3>2 DEF NothingToDelete
    <2>3. QED
      BY <2>1, <2>2
  <1>8. QED
    BY <1>3, <1>6, <1>7 DEF SessionInv

LEMMA HandlerSessions ==
  ASSUME SessionInv, Inv', RetainShape', IsFiniteSet(Threads), NEW t \in Threads, Handler(t)
  PROVE  SessionInv'
  <1>0. pc \in [Threads -> Where]
    BY DEF SessionInv, Inv, Shape
  <1>1. CASE Answer(t) \/ StartQuery(t)
    <2>1. /\ pc[t] \in {"answer", "start"} /\ pc' = [pc EXCEPT ![t] = "idle"]
          /\ running' \subseteq running \cup {q \in {new[t]} : pc[t] = "start"}
          /\ object' = [object EXCEPT ![t] = NULL] /\ new' = [new EXCEPT ![t] = NULL]
          /\ UNCHANGED <<passthru_rbt, kind, deletes, gDSLocalOnlyMode, alive, localOnlyCount>>
      BY <1>1 DEF Answer, StartQuery
    <2>2. pc'[t] = "idle" /\ \A u \in Threads \ {t} :
            pc'[u] = pc[u] /\ object'[u] = object[u] /\ new'[u] = new[u]
      BY <1>0, <2>1 DEF SessionInv, RetainShape, Inv, Shape
    <2>3. Kinds' /\ (Plain' => Plain)
      BY <2>1, <2>2 DEF SessionInv, Kinds, Plain
    <2>4. Sessions' = Sessions /\ Adding' = Adding /\ Closing' = Closing
      BY <2>1, <2>2 DEF Sessions, Adding, Closing
    <2>5. QED
      BY <2>1, <2>3, <2>4, SameSessions
  <1>2. CASE CloseEnds(t)
    <2>1. /\ pc[t] = "closed" /\ pc' = [pc EXCEPT ![t] = "idle"]
          /\ new' = [new EXCEPT ![t] = NULL]
          /\ UNCHANGED <<passthru_rbt, kind, running, object, deletes, gDSLocalOnlyMode, alive,
                         localOnlyCount>>
      BY <1>2 DEF CloseEnds
    <2>2. pc'[t] = "idle" /\ \A u \in Threads \ {t} : pc'[u] = pc[u] /\ new'[u] = new[u]
      BY <1>0, <2>1 DEF SessionInv, Inv, Shape
    <2>3. Kinds' /\ (Plain' => Plain)
      BY <2>1, <2>2 DEF SessionInv, Kinds, Plain
    <2>4. Sessions' = Sessions /\ Adding' = Adding /\ Closing' = Closing
      BY <2>1, <2>2 DEF Sessions, Adding, Closing
    <2>5. QED
      BY <2>1, <2>3, <2>4, SameSessions
  <1>3. CASE ReleaseNode(t) \/ EndRequest(t)
    <2>1. /\ pc[t] \notin {"add", "count"}
          /\ pc' = [pc EXCEPT ![t] = "end"] \/ pc' = [pc EXCEPT ![t] = "idle"]
          /\ \A u \in Threads \ {t} : object'[u] = object[u]
          /\ UNCHANGED <<kind, running, new, deletes, gDSLocalOnlyMode, alive, localOnlyCount>>
      BY <1>3 DEF ReleaseNode, EndRequest, SessionInv, RetainShape
    <2>2. pc'[t] \in {"end", "idle"} /\ \A u \in Threads \ {t} : pc'[u] = pc[u]
      BY <1>0, <2>1
    <2>3. Kinds' /\ (Plain' => Plain)
      BY <2>1, <2>2 DEF SessionInv, Kinds, Plain
    <2>4. Adding' = Adding /\ Closing' = Closing
      BY <2>1, <2>2 DEF Adding, Closing
    <2>5. Sessions' = Sessions
      <3>1. CASE ReleaseNode(t)
        <4>1. kind[object[t]] = "node"
          BY <3>1 DEF ReleaseNode, SessionInv, Kinds
        <4>2. QED
          BY <2>1, <3>1, <4>1 DEF ReleaseNode, RemoveIdentifier, Sessions
      <3>2. CASE EndRequest(t)
        BY <3>2 DEF EndRequest, Sessions
      <3>3. QED
        BY <1>3, <3>1, <3>2
    <2>6. QED
      BY <2>1, <2>3, <2>4, <2>5, SameSessions
  <1>4. CASE OpenNode(t)
    <2>1. /\ pc[t] \notin {"add", "count"} /\ Make(t, pid[t], "node", NoPath)
          /\ UNCHANGED <<passthru_rbt, running, object, deletes, gDSLocalOnlyMode, alive,
                         localOnlyCount>>
      BY <1>4 DEF OpenNode
    <2>2. QED
      BY <2>1, MakeSessions DEF Kind
  <1>5. CASE CreateQuery(t)
    <2>1. /\ pc[t] \notin {"add", "count"} /\ Make(t, pid[t], "query", NoPath)
          /\ UNCHANGED <<passthru_rbt, running, object, deletes, gDSLocalOnlyMode, alive,
                         localOnlyCount>>
      BY <1>5 DEF CreateQuery
    <2>2. QED
      BY <2>1, MakeSessions DEF Kind
  <1>6. CASE AnswerQuery(t)
    <2>1. /\ pc[t] = "answer" /\ kind[new[t]] = "query" /\ pc' = [pc EXCEPT ![t] = "start"]
          /\ UNCHANGED <<passthru_rbt, kind, running, object, new, deletes, gDSLocalOnlyMode,
                         alive, localOnlyCount>>
      BY <1>6 DEF AnswerQuery
    <2>2. pc'[t] = "start" /\ \A u \in Threads \ {t} : pc'[u] = pc[u]
      BY <1>0, <2>1
    <2>3. Kinds' /\ (Plain' => Plain)
      BY <2>1, <2>2 DEF SessionInv, Kinds, Plain
    <2>4. Sessions' = Sessions /\ Adding' = Adding /\ Closing' = Closing
      BY <2>1, <2>2 DEF Sessions, Adding, Closing
    <2>5. QED
      BY <2>1, <2>3, <2>4, SameSessions
  <1>7. QED
    BY <1>1, <1>2, <1>3, <1>4, <1>5, <1>6, AddSessions, CloseRemovesSessions, CloseCountsSessions
       DEF Handler


LEMMA NextSessions ==
  ASSUME IsFiniteSet(Threads)
  PROVE  RetainInv /\ SessionInv /\ [Next]_vars => SessionInv'
  <1> SUFFICES ASSUME RetainInv, SessionInv, [Next]_vars PROVE SessionInv'
    OBVIOUS
  <1>0. Inv' /\ RetainShape'
    BY NextRetain DEF RetainInv
  <1>1. ASSUME NEW t \in Threads, Handler(t) PROVE SessionInv'
    BY <1>0, <1>1, HandlerSessions
  <1>2. ASSUME NEW t \in Threads, NEW p \in Pids, CreateProxySession(t, p) PROVE SessionInv'
    <2>1. /\ pc[t] \notin {"add", "count"} /\ Make(t, p, "session", NoPath)
          /\ ~gDSLocalOnlyMode
          /\ UNCHANGED <<passthru_rbt, running, object, deletes, gDSLocalOnlyMode, alive>>
      BY <1>2 DEF CreateProxySession, Receive
    <2>2. QED
      BY <1>0, <2>1, MakeSessions DEF Kind
  <1>3. ASSUME NEW t \in Threads, NEW p \in Pids, NEW where \in LocalPaths,
               CreateLocalSession(t, p, where)
        PROVE  SessionInv'
    <2>1. /\ pc[t] = "idle"
          /\ UNCHANGED <<passthru_rbt, running, object, deletes, gDSLocalOnlyMode, alive>>
      BY <1>3 DEF CreateLocalSession, Receive
    <2>2. CASE Make(t, p, "session", where) /\ localOnlyCount' = localOnlyCount + 1
      BY <1>0, <2>1, <2>2, MakeSessions DEF Kind
    <2>3. CASE UNCHANGED <<localOnlyCount, objects, new, pc>>
      <3>1. Kinds' /\ (Plain' => Plain)
        BY <2>1, <2>3 DEF SessionInv, Kinds, Plain
      <3>2. Sessions' = Sessions /\ Adding' = Adding /\ Closing' = Closing
        BY <2>1, <2>3 DEF Sessions, Adding, Closing
      <3>3. QED
        BY <1>0, <2>1, <2>3, <3>1, <3>2, SameSessions
    <2>4. QED
      BY <1>3, <2>2, <2>3 DEF CreateLocalSession
  <1>4. ASSUME NEW t \in Threads, NEW p \in Pids, NEW o \in answered,
               \/ BeginClose(t, p, o)
               \/ \E use \in Uses : BeginRequest(t, p, o, use)
        PROVE  SessionInv'
    <2>1. /\ pc[t] = "idle"
          /\ UNCHANGED <<passthru_rbt, running, kind, deletes, gDSLocalOnlyMode, alive,
                         localOnlyCount>>
          /\ \A u \in Threads \ {t} : pc'[u] = pc[u] /\ object'[u] = object[u] /\ new'[u] = new[u]
          /\ pc'[t] \in Uses \cup {"idle", "close"} /\ pc'[t] # "start"
      BY <1>4 DEF BeginClose, BeginRequest, Receive, SessionInv, RetainShape, Inv, Shape, Uses
    <2>2. pc'[t] = "release_node" => object'[t] \in Object /\ kind[object'[t]] = "node"
      BY <1>4 DEF BeginClose, BeginRequest, Receive, SessionInv, RetainShape, Inv, Shape,
                  NeedsKind, Uses
    <2>3. Kinds' /\ (Plain' => Plain)
      BY <2>1, <2>2 DEF SessionInv, Kinds, Plain
    <2>4. pc'[t] \notin {"add", "count"}
      BY <2>1 DEF Uses
    <2>5. Sessions' = Sessions /\ Adding' = Adding /\ Closing' = Closing
      BY <2>1, <2>4 DEF Sessions, Adding, Closing
    <2>6. QED
      BY <1>0, <2>1, <2>3, <2>5, SameSessions
  <1>5. ASSUME NEW q \in running, EndQuery(q) PROVE SessionInv'
    <2>1. q \in Object /\ kind[q] = "query" /\ running' \subseteq running
          /\ UNCHANGED <<kind, pc, object, new>>
      BY <1>5 DEF EndQuery, SessionInv, Kinds, RetainShape
    <2>2. Kinds' /\ ~Plain'
      BY <2>1 DEF SessionInv, Kinds, Plain
    <2>3. QED
      BY <1>0, <2>2 DEF SessionInv
  <1>6. ASSUME NEW p \in Pids, PidDies(p) PROVE SessionInv'
    <2>1. alive' # Pids /\ UNCHANGED <<kind, pc, object, new, running>>
      BY <1>6 DEF PidDies
    <2>2. Kinds' /\ ~Plain'
      BY <2>1 DEF SessionInv, Kinds, Plain
    <2>3. QED
      BY <1>0, <2>2 DEF SessionInv
  <1>7. CASE RunDelete
    <2>1. /\ deletes # << >> /\ passthru_rbt' = {}
          /\ UNCHANGED <<kind, pc, object, new, running, gDSLocalOnlyMode, alive, localOnlyCount>>
      BY <1>7 DEF RunDelete
    <2>2. Kinds' /\ (Plain' => Plain)
      BY <2>1 DEF SessionInv, Kinds, Plain
    <2>3. Plain => Sessions' = Sessions
      BY <2>1 DEF SessionInv, NothingToDelete, Sessions
    <2>4. Adding' = Adding /\ Closing' = Closing
      BY <2>1 DEF Adding, Closing
    <2>5. QED
      BY <1>0, <2>1, <2>2, <2>3, <2>4, SameSessions
  <1>8. CASE UNCHANGED vars
    BY <1>8 DEF vars, SessionInv, Inv, Shape, Makers, Pathed, Counted, InUse, Coming, Leaving,
         OnePath, OneLocalPath, RetainShape, Kinds, Plain, CountIs, NothingToDelete, Sessions,
         Adding, Closing
  <1>9. QED
    BY <1>1, <1>2, <1>3, <1>4, <1>5, <1>6, <1>7, <1>8 DEF Next, Rest

\* localOnlyCount (Server/od_passthru.cpp, receive_session_create and
\* receive_session_close) is the number of sessions being opened, open and half
\* closed, until a process dies or a query is made: the last close alone empties
\* the tree, and takes no session of another client with it.
THEOREM CountCorrect ==
  ASSUME IsFiniteSet(Threads)
  PROVE  Spec => []CountIsSessions
  <1>1. Init => RetainInv /\ SessionInv
    <2>1. Init => RetainInv
      BY InitRetain
    <2>2. ASSUME Init PROVE SessionInv
      <3>1. Sessions = {} /\ Adding = {} /\ Closing = {} /\ Kinds /\ NothingToDelete
        BY <2>2 DEF Init, Sessions, Adding, Closing, Kinds, NothingToDelete
      <3>2. CountIs
        BY <2>2, <3>1, FS_EmptySet DEF Init, CountIs
      <3>3. QED
        BY <2>1, <2>2, <3>1, <3>2 DEF SessionInv, RetainInv
    <2>3. QED
      BY <2>1, <2>2
  <1>2. RetainInv /\ SessionInv /\ [Next]_vars => (RetainInv /\ SessionInv)'
    BY NextRetain, NextSessions
  <1>3. SessionInv => CountIsSessions
    BY DEF SessionInv, Plain, CountIs, CountIsSessions
  <1>4. QED
    BY <1>1, <1>2, <1>3, PTL DEF Spec
=============================================================================
