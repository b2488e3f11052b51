------------------------ MODULE LocalSessions_proofs ------------------------
(* Proofs about the sessions of the local-only daemon: the count is exact, *)
(* and the daemon does not stop under a client, for any number of handlers *)
(* and paths.                                                              *)
EXTENDS LocalSessions, FiniteSetTheorems, TLAPS

USE LocalAssumption, NullAssumption DEF lock, refs, Goto

-----------------------------------------------------------------------------
\* Arithmetic of the counter.

LEMMA Division ==
  ASSUME NEW S \in Nat \ {0}, NEW a \in Int,
         NEW q \in Int, q = a \div S, NEW r \in Int, r = a % S
  PROVE  a = S * q + r
  BY SMT

LEMMA QuotientRemainder ==
  ASSUME NEW S \in Nat \ {0}, NEW a \in Int
  PROVE  \E q \in Int, r \in 0..(S - 1) : a % S = r /\ a = S * q + r
  <1> DEFINE q == a \div S
             r == a % S
  <1>1. q \in Int /\ r \in 0..(S - 1)
    OBVIOUS
  <1>2. a = S * q + r
    BY <1>1, Division
  <1>3. a % S = r
    OBVIOUS
  <1> HIDE DEF q, r
  <1>4. QED
    BY <1>1, <1>2, <1>3

LEMMA Multiple ==
  ASSUME NEW S \in Nat \ {0}, NEW p \in Int, NEW q \in Int, p > q
  PROVE  S * p >= S * q + S
  OBVIOUS

LEMMA UniqueRemainder ==
  ASSUME NEW S \in Nat \ {0}, NEW p \in Int, NEW q \in Int,
         NEW i \in 0..(S - 1), NEW j \in 0..(S - 1), S * p + i = S * q + j
  PROVE  i = j
  <1>1. ~(p > q) /\ ~(q > p)
    BY Multiple
  <1>2. p = q
    BY <1>1
  <1>3. QED
    BY <1>2

\* Counting up or down a counter that wraps is counting, then wrapping.
LEMMA WrappedSum ==
  ASSUME NEW S \in Nat \ {0}, NEW a \in Int, NEW k \in Int
  PROVE  ((a % S) + k) % S = (a + k) % S
  <1>1. PICK q \in Int, r \in 0..(S - 1) : a % S = r /\ a = S * q + r
    BY QuotientRemainder
  <1>2. PICK p \in Int, s \in 0..(S - 1) : (r + k) % S = s /\ r + k = S * p + s
    <2>1. r + k \in Int
      OBVIOUS
    <2>2. QED
      BY <2>1, QuotientRemainder
  <1>3. PICK u \in Int, v \in 0..(S - 1) : (a + k) % S = v /\ a + k = S * u + v
    <2>1. a + k \in Int
      OBVIOUS
    <2>2. QED
      BY <2>1, QuotientRemainder
  <1>4. S * (q + p) + s = S * u + v
    <2>1. S * q \in Int /\ S * p \in Int /\ S * (q + p) = S * q + S * p
      OBVIOUS
    <2>2. QED
      BY <1>1, <1>2, <1>3, <2>1
  <1>5. q + p \in Int
    OBVIOUS
  <1>6. s = v
    BY <1>4, <1>5, UniqueRemainder
  <1>7. QED
    BY <1>1, <1>2, <1>3, <1>6

\* A number below the counter's space is not changed by it.
LEMMA SmallRemainder ==
  ASSUME NEW S \in Nat \ {0}, NEW a \in 0..(S - 1)
  PROVE  a % S = a
  <1>1. PICK q \in Int, r \in 0..(S - 1) : a % S = r /\ a = S * q + r
    BY QuotientRemainder
  <1>2. S * 0 + a = S * q + r
    <2>1. S * 0 = 0
      OBVIOUS
    <2>2. QED
      BY <1>1, <2>1
  <1>3. QED
    BY <1>1, <1>2, UniqueRemainder

LEMMA RemainderRange ==
  ASSUME NEW S \in Nat \ {0}, NEW a \in Int
  PROVE  a % S \in 0..(S - 1)
  BY QuotientRemainder

-----------------------------------------------------------------------------
\* The state is well formed.  A handler that is on its way has its path.

HasPath == \A t \in Threads : pc[t] # "idle" => want[t] \in Paths

Shape == TypeOK /\ HasPath

LEMMA SessionsFinite ==
  ASSUME TypeOK
  PROVE  IsFiniteSet(DOMAIN sessions) /\ Cardinality(DOMAIN sessions) \in Nat
  <1>1. IsFiniteSet(1..MaxOpens)
    BY FS_Interval
  <1>2. DOMAIN sessions \in SUBSET (1..MaxOpens)
    BY DEF TypeOK, SessionsOK
  <1>3. QED
    BY <1>1, <1>2, FS_Subset, FS_CardinalityType

LEMMA InitShape == Init => Shape
  <1> SUFFICES ASSUME Init PROVE Shape
    OBVIOUS
  <1>1. CountersOK /\ HandlersOK /\ HasPath
    BY DEF Init, CountersOK, HandlersOK, HasPath
  <1>2. DOMAIN sessions = {}
    BY DEF Init
  <1>3. SessionsOK
    BY <1>2 DEF SessionsOK
  <1>4. stopped \in BOOLEAN
    BY DEF Init
  <1>5. QED
    BY <1>1, <1>3, <1>4 DEF Shape, TypeOK

\* What an answered open does to the sessions.
LEMMA Answered ==
  ASSUME Shape, NEW t \in Threads, Increment(t)
  PROVE  \E s \in 1..MaxOpens :
           /\ s \notin DOMAIN sessions
           /\ DOMAIN sessions' = DOMAIN sessions \cup {s}
           /\ \A r \in DOMAIN sessions' : sessions'[r] \in Paths
  <1>1. PICK s \in 1..MaxOpens :
          /\ s \notin DOMAIN sessions
          /\ sessions' = [r \in DOMAIN sessions \cup {s} |->
                            IF r = s THEN want[t] ELSE sessions[r]]
    BY DEF Increment
  <1>2. want[t] \in Paths
    BY DEF Shape, HasPath, Increment
  <1>3. \A r \in DOMAIN sessions : sessions[r] \in Paths
    BY DEF Shape, TypeOK, SessionsOK
  <1>4. QED
    BY <1>1, <1>2, <1>3

\* What the steps of handlers that are not the last one leave alone.
LEMMA EarlyHandler ==
  ASSUME NEW t \in Threads, Handler(t), ~Increment(t)
  PROVE  UNCHANGED <<gLocalSessionCount, refs, opens, timers, exits>>
  BY DEF Handler, ReadPath, ReadCount, FreePath, SetPath, Compare, Stat, Create, Lock

LEMMA NextHandlers == Shape /\ [Next]_vars => HandlersOK' /\ HasPath'
  <1> SUFFICES ASSUME Shape, [Next]_vars PROVE HandlersOK' /\ HasPath'
    OBVIOUS
  <1> USE DEF Shape, TypeOK, HandlersOK, HasPath
  <1>1. ASSUME NEW t \in Threads, Handler(t) PROVE HandlersOK' /\ HasPath'
    <2>1. CASE ReadPath(t) \/ ReadCount(t) \/ FreePath(t) \/ SetPath(t)
      BY <2>1 DEF ReadPath, ReadCount, FreePath, SetPath
    <2>2. CASE Compare(t) \/ Stat(t) \/ Create(t)
      BY <2>2 DEF Compare, Stat, Create
    <2>3. CASE Lock(t) \/ Increment(t)
      BY <2>3 DEF Lock, Increment
    <2>4. QED
      BY <1>1, <2>1, <2>2, <2>3 DEF Handler
  <1>2. ASSUME NEW t \in Threads, NEW p \in Paths, Open(t, p) PROVE HandlersOK' /\ HasPath'
    BY <1>2 DEF Open
  <1>3. ASSUME NEW s \in DOMAIN sessions, Close(s) PROVE HandlersOK' /\ HasPath'
    BY <1>3 DEF Close
  <1>4. CASE OpenPlain \/ ClosePlain \/ RunRemoval
    BY <1>4 DEF OpenPlain, ClosePlain, RunRemoval
  <1>5. CASE ProcessGone \/ TimerFires
    BY <1>5 DEF ProcessGone, TimerFires
  <1>6. CASE UNCHANGED vars
    BY <1>6 DEF vars
  <1>7. QED
    BY <1>1, <1>2, <1>3, <1>4, <1>5, <1>6 DEF Next, Rest

LEMMA NextCounters == Shape /\ [Next]_vars => CountersOK'
  <1> SUFFICES ASSUME Shape, [Next]_vars PROVE CountersOK'
    OBVIOUS
  <1> USE DEF Shape, TypeOK, CountersOK
  <1>0. \A k \in Int : (gLocalSessionCount + k) % CountSpace \in 0..(CountSpace - 1)
    <2>1. \A k \in Int : gLocalSessionCount + k \in Int
      OBVIOUS
    <2>2. QED
      BY <2>1, RemainderRange
  <1>1. ASSUME NEW t \in Threads, Handler(t) PROVE CountersOK'
    <2>1. CASE Increment(t)
      BY <1>0, <2>1 DEF Increment
    <2>2. CASE ~Increment(t)
      BY <1>1, <2>2, EarlyHandler
    <2>3. QED
      BY <2>1, <2>2
  <1>2. ASSUME NEW t \in Threads, NEW p \in Paths, Open(t, p) PROVE CountersOK'
    <2>1. opens < MaxOpens /\ opens' = opens + 1
      BY <1>2 DEF Open
    <2>2. UNCHANGED <<gLocalSessionCount, timers, plain, removing, plains, exits>>
      BY <1>2 DEF Open
    <2>3. QED
      BY <2>1, <2>2
  <1>3. ASSUME NEW s \in DOMAIN sessions, Close(s) PROVE CountersOK'
    BY <1>3 DEF Close
  <1>4. CASE OpenPlain \/ ClosePlain
    BY <1>4 DEF OpenPlain, ClosePlain
  <1>5. CASE RunRemoval
    <2>1. gLocalSessionCount - 1 = gLocalSessionCount + (-1)
      OBVIOUS
    <2>2. gLocalSessionCount' \in 0..(CountSpace - 1)
      BY <1>0, <1>5, <2>1 DEF RunRemoval
    <2>3. timers' \in Nat
      BY <1>5 DEF RunRemoval
    <2>4. QED
      BY <1>5, <2>2, <2>3 DEF RunRemoval
  <1>6. CASE ProcessGone \/ TimerFires
    BY <1>6 DEF ProcessGone, TimerFires
  <1>7. CASE UNCHANGED vars
    BY <1>7 DEF vars
  <1>8. QED
    BY <1>1, <1>2, <1>3, <1>4, <1>5, <1>6, <1>7 DEF Next, Rest

LEMMA NextSessions == Shape /\ [Next]_vars => SessionsOK'
  <1> SUFFICES ASSUME Shape, [Next]_vars PROVE SessionsOK'
    OBVIOUS
  <1> USE DEF Shape, TypeOK, SessionsOK
  <1>1. ASSUME NEW t \in Threads, Handler(t) PROVE SessionsOK'
    <2>1. CASE Increment(t)
      BY <2>1, Answered
    <2>2. CASE ~Increment(t)
      BY <1>1, <2>2, EarlyHandler
    <2>3. QED
      BY <2>1, <2>2
  <1>2. ASSUME NEW s \in DOMAIN sessions, Close(s) PROVE SessionsOK'
    BY <1>2 DEF Close
  <1>3. ASSUME sessions' = sessions PROVE SessionsOK'
    BY <1>3
  <1>4. QED
    BY <1>1, <1>2, <1>3 DEF Next, Open, OpenPlain, ClosePlain, RunRemoval, ProcessGone,
                            TimerFires, Rest, vars

LEMMA NextStopped == Shape /\ [Next]_vars => stopped' \in BOOLEAN
  <1> SUFFICES ASSUME Shape, [Next]_vars PROVE stopped' \in BOOLEAN
    OBVIOUS
  <1>1. stopped \in BOOLEAN
    BY DEF Shape, TypeOK
  <1>2. ASSUME NEW t \in Threads, Handler(t) PROVE stopped' = stopped
    BY <1>2, Zenon DEF Handler, ReadPath, ReadCount, FreePath, SetPath, Compare, Stat,
                       Create, Lock, Increment
  <1>3. TimerFires => stopped' \in {TRUE, stopped}
    BY Zenon DEF TimerFires
  <1>4. QED
    BY <1>1, <1>2, <1>3, Zenon DEF Next, Open, Close, OpenPlain, ClosePlain, RunRemoval,
                                   ProcessGone, Rest, vars

LEMMA NextShape == Shape /\ [Next]_vars => Shape'
  BY NextHandlers, NextCounters, NextSessions, NextStopped DEF Shape, TypeOK

-----------------------------------------------------------------------------
\* The count.

LEMMA InitCount == Init => CountIsExact
  <1> SUFFICES ASSUME Init PROVE CountIsExact
    OBVIOUS
  <1>1. DOMAIN sessions = {}
    BY DEF Init
  <1>2. Cardinality(DOMAIN sessions) = 0
    BY <1>1, FS_EmptySet
  <1>3. 0 % CountSpace = 0
    BY SmallRemainder
  <1>4. QED
    BY <1>2, <1>3 DEF Init, CountIsExact

LEMMA NextCount == Shape /\ CountIsExact /\ [Next]_vars => CountIsExact'
  <1> SUFFICES ASSUME Shape, CountIsExact, [Next]_vars PROVE CountIsExact'
    OBVIOUS
  <1> DEFINE card == Cardinality(DOMAIN sessions)
             exact == card + removing + plain - plains
  <1>0. /\ IsFiniteSet(DOMAIN sessions) /\ card \in Nat
        /\ removing \in Int /\ plain \in Int /\ plains \in Int
        /\ exact \in Int
    BY SessionsFinite DEF Shape, TypeOK, CountersOK
  <1> HIDE DEF exact
  <1>01. \A k \in Int : ((exact % CountSpace) + k) % CountSpace = (exact + k) % CountSpace
    BY <1>0, WrappedSum
  <1>02. gLocalSessionCount = exact % CountSpace
    BY DEF CountIsExact, exact
  <1>03. gLocalSessionCount' = exact' % CountSpace => CountIsExact'
    BY DEF CountIsExact, exact
  <1>1. ASSUME NEW t \in Threads, Handler(t) PROVE CountIsExact'
    <2>1. CASE Increment(t)
      <3>1. PICK s : s \notin DOMAIN sessions /\ DOMAIN sessions' = DOMAIN sessions \cup {s}
        BY <2>1, Answered
      <3>2. card' = card + 1
        BY <1>0, <3>1, FS_AddElement
      <3>3. exact' = exact + 1
        BY <1>0, <2>1, <3>2 DEF Increment, exact
      <3>4. gLocalSessionCount' = ((exact % CountSpace) + 1) % CountSpace
        BY <1>02, <2>1 DEF Increment
      <3>5. gLocalSessionCount' = exact' % CountSpace
        BY <1>01, <3>3, <3>4
      <3>6. QED
        BY <1>03, <3>5
    <2>2. CASE ~Increment(t)
      BY <1>1, <2>2, EarlyHandler DEF CountIsExact
    <2>3. QED
      BY <2>1, <2>2
  <1>2. ASSUME NEW t \in Threads, NEW p \in Paths, Open(t, p) PROVE CountIsExact'
    BY <1>2 DEF Open, CountIsExact
  <1>3. ASSUME NEW s \in DOMAIN sessions, Close(s) PROVE CountIsExact'
    <2>1. DOMAIN sessions' = DOMAIN sessions \ {s}
      BY <1>3 DEF Close
    <2>2. card' = card - 1
      BY <1>0, <2>1, FS_RemoveElement
    <2>3. exact' = exact
      BY <1>0, <1>3, <2>2 DEF Close, exact
    <2>4. QED
      BY <1>02, <1>03, <1>3, <2>3 DEF Close
  <1>4. CASE OpenPlain
    <2>1. exact' = exact
      BY <1>0, <1>4 DEF OpenPlain, exact
    <2>2. QED
      BY <1>02, <1>03, <1>4, <2>1 DEF OpenPlain
  <1>5. CASE ClosePlain
    <2>1. exact' = exact
      BY <1>0, <1>5 DEF ClosePlain, exact
    <2>2. QED
      BY <1>02, <1>03, <1>5, <2>1 DEF ClosePlain
  <1>6. CASE RunRemoval
    <2>1. exact' = exact + (-1)
      BY <1>0, <1>6 DEF RunRemoval, exact
    <2>2. gLocalSessionCount' = (gLocalSessionCount + (-1)) % CountSpace
      <3>1. gLocalSessionCount - 1 = gLocalSessionCount + (-1)
        BY DEF Shape, TypeOK, CountersOK
      <3>2. QED
        BY <1>6, <3>1 DEF RunRemoval
    <2>3. gLocalSessionCount' = exact' % CountSpace
      BY <1>01, <1>02, <2>1, <2>2
    <2>4. QED
      BY <1>03, <2>3
  <1>7. CASE ProcessGone
    BY <1>7 DEF ProcessGone, CountIsExact
  <1>8. CASE TimerFires
    BY <1>8 DEF TimerFires, CountIsExact
  <1>9. CASE UNCHANGED vars
    BY <1>9 DEF vars, CountIsExact
  <1>10. QED
    BY <1>1, <1>2, <1>3, <1>4, <1>5, <1>6, <1>7, <1>8, <1>9 DEF Next, Rest

\* The count of the local-only daemon is that of its sessions, less one for
\* each reference of its own that was closed (Server/CHandlers.cpp counts up
\* under the lock, Server/CRefTable.cpp counts down without it).
THEOREM CountCorrect == Spec => []CountIsExact
  <1>1. Init => Shape /\ CountIsExact
    BY InitShape, InitCount
  <1>2. Shape /\ CountIsExact /\ [Next]_vars => (Shape /\ CountIsExact)'
    BY NextShape, NextCount
  <1>3. QED
    BY <1>1, <1>2, PTL DEF Spec

\* The state of the local-only daemon is well formed.
THEOREM TypeCorrect == Spec => []TypeOK
  <1>1. Shape => TypeOK
    BY DEF Shape
  <1>2. QED
    BY <1>1, InitShape, NextShape, PTL DEF Spec

-----------------------------------------------------------------------------
\* The exit.  The lock is held by the one handler that is about to count, or
\* for good by the exit.

LockHeld ==
  /\ \A t \in Threads : pc[t] = "increment" => gLocalSessionLock = "handler"
  /\ \A t, u \in Threads : pc[t] = "increment" /\ pc[u] = "increment" => t = u
  /\ stopped => gLocalSessionLock = "exit"

\* What is open, on its way or being removed was asked for.
Busy == {t \in Threads : pc[t] # "idle"}

AskedFor ==
  Cardinality(DOMAIN sessions) + removing + plain + Cardinality(Busy) <= opens + plains

LEMMA InitLock == Init => LockHeld
  BY DEF Init, LockHeld

LEMMA NextLock == Shape /\ LockHeld /\ [Next]_vars => LockHeld'
  <1> SUFFICES ASSUME Shape, LockHeld, [Next]_vars PROVE LockHeld'
    OBVIOUS
  <1>0. pc = [u \in Threads |-> pc[u]]
    BY DEF Shape, TypeOK, HandlersOK
  <1>1. ASSUME NEW t \in Threads, Handler(t) PROVE LockHeld'
    <2>1. CASE Lock(t)
      BY <1>0, <2>1 DEF Lock, LockHeld
    <2>2. CASE Increment(t)
      BY <1>0, <2>2 DEF Increment, LockHeld
    <2>3. CASE ~Lock(t) /\ ~Increment(t)
      <3>1. /\ UNCHANGED <<gLocalSessionLock, stopped>>
            /\ \A u \in Threads : pc'[u] = "increment" => pc[u] = "increment"
        BY <1>0, <1>1, <2>3 DEF Handler, ReadPath, ReadCount, FreePath, SetPath, Compare,
                                Stat, Create
      <3>2. QED
        BY <3>1 DEF LockHeld
    <2>4. QED
      BY <2>1, <2>2, <2>3
  <1>2. ASSUME NEW t \in Threads, NEW p \in Paths, Open(t, p) PROVE LockHeld'
    <2>1. /\ UNCHANGED <<gLocalSessionLock, stopped>>
          /\ \A u \in Threads : pc'[u] = "increment" => pc[u] = "increment"
      BY <1>0, <1>2 DEF Open
    <2>2. QED
      BY <2>1 DEF LockHeld
  <1>3. CASE TimerFires
    BY <1>3 DEF TimerFires, LockHeld
  <1>4. ASSUME UNCHANGED <<gLocalSessionLock, stopped, pc>> PROVE LockHeld'
    BY <1>4 DEF LockHeld
  <1>5. QED
    BY <1>1, <1>2, <1>3, <1>4 DEF Next, Close, OpenPlain, ClosePlain, RunRemoval,
                                  ProcessGone, Rest, vars

LEMMA BusyFinite ==
  ASSUME IsFiniteSet(Threads)
  PROVE  IsFiniteSet(Busy) /\ Cardinality(Busy) \in Nat
  <1>1. Busy \in SUBSET Threads
    BY DEF Busy
  <1>2. QED
    BY <1>1, FS_Subset, FS_CardinalityType

LEMMA InitAskedFor == Init => AskedFor
  <1> SUFFICES ASSUME Init PROVE AskedFor
    OBVIOUS
  <1>1. DOMAIN sessions = {} /\ Busy = {}
    BY DEF Init, Busy
  <1>2. Cardinality(DOMAIN sessions) = 0 /\ Cardinality(Busy) = 0
    BY <1>1, FS_EmptySet
  <1>3. QED
    BY <1>2 DEF Init, AskedFor

LEMMA NextAskedFor ==
  ASSUME IsFiniteSet(Threads)
  PROVE  Shape /\ AskedFor /\ [Next]_vars => AskedFor'
  <1> SUFFICES ASSUME Shape, AskedFor, [Next]_vars PROVE AskedFor'
    OBVIOUS
  <1> DEFINE card == Cardinality(DOMAIN sessions)
             busy == Cardinality(Busy)
  <1>0. /\ IsFiniteSet(DOMAIN sessions) /\ card \in Nat
        /\ IsFiniteSet(Busy) /\ busy \in Nat
        /\ removing \in Int /\ plain \in Int /\ plains \in Int /\ opens \in Int
    BY SessionsFinite, BusyFinite DEF Shape, TypeOK, CountersOK
  <1>02. pc = [u \in Threads |-> pc[u]]
    BY DEF Shape, TypeOK, HandlersOK
  <1>01. card + removing + plain + busy <= opens + plains
    BY DEF AskedFor
  <1> SUFFICES card' + removing' + plain' + busy' <= opens' + plains'
    BY DEF AskedFor
  <1>1. ASSUME NEW t \in Threads, Handler(t)
        PROVE  card' + removing' + plain' + busy' <= opens' + plains'
    <2>1. CASE Increment(t)
      <3>1. PICK s : s \notin DOMAIN sessions /\ DOMAIN sessions' = DOMAIN sessions \cup {s}
        BY <2>1, Answered
      <3>2. card' = card + 1
        BY <1>0, <3>1, FS_AddElement
      <3>3. t \in Busy /\ Busy' = Busy \ {t}
        BY <1>02, <2>1 DEF Increment, Busy
      <3>4. busy' = busy - 1
        BY <1>0, <3>3, FS_RemoveElement
      <3>5. UNCHANGED <<removing, plain, opens, plains>>
        BY <2>1 DEF Increment
      <3> HIDE DEF card, busy
      <3>6. QED
        BY <1>0, <1>01, <3>2, <3>4, <3>5
    <2>2. CASE ~Increment(t)
      <3>1. UNCHANGED <<sessions, removing, plain, opens, plains>>
        BY <1>1, <2>2, EarlyHandler
      <3>2. Busy' \in SUBSET Busy
        BY <1>02, <1>1, <2>2 DEF Busy, Handler, ReadPath, ReadCount, FreePath, SetPath,
                                Compare, Stat, Create, Lock
      <3>3. busy' <= busy /\ busy' \in Nat
        BY <1>0, <3>2, FS_Subset, FS_CardinalityType
      <3>4. card' = card
        BY <3>1
      <3> HIDE DEF card, busy
      <3>5. \A n \in Nat : n <= busy => card + removing + plain + n <= opens + plains
        BY <1>0, <1>01
      <3>6. card + removing + plain + busy' <= opens + plains
        BY <3>3, <3>5
      <3>7. QED
        BY <3>1, <3>4, <3>6
    <2>3. QED
      BY <2>1, <2>2
  <1>2. ASSUME NEW t \in Threads, NEW p \in Paths, Open(t, p)
        PROVE  card' + removing' + plain' + busy' <= opens' + plains'
    <2>1. t \notin Busy /\ Busy' = Busy \cup {t}
      BY <1>02, <1>2 DEF Open, Busy
    <2>2. busy' = busy + 1
      BY <1>0, <2>1, FS_AddElement
    <2>3. card' = card /\ opens' = opens + 1 /\ UNCHANGED <<removing, plain, plains>>
      BY <1>2 DEF Open
    <2> HIDE DEF card, busy
    <2>4. QED
      BY <1>0, <1>01, <2>2, <2>3
  <1>3. ASSUME NEW s \in DOMAIN sessions, Close(s)
        PROVE  card' + removing' + plain' + busy' <= opens' + plains'
    <2>1. DOMAIN sessions' = DOMAIN sessions \ {s}
      BY <1>3 DEF Close
    <2>2. card' = card - 1
      BY <1>0, <2>1, FS_RemoveElement
    <2>3. busy' = busy /\ removing' = removing + 1 /\ UNCHANGED <<plain, opens, plains>>
      BY <1>3 DEF Close, Busy
    <2> HIDE DEF card, busy
    <2>4. QED
      BY <1>0, <1>01, <2>2, <2>3
  <1>4. ASSUME UNCHANGED <<sessions, pc>>
        PROVE  card' = card /\ busy' = busy
    BY <1>4 DEF Busy
  <1>5. CASE OpenPlain
    <2>1. card' = card /\ busy' = busy
      BY <1>4, <1>5 DEF OpenPlain
    <2> HIDE DEF card, busy
    <2>2. QED
      BY <1>0, <1>01, <1>5, <2>1 DEF OpenPlain
  <1>6. CASE ClosePlain
    <2>1. card' = card /\ busy' = busy
      BY <1>4, <1>6 DEF ClosePlain
    <2> HIDE DEF card, busy
    <2>2. QED
      BY <1>0, <1>01, <1>6, <2>1 DEF ClosePlain
  <1>7. CASE RunRemoval
    <2>1. card' = card /\ busy' = busy
      BY <1>4, <1>7 DEF RunRemoval
    <2> HIDE DEF card, busy
    <2>2. QED
      BY <1>0, <1>01, <1>7, <2>1 DEF RunRemoval
  <1>8. CASE ProcessGone \/ TimerFires \/ UNCHANGED vars
    <2>1. UNCHANGED <<sessions, pc, removing, plain, opens, plains>>
      BY <1>8 DEF ProcessGone, TimerFires, vars
    <2>2. card' = card /\ busy' = busy
      BY <1>4, <2>1
    <2> HIDE DEF card, busy
    <2>3. QED
      BY <1>01, <2>1, <2>2
  <1>9. QED
    BY <1>1, <1>2, <1>3, <1>5, <1>6, <1>7, <1>8 DEF Next, Rest

\* The timer that finds the count at zero finds no session: the count has not
\* gone round, since fewer sessions were ever asked for than it can count.
LEMMA CountedOut ==
  ASSUME Shape, CountIsExact, AskedFor, IsFiniteSet(Threads), MaxOpens < CountSpace,
         plains = 0, gLocalSessionCount = 0
  PROVE  DOMAIN sessions = {}
  <1> DEFINE card == Cardinality(DOMAIN sessions)
             busy == Cardinality(Busy)
  <1>1. IsFiniteSet(DOMAIN sessions) /\ card \in Nat /\ busy \in Nat
    BY SessionsFinite, BusyFinite DEF Shape
  <1>2. card + removing + plain + busy <= opens + plains
    BY DEF AskedFor
  <1>3. plain = 0 /\ removing \in Nat /\ opens \in 0..MaxOpens
    BY DEF Shape, TypeOK, CountersOK
  <1>4. gLocalSessionCount = (card + removing + plain - plains) % CountSpace
    BY DEF CountIsExact
  <1> HIDE DEF card, busy
  <1>5. card + removing \in 0..(CountSpace - 1)
    BY <1>1, <1>2, <1>3
  <1>6. card + removing + plain - plains = card + removing
    BY <1>1, <1>3
  <1>7. (card + removing) % CountSpace = card + removing
    BY <1>5, SmallRemainder
  <1>8. card = 0
    BY <1>1, <1>3, <1>4, <1>6, <1>7
  <1>9. QED
    BY <1>1, <1>8, FS_EmptySet DEF card

LEMMA InitNeverStops == Init => NeverStopsUnderAClient
  BY DEF Init, NeverStopsUnderAClient

LEMMA NextNeverStops ==
  ASSUME IsFiniteSet(Threads), MaxOpens < CountSpace
  PROVE  /\ Shape /\ CountIsExact /\ AskedFor /\ LockHeld
         /\ NeverStopsUnderAClient /\ [Next]_vars
         => NeverStopsUnderAClient'
  <1> SUFFICES ASSUME Shape, CountIsExact, AskedFor, LockHeld, NeverStopsUnderAClient,
                      [Next]_vars, stopped', plains' = 0
               PROVE  DOMAIN sessions' = {}
    BY DEF NeverStopsUnderAClient
  <1>1. plains = 0
    <2>1. plains \in Nat
      BY DEF Shape, TypeOK, CountersOK
    <2>2. plains' = plains \/ plains' = plains + 1
      BY EarlyHandler DEF Next, Open, Close, Increment, OpenPlain, ClosePlain, RunRemoval,
                          ProcessGone, TimerFires, Rest, vars
    <2>3. QED
      BY <2>1, <2>2
  <1>2. CASE stopped
    <2>1. DOMAIN sessions = {}
      BY <1>1, <1>2 DEF NeverStopsUnderAClient
    <2>2. ASSUME NEW t \in Threads PROVE ~Increment(t)
      BY <1>2 DEF LockHeld, Increment
    <2>3. ASSUME NEW s \in DOMAIN sessions PROVE FALSE
      BY <2>1, <2>3
    <2>4. UNCHANGED sessions
      BY <2>2, <2>3, EarlyHandler DEF Next, Open, OpenPlain, ClosePlain, RunRemoval,
                                      ProcessGone, TimerFires, Rest, vars
    <2>5. QED
      BY <2>1, <2>4
  <1>3. CASE ~stopped
    <2>1. ASSUME NEW t \in Threads, Handler(t) PROVE stopped' = stopped
      BY <2>1, Zenon DEF Handler, ReadPath, ReadCount, FreePath, SetPath, Compare, Stat,
                         Create, Lock, Increment
    <2>2. TimerFires
      BY <1>3, <2>1, Zenon DEF Next, Open, Close, OpenPlain, ClosePlain, RunRemoval,
                               ProcessGone, Rest, vars
    <2>3. gLocalSessionCount = 0 /\ UNCHANGED sessions
      BY <1>3, <2>2, Zenon DEF TimerFires
    <2>4. QED
      BY <1>1, <2>3, CountedOut
  <1>4. QED
    BY <1>2, <1>3

\* However many handlers and timers there are, the daemon does not stop while
\* a session is open (Server/od_passthru.cpp, the timer's handler), as long as
\* it opened no reference of its own and the count cannot go round.
THEOREM ExitCorrect ==
  ASSUME IsFiniteSet(Threads), MaxOpens < CountSpace
  PROVE  Spec => []NeverStopsUnderAClient
  <1> DEFINE Inv == Shape /\ CountIsExact /\ AskedFor /\ LockHeld /\ NeverStopsUnderAClient
  <1>1. Init => Inv
    BY InitShape, InitCount, InitAskedFor, InitLock, InitNeverStops
  <1>2. Inv /\ [Next]_vars => Inv'
    BY NextShape, NextCount, NextAskedFor, NextLock, NextNeverStops
  <1>3. Inv => NeverStopsUnderAClient
    OBVIOUS
  <1> HIDE DEF Inv
  <1>4. QED
    BY <1>1, <1>2, <1>3, PTL DEF Spec
=============================================================================
