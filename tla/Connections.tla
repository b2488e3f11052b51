----------------------------- MODULE Connections -----------------------------
(***************************************************************************)
(* The connections of the client library to other daemons: the table of    *)
(* connections and their counts (gMessageTable, gDSConnections), the map   *)
(* from its own references to those of the other end (CDSRefMap), and what *)
(* the endpoints make of late answers and of ends that go away.            *)
(* Connection 1 is to the daemon for local nodes (Mach), those above it    *)
(* are to daemons on other machines (TCP).                                 *)
(*                                                                         *)
(* A call is a step that finds its connection in the map, a step with the  *)
(* lock of the connection, and for some a step with the lock of the table. *)
(* The application closes no reference that a call of another thread uses, *)
(* or one below it.  Operators with a suffix are faulty variants.          *)
(***************************************************************************)
EXTENDS Integers, Sequences, FiniteSets

CONSTANTS
  Threads,            \* of the client
  gMaxEndpoints,      \* connections are numbered below it; 0 is not mapped
  kMaxFWTables, kMaxFWTableItems, kMaxRefNum,   \* shape of the map
  kWord,              \* values of a count (2^32 in the code)
  MaxMade,            \* bound: references a daemon makes
  OpenKinds,              \* types opened below others
  MaxBegun            \* bound: calls

ASSUME ConnectionsAssumption ==
  /\ gMaxEndpoints \in Nat /\ gMaxEndpoints > 1
  /\ {kMaxFWTables, kMaxFWTableItems, kMaxRefNum, kWord, MaxMade} \subseteq Nat \ {0}
  /\ MaxBegun \in Nat /\ OpenKinds \subseteq {"node", "record", "list", "value"}

VARIABLES
  gMessageTable,    \* connection -> it exists
  gDSConnections,   \* connection -> count
  far,              \* connection -> what its daemon holds for it: number ->
                    \*   [type, parent]
  issued,             \* connection -> references its daemon has made
  broken,           \* connections whose other end is gone
  answers,          \* connection -> answers not read
  fwMap,            \* <<table, number>> -> [type, parent, remote, index]
  place,            \* table -> fCurRefNum
  calling,             \* thread -> [at, op, ref, type, line, index]
  begun,            \* calls begun
  crashed,          \* connection a call used after it was gone, 0 if none
  spoilt,           \* connections that went with references still mapped
  leaked            \* connections that hold something nobody can give back

connectionVars == <<gMessageTable, gDSConnections, far, issued, broken, answers,
                    fwMap, place, calling, begun, crashed, spoilt, leaked>>

Ends == 1..(gMaxEndpoints - 1)
Remote == 2..(gMaxEndpoints - 1)
None == [n \in {} |-> 0]
NotCalling ==
  [at |-> "idle", op |-> "none", ref |-> <<>>, type |-> "dir", line |-> {}, index |-> 0]

ConnectionsInit ==
  /\ gMessageTable = [i \in Ends |-> FALSE]
  /\ gDSConnections = [i \in Ends |-> 0]
  /\ far = [i \in Ends |-> None]
  /\ issued = [i \in Ends |-> 0]
  /\ broken = {}
  /\ answers = [i \in Ends |-> <<>>]
  /\ fwMap = None
  /\ place = [t \in 1..kMaxFWTables |-> 0]
  /\ calling = [t \in Threads |-> NotCalling]
  /\ begun = 0 /\ crashed = 0
  /\ spoilt = {} /\ leaked = {}

-----------------------------------------------------------------------------
(* References: a directory's have nodes below them, a node's have records   *)
(* and attribute lists, and in the map a list's have value lists.           *)

Opens == [dir |-> {"node"}, node |-> {"record", "list"}, list |-> {"value"},
          record |-> {}, value |-> {}]

\* r and what is above it.  The list of a reference's children is the entries
\* whose parent it is: linking and unlinking keep the two together.
Line(m, r) ==
  LET up(S) == S \cup {m[x].parent : x \in S \cap DOMAIN m}
  IN  up(up(up({r})))

\* m without r and everything below it.
Cut(m, r) == [x \in {y \in DOMAIN m : r \notin Line(m, y)} |-> m[x]]

With(m, r, entry) == [x \in DOMAIN m \cup {r} |-> IF x = r THEN entry ELSE m[x]]

-----------------------------------------------------------------------------
(* CDSRefMap                                                                *)

\* The numbers tried in a table, once round.
Numbers(at) ==
  [k \in 1..kMaxFWTableItems |->
     (((IF at = 0 \/ at > kMaxRefNum THEN 0 ELSE at - 1) + k - 1) % kMaxRefNum) + 1]

\* Made one after the other when they are needed.
Tables == 1..kMaxFWTables

Taken(n) == {r[2] % kMaxFWTableItems : r \in {x \in DOMAIN fwMap : x[1] = n}}
Full(n) == Cardinality({x \in DOMAIN fwMap : x[1] = n}) >= kMaxFWTableItems

Empty(n) ==
  {k \in 1..kMaxFWTableItems : Numbers(place[n])[k] % kMaxFWTableItems \notin Taken(n)}

\* The first table that has a number whose slot is empty takes the entry in
\* that slot; the others before it are gone through for nothing.
GetNewRef(entry) ==
  LET fits == {n \in Tables : ~Full(n) /\ Empty(n) # {}}
      in == CHOOSE n \in fits \cup {kMaxFWTables + 1} :
              \A o \in fits : n <= o
      k == CHOOSE j \in Empty(in) : \A o \in Empty(in) : j <= o
      slot(x) == <<x[1], x[2] % kMaxFWTableItems>>
      ref == <<in, Numbers(place[in])[k]>>
      others == {x \in DOMAIN fwMap : slot(x) # slot(ref)}
  IN  /\ fwMap' = IF fits = {} THEN fwMap ELSE With([x \in others |-> fwMap[x]], ref, entry)
      /\ place' = [n \in Tables |->
                     CASE n = in -> Numbers(place[n])[k] + 1
                       [] n < in /\ ~Full(n) -> Numbers(place[n])[kMaxFWTableItems] + 1
                       [] OTHER -> place[n]]
      /\ leaked' = IF fits = {} THEN leaked \cup {entry.index} ELSE leaked

VerifyReference(r, type) == r \in DOMAIN fwMap /\ fwMap[r].type = type

\* A reference of another type is not removed; of the right one, everything
\* below it is as well.
RemoveRef(r, type) ==
  fwMap' = IF VerifyReference(r, type) THEN Cut(fwMap, r) ELSE fwMap

\* A number that is not in the map goes out as it is, which no daemon knows.
GetRefNum(r, type) == IF VerifyReference(r, type) THEN fwMap[r].remote ELSE 0

-----------------------------------------------------------------------------
(* The other end, and what is read of its answers                           *)

Reply(type, ref) == [type |-> type, ref |-> ref]
Refused == Reply("error", 0)

\* What the daemon makes of a request to open something below n, or to close
\* it.  It hangs value lists on the node.
Above(i, n, op) == IF op = "value" THEN far[i][n].parent ELSE n
Serve(i, op, type, n) ==
  CASE n \notin DOMAIN far[i] -> [far |-> far[i], answer |-> Refused]
    [] op = "close" /\ n \in DOMAIN far[i] ->
         IF far[i][n].type = type
           THEN [far |-> Cut(far[i], n), answer |-> Reply("closed", n)]
           ELSE [far |-> far[i], answer |-> Refused]
    [] OTHER ->
         IF op \in Opens[far[i][n].type]
           THEN [far |-> With(far[i], issued[i] + 1, [type |-> op, parent |-> Above(i, n, op)]),
                 answer |-> Reply(op, issued[i] + 1)]
           ELSE [far |-> far[i], answer |-> Refused]

\* An answer is read in time, comes too late, or never comes.  Nothing ties
\* an answer to its request: the oldest one is read.
InTime(i, served) ==
  /\ i \notin broken
  /\ far' = [far EXCEPT ![i] = served.far]
  /\ issued' = [issued EXCEPT ![i] = IF DOMAIN served.far \subseteq DOMAIN far[i] THEN @ ELSE @ + 1]
  /\ answers' = [answers EXCEPT ![i] = Tail(Append(@, served.answer))]
  /\ UNCHANGED broken

TooLate(i, served) ==
  /\ i \in Remote \ broken
  /\ far' = [far EXCEPT ![i] = served.far]
  /\ issued' = [issued EXCEPT ![i] = IF DOMAIN served.far \subseteq DOMAIN far[i] THEN @ ELSE @ + 1]
  /\ answers' = [answers EXCEPT ![i] = Append(@, served.answer)]
  /\ UNCHANGED broken

Never(i) ==
  /\ i \in Remote
  /\ broken' = broken \cup {i}
  /\ far' = [far EXCEPT ![i] = None]
  /\ answers' = [answers EXCEPT ![i] = <<>>]
  /\ UNCHANGED issued

Read(i, served) == Head(Append(answers[i], served.answer))

\* The connection is closed: its daemon gives up what it held for it.
Closed(i) ==
  /\ far' = [far EXCEPT ![i] = None]
  /\ answers' = [answers EXCEPT ![i] = <<>>]
  /\ broken' = broken \ {i}
  /\ UNCHANGED issued
Mapped(i) == \E r \in DOMAIN fwMap : fwMap[r].index = i
Spoils(i) == spoilt' = IF Mapped(i) THEN spoilt \cup {i} ELSE spoilt

-----------------------------------------------------------------------------
(* Opening                                                                  *)

Return(t) == calling' = [calling EXCEPT ![t] = NotCalling]
Waits(t, i) ==
  calling' = [calling EXCEPT ![t] = [NotCalling EXCEPT !.at = "opening", !.op = "dir", !.index = i]]

FreeSlots == {i \in Remote : ~gMessageTable[i]}

\* A new connection: its daemon holds nothing for it.
Fresh(i) ==
  /\ far' = [far EXCEPT ![i] = None]
  /\ issued' = [issued EXCEPT ![i] = 0]
  /\ answers' = [answers EXCEPT ![i] = <<>>]
  /\ broken' = broken \ {i}

\* dsOpenDirServiceProxy, with the lock of the table: the first free slot.
ConnectTo(t) ==
  /\ crashed = 0 /\ calling[t].at = "idle" /\ begun < MaxBegun
  /\ FreeSlots # {}
  /\ LET i == CHOOSE j \in FreeSlots : \A o \in FreeSlots : j <= o
     IN  /\ gMessageTable' = [gMessageTable EXCEPT ![i] = TRUE]
         /\ gDSConnections' = [gDSConnections EXCEPT ![i] = (@ + 1) % kWord]
         /\ Fresh(i)
         /\ begun' = begun + 1
         /\ Waits(t, i)
  /\ UNCHANGED <<fwMap, place, crashed, spoilt, leaked>>

\* dsOpenDirServiceLocal, with the lock of the table: one connection for all,
\* counted when it is made.
ConnectLocal(t) ==
  /\ crashed = 0 /\ calling[t].at = "idle" /\ begun < MaxBegun /\ issued[1] < MaxMade
  /\ gMessageTable' = [gMessageTable EXCEPT ![1] = TRUE]
  /\ gDSConnections' = [gDSConnections EXCEPT ![1] = IF gMessageTable[1] THEN @ ELSE (@ + 1) % kWord]
  /\ Waits(t, 1)
  /\ begun' = begun + 1
  /\ UNCHANGED <<far, issued, broken, answers, fwMap, place, crashed, spoilt, leaked>>

Session(i) ==
  [far |-> With(far[i], issued[i] + 1, [type |-> "dir", parent |-> 0]),
   answer |-> Reply("dir", issued[i] + 1)]

\* The daemon opens a session, which is mapped.
OpenDir(t) ==
  LET i == calling[t].index
      answer == Read(i, Session(i))
  IN  /\ crashed = 0 /\ calling[t].at = "opening" /\ gMessageTable[i] /\ issued[i] < MaxMade
      /\ InTime(i, Session(i))
      /\ IF answer.type = "dir"
           THEN GetNewRef([type |-> "dir", parent |-> <<>>, remote |-> answer.ref, index |-> i])
           ELSE UNCHANGED <<fwMap, place, leaked>>
      /\ Return(t)
      /\ UNCHANGED <<gMessageTable, gDSConnections, begun, crashed, spoilt>>

\* It does not speak any version of this client: the error is swallowed and
\* the connection stays.
VersionMismatch(t) ==
  /\ crashed = 0 /\ calling[t].at = "opening" /\ calling[t].index \in Remote \ broken
  /\ gMessageTable[calling[t].index]
  /\ leaked' = leaked \cup {calling[t].index}
  /\ Return(t)
  /\ UNCHANGED <<gMessageTable, gDSConnections, far, issued, broken, answers, fwMap, place,
                 begun, crashed, spoilt>>

\* It refuses, or does not answer in time: the connection goes, its count
\* stays.  A local one only fails.
OpenFails(t) ==
  LET i == calling[t].index
  IN  /\ crashed = 0 /\ calling[t].at = "opening" /\ gMessageTable[i]
      /\ Return(t)
      /\ IF i = 1
           THEN UNCHANGED <<gMessageTable, far, issued, broken, answers, spoilt, leaked>>
           ELSE /\ gMessageTable' = [gMessageTable EXCEPT ![i] = FALSE]
                /\ Closed(i) /\ Spoils(i)
                /\ leaked' = leaked \cup {i}
      /\ UNCHANGED <<gDSConnections, fwMap, place, begun, crashed>>

-----------------------------------------------------------------------------
(* Calls with a reference                                                   *)

\* One of the two closes what the other uses.
Conflict(op, r, c) == (op = "close" /\ r \in c.line) \/ (c.op = "close" /\ c.ref \in Line(fwMap, r))

\* GetMessageTableIndex, before the lock is taken.
Locate(t, r, op) ==
  /\ crashed = 0 /\ calling[t].at = "idle" /\ begun < MaxBegun
  /\ op \in (Opens[fwMap[r].type] \cap OpenKinds) \cup {"close"}
  /\ gMessageTable[fwMap[r].index]
  /\ \A u \in Threads \ {t} : ~Conflict(op, r, calling[u])
  /\ calling' = [calling EXCEPT ![t] =
                [at |-> "located", op |-> op, ref |-> r, type |-> fwMap[r].type,
                 line |-> Line(fwMap, r), index |-> fwMap[r].index]]
  /\ begun' = begun + 1
  /\ UNCHANGED <<gMessageTable, gDSConnections, far, issued, broken, answers, fwMap, place,
                 crashed, spoilt, leaked>>

Asked(t) ==
  LET c == calling[t] IN Serve(c.index, c.op, c.type, GetRefNum(c.ref, c.type))
Sends(t) ==
  /\ crashed = 0 /\ calling[t].at = "located" /\ gMessageTable[calling[t].index]
  /\ calling[t].op # "close" => issued[calling[t].index] < MaxMade

\* dsOpenDirNode, dsOpenRecord, dsGetRecordEntry and the like, with the lock
\* of the connection.  An answer without the reference asked for is an error.
OpenBelow(t) ==
  LET c == calling[t]
      answer == Read(c.index, Asked(t))
  IN  /\ Sends(t) /\ c.op # "close"
      /\ InTime(c.index, Asked(t))
      /\ IF answer.type = c.op
           THEN GetNewRef([type |-> c.op, parent |-> c.ref, remote |-> answer.ref,
                           index |-> c.index])
           ELSE UNCHANGED <<fwMap, place, leaked>>
      /\ Return(t)
      /\ UNCHANGED <<gMessageTable, gDSConnections, begun, crashed, spoilt>>

\* dsCloseAttributeValueList removes an attribute list.
RemovedAs(type) == IF type = "value" THEN "list" ELSE type

\* dsCloseDirService, dsCloseDirNode, dsCloseRecord and the like, with the
\* lock of the connection: any answer that is no error will do.
CloseRef(t) ==
  LET c == calling[t]
      answer == Read(c.index, Asked(t))
  IN  /\ Sends(t) /\ c.op = "close"
      /\ InTime(c.index, Asked(t))
      /\ IF answer.type # "error"
           THEN /\ RemoveRef(c.ref, RemovedAs(c.type))
                /\ calling' = [calling EXCEPT ![t] =
                                IF c.type = "dir" THEN [@ EXCEPT !.at = "counting"] ELSE NotCalling]
           ELSE /\ UNCHANGED fwMap /\ Return(t)
      /\ UNCHANGED <<gMessageTable, gDSConnections, place, begun, crashed, spoilt, leaked>>

\* SyncToMessageBody makes a late answer a lost connection, which the call
\* cleans up when it has given the lock back.
CallFails_TimesOut(t) ==
  /\ Sends(t)
  /\ \/ TooLate(calling[t].index, Asked(t)) /\ Return(t)
     \/ Never(calling[t].index) /\ calling' = [calling EXCEPT ![t].at = "lost"]
  /\ UNCHANGED <<gMessageTable, gDSConnections, fwMap, place, begun, crashed, spoilt, leaked>>
CallFails(t) ==
  /\ Sends(t)
  /\ \/ TooLate(calling[t].index, Asked(t))
     \/ Never(calling[t].index)
  /\ calling' = [calling EXCEPT ![t].at = "lost"]
  /\ UNCHANGED <<gMessageTable, gDSConnections, fwMap, place, begun, crashed, spoilt, leaked>>

\* The rest of dsCloseDirService, with the lock of the table: the last one
\* closes the connection, and only the local one is kept for another time.
Uncount_Kept(t) ==
  LET i == calling[t].index
      left == (gDSConnections[i] + kWord - 1) % kWord
  IN  /\ crashed = 0 /\ calling[t].at = "counting"
      /\ gDSConnections' = [gDSConnections EXCEPT ![i] = left]
      /\ Return(t)
      /\ UNCHANGED <<gMessageTable, far, issued, broken, answers, spoilt, fwMap, place, begun,
                     crashed, leaked>>
Uncount(t) ==
  LET i == calling[t].index
      left == (gDSConnections[i] + kWord - 1) % kWord
  IN  /\ crashed = 0 /\ calling[t].at = "counting"
      /\ gDSConnections' = [gDSConnections EXCEPT ![i] = left]
      /\ IF left = 0 /\ gMessageTable[i]
           THEN /\ gMessageTable' = [gMessageTable EXCEPT ![i] = i = 1]
                /\ Closed(i) /\ Spoils(i)
           ELSE UNCHANGED <<gMessageTable, far, issued, broken, answers, spoilt>>
      /\ Return(t)
      /\ UNCHANGED <<fwMap, place, begun, crashed, leaked>>

\* CheckToCleanUpLostTCPConnection, with the lock of the table: whatever is in
\* the slot goes; its references and its count stay.
CleanUpLost(t) ==
  LET i == calling[t].index
  IN  /\ crashed = 0 /\ calling[t].at = "lost"
      /\ IF gMessageTable[i]
           THEN /\ gMessageTable' = [gMessageTable EXCEPT ![i] = FALSE]
                /\ Closed(i) /\ Spoils(i)
                /\ leaked' = leaked \cup {i}
           ELSE UNCHANGED <<gMessageTable, far, issued, broken, answers, spoilt, leaked>>
      /\ Return(t)
      /\ UNCHANGED <<gDSConnections, fwMap, place, begun, crashed>>

\* The connection went between the two steps of a call.
UseNothing(t) ==
  /\ crashed = 0 /\ calling[t].at \in {"located", "opening"} /\ ~gMessageTable[calling[t].index]
  /\ crashed' = calling[t].index
  /\ UNCHANGED <<gMessageTable, gDSConnections, far, issued, broken, answers, fwMap, place,
                 calling, begun, spoilt, leaked>>

ConnectionsNext ==
  \/ \E t \in Threads : \/ ConnectTo(t) \/ ConnectLocal(t)
                        \/ OpenDir(t) \/ VersionMismatch(t) \/ OpenFails(t)
                        \/ OpenBelow(t) \/ CloseRef(t) \/ CallFails(t)
                        \/ Uncount(t) \/ CleanUpLost(t) \/ UseNothing(t)
  \/ \E t \in Threads, r \in DOMAIN fwMap, op \in OpenKinds \cup {"close"} :
       Locate(t, r, op)

ConnectionsSpec == ConnectionsInit /\ [][ConnectionsNext]_connectionVars

-----------------------------------------------------------------------------
(* A connection that was lost, or closed, with references still mapped is   *)
(* not sound again, and one that is being lost is not for the moment.       *)

Sound(i) == i \notin spoilt /\ \A t \in Threads : calling[t].index = i => calling[t].at # "lost"

\* The type and the parent of a mapped reference, as the daemon sees them.
Seen(r) ==
  LET above == fwMap[r].parent
  IN  [type |-> fwMap[r].type,
       parent |-> CASE fwMap[r].type = "dir" -> 0
                    [] fwMap[r].type = "value" -> fwMap[fwMap[above].parent].remote
                    [] OTHER -> fwMap[above].remote]

\* Whatever is opened and closed by several threads, however often the numbers
\* of the map come round, and whichever answers come too late: a reference of
\* a sound connection stands for what it was opened as, below the same parent,
\* at the daemon in its slot.  Only a value list that was closed stays mapped
\* (CDSRefMap, CheckToCleanUpLostTCPConnection).
RightEnd ==
  /\ crashed = 0 \/ crashed \in spoilt
  /\ \A r \in DOMAIN fwMap :
       LET e == fwMap[r]
       IN  Sound(e.index) =>
             /\ gMessageTable[e.index]
             /\ e.remote \in DOMAIN far[e.index] => far[e.index][e.remote] = Seen(r)
             /\ e.remote \in DOMAIN far[e.index] \/ e.type = "value"

\* Nothing is held for nobody: what a daemon holds for a connection can be
\* given back with a mapped reference (a value list with its node), and a
\* connection to another machine goes with its directory reference.  Excepted
\* are connections that hold a reference for which the map was full, or that
\* were refused, or are counted for one that was refused or lost
\* (dsOpenDirServiceProxy, dsCloseDirService, GetNewRef).
HeldForSomebody ==
  \A i \in Ends : Sound(i) /\ i \notin leaked =>
    /\ \A n \in DOMAIN far[i] :
         far[i][n].type = "value" \/ \E r \in DOMAIN fwMap : fwMap[r].index = i /\ fwMap[r].remote = n
    /\ i \in Remote /\ gMessageTable[i] =>
         \/ Mapped(i)
         \/ \E t \in Threads : calling[t].index = i /\ calling[t].at \in {"opening", "counting"}
=============================================================================
