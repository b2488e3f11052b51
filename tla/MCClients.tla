------------------------------ MODULE MCClients ------------------------------
(* Clients: the sessions of the local-only daemon, the requests of a client
   with every call of the library, those of the Open Directory framework over
   a daemon that is restarted, and the lists calls are made with.  These share no state; a behaviour is one
   of a single part, and the others stay as they start. *)
EXTENDS LocalSessions

\* Two lists, two strings, and paths with and without empty components.
CONSTANTS Lists, Delimiter, MaxNodes
Texts == {<<>>, <<"a">>}
NodePaths ==
  {<<>>, <<"/">>, <<"a">>, <<"/", "a">>, <<"a", "/", "a">>, <<"/", "a", "/">>,
   <<"/", "a", "/", "a">>, <<"/", "/", "a">>, <<"a", "/", "/">>}

VARIABLES
  part,
  stage, request, message, result, how, fresh, table, known, kept, held, heap,
  typed, dsRef, recNode, password, server, steps, back, failed, made, owed, trouble, orphans,
  nodes, list, texts, lost, merged

requestsV == <<stage, request, message, result, how, fresh, table, known, kept, held, heap>>
frameworkV == <<typed, dsRef, recNode, password, server, steps, back, failed, made, owed, trouble, orphans>>
listsV == <<nodes, list, texts, lost, merged>>
clientsV == <<part, vars, requestsV, frameworkV, listsV>>

\* Every call of the library, with a reference of each kind.
OneOf(kind) == 1
C == INSTANCE ClientCalls
Q == INSTANCE Requests WITH
       call <- request, Calls <- C!DirServices, MaxRefs <- 4, MaxOf <- OneOf

\* Every call of the framework, two in a row, with one restart or refusal in each.
O == INSTANCE ODCalls
AllCalls == O!SessionCalls \cup O!NodeCalls \cup O!RecordCalls \cup O!ODNodeCreateRecord
F == INSTANCE ODFramework WITH calls <- made, Calls <- AllCalls, MaxCalls <- 2, MaxTrouble <- 1

D == INSTANCE DataLists WITH heap <- nodes, kept <- texts, Paths <- NodePaths
ASSUME D!DataListsAssumption
TextPairs == D!Pairs

ClientsInit ==
  /\ part \in {"sessions", "requests", "framework", "lists"}
  /\ Init /\ Q!Init /\ F!Init /\ D!Init
  /\ part # "framework" => typed = {} /\ dsRef["record"] = F!None

InSessions == part = "sessions" /\ UNCHANGED <<part, requestsV, frameworkV, listsV>>
InRequests == part = "requests" /\ UNCHANGED <<part, vars, frameworkV, listsV>>
InFramework == part = "framework" /\ UNCHANGED <<part, vars, requestsV, listsV>>
InLists == part = "lists" /\ UNCHANGED <<part, vars, requestsV, frameworkV>>

ClientsNext ==
  \/ \E t \in Threads : InSessions /\ Handler(t)
  \/ \E t \in Threads, p \in Paths : InSessions /\ Open(t, p)
  \/ \E s \in DOMAIN sessions : InSessions /\ Close(s)
  \/ InSessions /\ OpenPlain
  \/ InSessions /\ ClosePlain
  \/ InSessions /\ RunRemoval
  \/ InSessions /\ ProcessGone
  \/ InSessions /\ TimerFires
  \/ \E of \in C!DirServices : InRequests /\ \E given \in SUBSET (of.opt \cup of.wants), args \in Q!Arguments(of) : Q!Send(of, given, args)
  \/ InRequests /\ Q!Refuse
  \/ InRequests /\ Q!RefuseDisabled
  \/ \E ok \in BOOLEAN : InRequests /\ Q!ServeServerCall(ok)
  \/ \E value \in {"NoErr", "TooSmall"} \cup Q!Failures, more \in BOOLEAN : InRequests /\ Q!ServePluginCall(value, more)
  \/ \E started \in BOOLEAN : InRequests /\ Q!AnswerUnprocessed(started)
  \/ InRequests /\ Q!ReleaseOnDirectory
  \/ InRequests /\ Q!Receive
  \/ InRequests /\ Q!ReceiveStandardInfo
  \/ \E way \in AllCalls : InFramework /\ F!Begin(way)
  \/ InFramework /\ F!ServeAsk
  \/ InFramework /\ F!ServeOpen
  \/ InFramework /\ F!Stale
  \/ InFramework /\ F!Return
  \/ InFramework /\ F!Skip
  \/ InFramework /\ F!CFRelease
  \/ InFramework /\ F!Abandon
  \/ InFramework /\ F!CloseRecord
  \/ InFramework /\ F!CopyNode
  \/ InFramework /\ F!KeepPassword
  \/ InFramework /\ F!VerifyNodeType
  \/ InFramework /\ F!AdoptNode
  \/ \E cached \in BOOLEAN : InFramework /\ F!GetValues(cached)
  \/ InFramework /\ F!Refuse
  \/ InFramework /\ F!Restart
  \/ \E l \in Lists, given \in TextPairs : InLists /\ D!dsBuildListFromStringsAllocV(l, given)
  \/ \E l \in Lists, given \in TextPairs : InLists /\ D!dsBuildListFromNodesAlloc(l, given)
  \/ \E l \in Lists, path \in NodePaths : InLists /\ D!dsBuildFromPath(l, path)
  \/ \E l \in Lists, path \in NodePaths : InLists /\ D!dsBuildListFromPathAlloc(l, path)
  \/ \E l, source \in Lists : InLists /\ D!dsDataListCopyList(l, source)
  \/ \E l \in Lists, text \in Texts : InLists /\ D!dsAppendStringToListAlloc(l, text)
  \/ \E l \in Lists, text \in Texts, index \in 0..MaxNodes : InLists /\ D!dsDataListInsertAfter(l, text, index)
  \/ \E l \in Lists, index \in 1..MaxNodes : InLists /\ D!dsDataListDeleteThisNode(l, index)
  \/ \E l, source \in Lists, index \in 1..MaxNodes : InLists /\ D!dsDataListMergeListAfter(l, source, index)
  \/ \E l \in Lists : InLists /\ D!dsDataListDeallocate(l)

ClientsSpec == ClientsInit /\ [][ClientsNext]_clientsV /\ Fairness /\ F!Fairness

-----------------------------------------------------------------------------
(* The properties of the parts, looked at where a part moves (what does not *)
(* move holds as it starts); those of the local sessions are extended.     *)

PartsAgree == part = "requests" => Q!PartsAgree
RequestsSettled == part = "requests" => Q!RequestsSettled
NoneStranded == Q!NoneStranded
ContextKept == Q!ContextKept
OutcomesAreTrue == part = "framework" => F!OutcomesAreTrue
NothingStranded == part = "framework" => F!NothingStranded
CallsEnd == F!CallsEnd
ListsAreSequences == part = "lists" => D!ListsAreSequences
=============================================================================
