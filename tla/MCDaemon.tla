------------------------------ MODULE MCDaemon ------------------------------
(* Parts that share no state, side by side: the plug-in table, the node list,
   the buffers that requests return with what clients make of them, and the
   connections of a client.  A behaviour is one of a single part; the others
   stay as they start. *)
EXTENDS PluginTable, NodeTree, Connections

\* Three records, one without a name and one with a binary value; a buffer
\* for the first alone and one for all.
CONSTANTS Sizes, MaxFills, MaxRefs
ThreeRecords ==
  << [type |-> <<117>>, name |-> <<97, 98>>,
      attributes |-> << [type |-> <<120>>, values |-> << <<118>>, <<>> >>], [type |-> <<121, 122>>, values |-> <<>>] >>],
     [type |-> <<117>>, name |-> <<>>, attributes |-> <<>>],
     [type |-> <<117>>, name |-> <<99>>,
      attributes |-> << [type |-> <<120>>, values |-> << <<118, 0, 119>> >>] >>] >>
TwoPaths == { << << <<97>>, <<98, 99>> >>, << <<>> >> >> }

TwoThreads == {"t1", "t2"}
ThreeKinds == {"node", "list", "value"}

VARIABLES
  part,
  buffer, order, packed, waiting, fill, refs, cursor, made

buffersV == <<buffer, order, packed, waiting, fill, refs, cursor, made>>
daemonV == <<part, vars, nodeVars, buffersV, connectionVars>>

\* One name in all three trees, and five in the main one for two registrars
\* to fight over; 11 is the search node.
NamesKinds(n) == IF n = 3 THEN {"dir", "hosted", "network"} ELSE {"dir"}
FiveNames == 1..5
TwoLoads == {[r1 |-> 1..5, r2 |-> {}], [r1 |-> {2, 3, 11}, r2 |-> {3, 11}]}
OneFixed == {"search"}
OnlySearch == {11}
TwoRegistrars == {"r1", "r2"}
TwoWatched == {3, 11}
ASSUME NodeTreeAssumption

R == INSTANCE RecordBuffers WITH Found <- ThreeRecords, NodePaths <- TwoPaths
ASSUME R!BuffersAssumption
Index == 1..3

DaemonInit ==
  /\ part \in {"plugins", "nodes", "buffers", "connections"}
  /\ Init /\ NodesInit /\ R!Init /\ ConnectionsInit
  /\ part # "plugins" => config = [p \in Plugins |-> "active"]
  /\ part # "nodes" => load = CHOOSE l \in TwoLoads : TRUE

InPlugins == part = "plugins" /\ UNCHANGED <<part, nodeVars, buffersV, connectionVars>>
InNodes == part = "nodes" /\ UNCHANGED <<part, vars, buffersV, connectionVars>>
InBuffers == part = "buffers" /\ UNCHANGED <<part, vars, nodeVars, connectionVars>>
InConnections == part = "connections" /\ UNCHANGED <<part, vars, nodeVars, buffersV>>

DaemonNext ==
  \/ \E t \in Callers, p \in Plugins, via \in Vias : InPlugins /\ Begin(t, p, via)
  \/ \E t \in Callers : InPlugins /\ LookUp(t)
  \/ \E t \in Callers : InPlugins /\ LockNodeList(t)
  \/ \E t \in Callers : InPlugins /\ Load(t)
  \/ \E t \in Callers, ok \in BOOLEAN : InPlugins /\ Initialize(t, ok)
  \/ \E t \in Callers : InPlugins /\ Merge(t)
  \/ \E t \in Callers : InPlugins /\ TellPlugin(t)
  \/ \E t \in Callers : InPlugins /\ TellDaemon(t)
  \/ \E p \in Plugins, s \in States : InPlugins /\ Configure(p, s)
  \/ InPlugins /\ ConfigureTells
  \/ InPlugins /\ ConfigureSets
  \/ \E r \in {"r1", "r2"} : InNodes /\ \E n \in load[r] \cap FiveNames : Register(r, n)
  \/ \E r \in {"r1", "r2"} : InNodes /\ \E n \in load[r] \cap FiveNames : DeleteNode(r, n)
  \/ \E r \in {"r1", "r2"} : InNodes /\ \E n \in load[r] \cap {11} : RegisterFixed(r, "search", n)
  \/ \E r \in {"r1", "r2"} : InNodes /\ LookUpNode(r)
  \/ \E r \in {"r1", "r2"} : InNodes /\ AddNode(r)
  \/ \E r \in {"r1", "r2"} : InNodes /\ Advertise(r)
  \/ \E r \in {"r1", "r2"} : InNodes /\ AdvertiseFixed(r)
  \/ InNodes /\ OddConnects
  \/ InNodes /\ OddExits
  \/ InNodes /\ RegisterAll
  \/ \E size \in Sizes : InBuffers /\ R!SearchRecords(size)
  \/ \E size \in Sizes, tag \in {R!StdA, R!StdB} : InBuffers /\ R!PackRecords(size, tag)
  \/ \E size \in Sizes, paths \in TwoPaths : InBuffers /\ R!GetDirNodeList(size, paths)
  \/ InBuffers /\ R!DSSwap
  \/ \E index \in Index : InBuffers /\ R!ExtractRecordEntry(index)
  \/ InBuffers /\ R!MakeGDNIFWRef
  \/ InBuffers /\ \E r \in DOMAIN refs, index \in Index : R!ExtractAttributeEntry(r, index)
  \/ InBuffers /\ \E r \in DOMAIN refs, index \in Index : R!ExtractNextAttributeEntry(r, index)
  \/ InBuffers /\ \E r \in DOMAIN refs : R!RemoveRef(r)
  \/ \E t \in TwoThreads : InConnections /\ ConnectTo(t)
  \/ \E t \in TwoThreads : InConnections /\ ConnectLocal(t)
  \/ \E t \in TwoThreads : InConnections /\ OpenDir(t)
  \/ \E t \in TwoThreads : InConnections /\ VersionMismatch(t)
  \/ \E t \in TwoThreads : InConnections /\ OpenFails(t)
  \/ \E t \in TwoThreads : InConnections /\ OpenBelow(t)
  \/ \E t \in TwoThreads : InConnections /\ CloseRef(t)
  \/ \E t \in TwoThreads : InConnections /\ CallFails(t)
  \/ \E t \in TwoThreads : InConnections /\ Uncount(t)
  \/ \E t \in TwoThreads : InConnections /\ CleanUpLost(t)
  \/ \E t \in TwoThreads : InConnections /\ UseNothing(t)
  \/ InConnections /\ \E t \in TwoThreads, r \in DOMAIN fwMap, op \in ThreeKinds \cup {"close"} : Locate(t, r, op)

DaemonSpec == DaemonInit /\ [][DaemonNext]_daemonV /\ Fairness

-----------------------------------------------------------------------------
(* The properties of the parts; those of the extended modules are theirs.*)

BuffersComeBack == part = "buffers" => R!BuffersComeBack
=============================================================================
