------------------------------ MODULE MCPlugins ------------------------------
(* Parts of the daemon that plug-ins rest on and that share no state, side by
   side: the objects of the pass-through, the local authentication helper, the
   tables of the base class.  A behaviour is one of a single part; the others stay as they start. *)
EXTENDS MCPassthru, LocalAuth, BasePlugin

\* What is asked of the authentication helper in one behaviour; where users log
\* in with a password the policy has rules besides that of failures.
Mix(ms, n) == [methods |-> ms, requests |-> n, rules |-> "Clear" \in ms]
FiveMixes ==
  {Mix({"Clear", "SetPolicyAsRoot"}, 2), Mix({"SetPasswdAsRoot"}, 2),
   Mix({"Windows", "Secure", "SetWorkstationPasswd"}, 2), Mix({"SetPasswd", "WriteSecureHash"}, 2),
   Mix({"ChangePasswd", "SetNTHash"}, 2)}

\* Two nodes, which are interchangeable, and one record.
CONSTANTS n1, n2

TwoNodes == {n1, n2}
AllAlike == Alike \cup Permutations(TwoNodes)

\* The part that a behaviour is of.
VARIABLES part
pluginV == <<part, vars, authVars, baseVars>>

ASSUME LocalAuthAssumption
ASSUME BasePluginAssumption
AuthRequests == Asked
BaseRequests == {op \in ProcessRequest : op.then \in {"nothing", "gone"}}
BaseOpens == {op \in ProcessRequest : op.then = "record"}
BaseSearches == {op \in ProcessRequest : op.then = "search"}
Refs == NodeRefs \cup RecordRefs

PluginsInit ==
  /\ part \in {"passthru", "auth", "base"}
  /\ Init /\ AuthInit /\ BaseInit
  /\ part # "passthru" => gDSLocalOnlyMode
  /\ part # "auth" => /\ mix = Mix({"SetPasswdAsRoot"}, 2) /\ aa = "basic" /\ admin /\ ~ntOn
                      /\ crypt = CHOOSE p \in Short : TRUE

InPassthru == part = "passthru" /\ UNCHANGED <<part, authVars, baseVars>>
InAuth == part = "auth" /\ UNCHANGED <<part, vars, baseVars>>
InBase == part = "base" /\ UNCHANGED <<part, vars, authVars>>

PluginsNext ==
  \/ \E t \in Threads : InPassthru /\ Handler(t)
  \/ \E t \in Threads, p \in Pids : InPassthru /\ CreateProxySession(t, p)
  \/ \E t \in Threads, p \in Pids, where \in LocalPaths : InPassthru /\ CreateLocalSession(t, p, where)
  \/ \E t \in Threads, p \in Pids : InPassthru /\ \E o \in answered : BeginClose(t, p, o)
  \/ \E t \in Threads, p \in Pids, use \in Uses : InPassthru /\ \E o \in answered : BeginRequest(t, p, o, use)
  \/ InPassthru /\ \E q \in running : EndQuery(q)
  \/ \E p \in Pids : InPassthru /\ PidDies(p)
  \/ InPassthru /\ RunDelete
  \/ InPassthru /\ Rest
  \/ \E t \in AuthThreads, r \in AuthRequests : InAuth /\ Begin(t, r)
  \/ \E t \in AuthThreads, found \in BOOLEAN : InAuth /\ LocalCachedUserReachable(t, found)
  \/ \E t \in AuthThreads, a \in {"ok", "denied", "away", "disabled", "failed"} : InAuth /\ Network(t, a)
  \/ \E t \in AuthThreads : InAuth /\ Read(t)
  \/ \E t \in AuthThreads, ok \in BOOLEAN : InAuth /\ Login(t, ok)
  \/ \E t \in AuthThreads, ok \in BOOLEAN : InAuth /\ Change(t, ok)
  \/ \E t \in AuthThreads, ok \in BOOLEAN : InAuth /\ SetDigest(t, ok)
  \/ \E t \in AuthThreads : InAuth /\ SetPolicy(t)
  \/ \E t \in AuthThreads, rule, reset \in BOOLEAN : InAuth /\ Finish(t, rule, reset)
  \/ \E t \in AuthThreads, ok \in BOOLEAN : InAuth /\ After(t, ok)
  \/ \E t \in AuthThreads : InAuth /\ BasicAuth(t)
  \/ \E t \in AuthThreads, ok \in BOOLEAN : InAuth /\ MigrateWrite(t, ok)
  \/ \E t \in AuthThreads : InAuth /\ MigrateTag(t)
  \/ \E t \in AuthThreads : InAuth /\ MigrateStrip(t)
  \/ \E t \in AuthThreads : InAuth /\ MigrateMark(t)
  \/ InAuth /\ Stop
  \/ InBase /\ Initialize
  \/ \E active \in BOOLEAN : InBase /\ SetPluginState(active)
  \/ \E t \in Handlers, r \in NodeRefs, own, found \in BOOLEAN : InBase /\ OpenDirNode(t, r, own, found)
  \/ \E t \in Handlers, r \in Refs : InBase /\ RemoveReference(t, r)
  \/ \E r \in Refs : InBase /\ RefDealloc(r)
  \/ \E t \in Handlers, op \in BaseRequests, r \in Refs : InBase /\ BeginPlain(t, op, r)
  \/ \E t \in Handlers, op \in BaseOpens, r \in NodeRefs, new_ref \in RecordRefs : InBase /\ BeginOpen(t, op, r, new_ref)
  \/ \E t \in Handlers, op \in BaseSearches, r \in NodeRefs : InBase /\ BeginSearch(t, op, r)
  \/ \E t \in Handlers : InBase /\ End(t)
  \/ \E t \in Handlers, deleted \in BOOLEAN : InBase /\ EndDelete(t, deleted)
  \/ \E t \in Handlers, how \in {"found", "not_found", "failed"} : InBase /\ EndOpen(t, how)
  \/ \E t \in Handlers, done \in BOOLEAN : InBase /\ EndSearch(t, done)
  \/ \E t \in Handlers, r \in NodeRefs : InBase /\ ReleaseContinueData(t, r)
  \/ \E t \in Handlers, r \in NodeRefs : InBase /\ GiveUp(t, r)

PluginsSpec == PluginsInit /\ [][PluginsNext]_pluginV

=============================================================================
