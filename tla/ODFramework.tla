----------------------------- MODULE ODFramework -----------------------------
(***************************************************************************)
(* The Open Directory framework over a daemon that may be restarted.  The  *)
(* framework's objects (a session, nodes, records) hold references of the  *)
(* daemon.  A restarted daemon knows none of them; a call that is refused  *)
(* for its reference closes that reference, opens it again, which may need *)
(* the reference of the node or the session to be opened first, and is     *)
(* made again.                                                             *)
(*                                                                         *)
(* A call is a stack of steps (ODCalls).  A step that heals puts the       *)
(* opening of its reference before itself; that one returns to it in back  *)
(* what it came to: "ok", "stale" (the reference it needs is still bad) or *)
(* "error".                                                                *)
(*                                                                         *)
(* One thread: the objects have no locks of their own (_ODNodeLock and     *)
(* _ODRecordLock are empty), so a caller has to keep threads apart.        *)
(*                                                                         *)
(* Operators with a suffix are faulty variants of the one that follows.    *)
(***************************************************************************)
EXTENDS ODCalls, FiniteSets, SequencesExt

CONSTANTS
  Calls,      \* the ways of the calls made
  MaxCalls,   \* bound: calls made
  MaxTrouble  \* bound: restarts and refusals in the course of one call

VARIABLES
  typed,    \* nodes found by their type: search nodes
  dsRef,    \* object -> its reference, None if it has none
  recNode,  \* the node of the record: "node", or "own", which it was given
  password, \* nodes that have a password to authenticate with again
  server,   \* references the daemon has: reference -> parent
  steps,    \* what is left of the call
  back,     \* what the opening of a reference came to, or ""
  failed,   \* the call has failed
  calls,    \* history: calls made
  owed,     \* history: requests the call must have had served, and has not
  trouble,  \* history: restarts and refusals in the course of the call
  orphans   \* history: references whose object was never released

vars == <<typed, dsRef, recNode, password, server, steps, back, failed, calls, owed, trouble, orphans>>

Objects == {"session", "other", "node", "own", "temp", "record", "made"}
Nodes == {"node", "own", "temp"}
\* A reference is named after the object it was opened for.  It is one that no
\* object holds and the daemon does not have: no number comes round too early.
None == [for |-> "", no |-> 0]
Ref(o, n) == [for |-> o, no |-> n]
Held == {dsRef[o] : o \in Objects} \ {None}
FreshRef(o) == CHOOSE r \in {Ref(o, 1), Ref(o, 2), Ref(o, 3)} : r \notin Held \cup DOMAIN server

\* A session and a node are open, and the record, unless it is as it came from
\* a search.
Init ==
  /\ typed \in {{}, {"node"}}
  /\ \E open \in {{}, {"record"}} :
       dsRef = [o \in Objects |-> IF o \in {"session", "node"} \cup open THEN Ref(o, 1) ELSE None]
  /\ recNode = "node"
  /\ password = {}
  /\ server = [r \in Held |-> CASE r.for = "session" -> None [] r.for = "node" -> dsRef["session"] [] OTHER -> dsRef["node"]]
  /\ steps = <<>>
  /\ back = ""
  /\ failed = FALSE
  /\ calls = 0
  /\ owed = {}
  /\ trouble = 0
  /\ orphans = {}

-----------------------------------------------------------------------------
(* The daemon.                                                             *)

Below(r) == {q \in DOMAIN server : server[q] = r}
\* A reference is closed with what hangs below it.
Closed(r) ==
  LET gone == {r} \cup Below(r) \cup UNION {Below(q) : q \in Below(r)}
  IN [q \in DOMAIN server \ gone |-> server[q]]

Knows(r) == r \in DOMAIN server

-----------------------------------------------------------------------------
(* Steps.                                                                  *)

step == Head(steps)
rest == Tail(steps)

On(s) == IF s.on = "its" THEN recNode ELSE s.on
Up(o) == CASE o \in Nodes -> "session" [] o = "record" -> recNode [] o = "made" -> "node" [] OTHER -> ""

\* The object whose reference a step goes by, for an opening the one above.
Needs(s) == IF s.do = "open" THEN Up(On(s)) ELSE On(s)
Asks(s) == s.do \in {"ask", "open"}
Valid == Needs(step) # "" => Knows(dsRef[Needs(step)])

\* The step is over with this result.
Over(result) ==
  /\ back' = IF step.when = "return" THEN result ELSE ""
  /\ IF result = "ok" \/ step.when \notin {"must", "first"}
     THEN steps' = rest /\ UNCHANGED failed
     ELSE /\ steps' = IF step.when = "first" THEN <<>> ELSE SelectSeq(rest, LAMBDA s : s.when \in {"failed", "always"})
          /\ failed' = TRUE

\* What is left when this step is put before it, to return to it.
Before(s, left) == steps' = <<[s EXCEPT !.when = "return"]>> \o left /\ back' = "" /\ UNCHANGED failed

\* The reference of an object is closed and opened again.
Reopen(o, s, left) ==
  /\ Before(s, left)
  /\ server' = IF dsRef[o] = None THEN server ELSE Closed(dsRef[o])
  /\ dsRef' = [dsRef EXCEPT ![o] = None]

_ReopenDS(left) == Reopen("session", Open("dsOpenDirService", "session", ""), left)
_ReopenNode_Alone(o, left) == Reopen(o, Open("dsOpenDirNode", o, ""), left)
_ReopenNode(o, left) == Reopen(o, Open("dsOpenDirNode", o, "session"), left)
_ReopenRecord(o, left) == Reopen(o, Open("dsOpenRecord", o, "node"), left)
_VerifySession(left) == Before(Ask("dsVerifyDirRefNum", "session", "session, then node"), left) /\ UNCHANGED <<server, dsRef>>

\* This step again, once more.
Once(heal) == <<[step EXCEPT !.heal = heal]>> \o rest

-----------------------------------------------------------------------------
(* Actions.                                                                *)

Idle == steps = <<>>
Running(do) == ~Idle /\ back = "" /\ step.do = do

Begin(way) ==
  /\ Idle /\ way # <<>> /\ calls < MaxCalls
  /\ way[1].op = "dsCreateRecordAndOpen" => typed = {}
  /\ way[1].op = "dsOpenRecord" => dsRef["record"] = None
  /\ way[Len(way)].do = "abandon" => orphans = {}
  /\ calls' = calls + 1
  /\ steps' = way
  /\ owed' = {way[i].op : i \in {j \in DOMAIN way : way[j].when \in {"must", "first"} /\ Asks(way[j])}}
  /\ failed' = FALSE
  /\ trouble' = 0
  /\ UNCHANGED <<typed, dsRef, recNode, password, server, back, orphans>>

\* The session is good: it is the node's reference that has gone.
VerifiedNode == _ReopenNode(On(steps[2]), rest)

ServeAsk ==
  /\ Running("ask") /\ Valid
  /\ owed' = owed \ {step.op}
  /\ CASE step.op = "dsDeleteRecord" ->
            /\ Over("ok")
            /\ server' = Closed(dsRef[On(step)])
            /\ dsRef' = [dsRef EXCEPT ![On(step)] = None]
       [] step.op = "dsVerifyDirRefNum" -> VerifiedNode
       [] OTHER -> Over("ok") /\ UNCHANGED <<server, dsRef>>
  /\ UNCHANGED <<typed, recNode, password, calls, trouble, orphans>>

\* _ReopenNode authenticates again with the password of the node, if it has one.
ServeOpen ==
  /\ Running("open") /\ Valid
  /\ owed' = owed \ {step.op}
  /\ dsRef' = [dsRef EXCEPT ![On(step)] = FreshRef(On(step))]
  /\ server' = server @@ (dsRef'[On(step)] :> IF Needs(step) = "" THEN None ELSE dsRef[Needs(step)])
  /\ IF step.heal = "session" /\ On(step) \in password
     THEN /\ steps' = <<[Ask("dsDoDirNodeAuth", On(step), "node, not again") EXCEPT !.when = step.when]>> \o rest
          /\ UNCHANGED <<back, failed>>
     ELSE Over("ok")
  /\ UNCHANGED <<typed, recNode, password, calls, trouble, orphans>>

\* The reference is one the daemon does not know.
Stale ==
  /\ ~Idle /\ back = "" /\ Asks(step) /\ ~Valid
  /\ CASE step.heal = "record" -> _ReopenRecord(On(step), steps)
       [] step.heal \in {"node", "node, not again"} -> _ReopenNode(IF step.do = "open" THEN Needs(step) ELSE On(step), steps)
       [] step.heal \in {"session", "session, regardless", "session, then node"} -> _ReopenDS(steps)
       [] step.heal = "session, once" -> _ReopenDS(Once("again"))
       [] step.heal = "verify" -> _VerifySession(Once("if opened"))
       [] step.heal = "verify, regardless" -> _VerifySession(Once("again"))
       [] OTHER -> Over("stale") /\ UNCHANGED <<server, dsRef>>
  /\ UNCHANGED <<typed, recNode, password, calls, owed, trouble, orphans>>

\* The reference is open again, or is not: the step is made again, or not.
Resume_NotAgain(heal) == IF back = "ok" THEN "done" ELSE "fail"
Resume(heal) ==
  CASE heal \in {"again", "session, regardless"} -> "again"
    [] heal = "node, not again" /\ back = "ok" -> "done"
    [] heal \in {"node", "node, not again"} /\ back = "stale" -> "again"
    [] OTHER -> IF back = "ok" THEN "again" ELSE "fail"

Return ==
  /\ ~Idle /\ back # ""
  /\ CASE step.heal = "session, then node" /\ back = "ok" -> VerifiedNode
       [] OTHER ->
            /\ CASE Resume(step.heal) = "again" -> back' = "" /\ UNCHANGED <<steps, failed>>
                 [] Resume(step.heal) = "done" -> Over("ok")
                 [] OTHER -> Over(IF step.heal = "session" THEN "stale" ELSE back)
            /\ UNCHANGED <<server, dsRef>>
  /\ UNCHANGED <<typed, recNode, password, calls, owed, trouble, orphans>>

\* The daemon, or a plug-in, refuses for another reason.
Refuse ==
  /\ ~Idle /\ back = "" /\ Asks(step) /\ Valid /\ trouble < MaxTrouble
  /\ IF step.op = "dsVerifyDirRefNum" THEN VerifiedNode ELSE Over("error") /\ UNCHANGED <<server, dsRef>>
  /\ trouble' = trouble + 1
  /\ UNCHANGED <<typed, recNode, password, calls, owed, orphans>>

\* The daemon is gone, between two calls of the library or during one.
Restart ==
  /\ server # <<>>
  /\ ~Idle => trouble < MaxTrouble
  /\ server' = <<>>
  /\ orphans' = {}
  /\ trouble' = IF Idle THEN trouble ELSE trouble + 1
  /\ IF ~Idle /\ back = "" /\ Asks(step) THEN Over("error") ELSE UNCHANGED <<steps, back, failed>>
  /\ UNCHANGED <<typed, dsRef, recNode, password, calls, owed>>

-----------------------------------------------------------------------------
(* Steps the daemon has no part in, but for a close.                       *)

Onward == steps' = rest /\ UNCHANGED <<back, failed, calls, owed, trouble>>
Close(o) == IF dsRef[o] = None THEN server ELSE Closed(dsRef[o])

\* Nothing has failed that would have to be undone.
Skip ==
  /\ ~Idle /\ back = "" /\ step.when = "failed" /\ ~failed
  /\ Onward
  /\ UNCHANGED <<typed, dsRef, recNode, password, server, orphans>>

CFRelease ==
  /\ Running("release")
  /\ server' = Close(step.on)
  /\ dsRef' = [dsRef EXCEPT ![step.on] = None]
  /\ password' = password \ {step.on}
  /\ typed' = typed \ {step.on}
  /\ Onward
  /\ UNCHANGED <<recNode, orphans>>

\* Released by nobody.
Abandon ==
  /\ Running("abandon")
  /\ orphans' = {dsRef["temp"]} \cap DOMAIN server
  /\ dsRef' = [dsRef EXCEPT !["temp"] = None]
  /\ Onward
  /\ UNCHANGED <<typed, recNode, password, server>>

CloseRecord_Forgotten ==
  /\ Running("close")
  /\ dsRef' = [dsRef EXCEPT ![step.on] = None]
  /\ Onward
  /\ UNCHANGED <<typed, recNode, password, server, orphans>>

CloseRecord ==
  /\ Running("close")
  /\ server' = Close(step.on)
  /\ dsRef' = [dsRef EXCEPT ![step.on] = None]
  /\ Onward
  /\ UNCHANGED <<typed, recNode, password, orphans>>

Inherit(set) == IF On(step) \in set THEN set \cup {"temp"} ELSE set \ {"temp"}
CopyNode ==
  /\ Running("copy")
  /\ password' = Inherit(password)
  /\ typed' = Inherit(typed)
  /\ Onward
  /\ UNCHANGED <<dsRef, recNode, server, orphans>>

KeepPassword ==
  /\ Running("keep")
  /\ password' = password \cup {On(step)}
  /\ Onward
  /\ UNCHANGED <<typed, dsRef, recNode, server, orphans>>

\* A record of a search node is given the node it is in.
VerifyNodeType ==
  /\ Running("switch")
  /\ IF step.on = "record" /\ recNode \in typed
     THEN steps' = <<May(Open("dsOpenDirNode", "temp", "session, once")), Adopt>> \o rest
          /\ UNCHANGED <<back, failed, calls, owed, trouble>>
     ELSE Onward
  /\ UNCHANGED <<typed, dsRef, recNode, password, server, orphans>>

\* The record takes over the second node and releases the one it had.
Move(set) == IF "temp" \in set THEN (set \cup {"own"}) \ {"temp"} ELSE set \ {"own"}
AdoptNode ==
  /\ Running("adopt")
  /\ IF dsRef["temp"] = None THEN UNCHANGED <<typed, dsRef, recNode, password, server>>
     ELSE /\ server' = Close("own")
          /\ dsRef' = [dsRef EXCEPT !["own"] = dsRef["temp"], !["temp"] = None]
          /\ recNode' = "own"
          /\ password' = Move(password)
          /\ typed' = Move(typed)
  /\ Onward
  /\ UNCHANGED orphans

\* A record that is open is asked; else its node is.
GetValues(kept) ==
  /\ Running("values")
  /\ steps' = IF kept THEN rest
              ELSE IF dsRef[step.on] # None THEN <<May(Ask("dsGetRecordAttributeInfo", step.on, "record"))>> \o rest
              ELSE <<Step("switch", "_VerifyNodeTypeForChange", step.on, "", "may"), May(Ask("dsGetRecordList", "its", "verify"))>> \o rest
  /\ UNCHANGED <<back, failed, calls, owed, trouble>>
  /\ UNCHANGED <<typed, dsRef, recNode, password, server, orphans>>

-----------------------------------------------------------------------------
Run ==
  \/ ServeAsk \/ ServeOpen \/ Stale \/ Return
  \/ Skip \/ CFRelease \/ Abandon \/ CloseRecord \/ CopyNode \/ KeepPassword \/ VerifyNodeType \/ AdoptNode
  \/ \E kept \in BOOLEAN : GetValues(kept)

Next ==
  \/ \E way \in Calls : Begin(way)
  \/ Run
  \/ Refuse
  \/ Restart

\* The thread goes on, and the daemon answers.
Fairness == WF_vars(Run)
Spec == Init /\ [][Next]_vars /\ Fairness

-----------------------------------------------------------------------------
(* Properties.                                                             *)

\* These report success once the node is open again, without being made again.
Unretried == {"dsDoDirNodeAuth", "dsDoDirNodeAuthOnRecordType", "dsCreateRecordAndOpen"}
\* These do not open a reference again.
Unhealed == {"dsVerifyDirRefNum, as given", "dsGetDirNodeInfo, as given", "the rest of a search"}

\* A call that reports success has had every request it depends on served, by
\* a daemon that may have been restarted several times in its course.
SuccessWasServed == Idle /\ ~failed => owed \subseteq Unretried
\* A call in whose course the daemon neither went away nor refused does not
\* fail, whatever had become of its references before: they are opened again
\* in the right order, and the request is made again.
Recovers == Idle /\ failed /\ trouble = 0 => owed \cap Unhealed # {}

\* Both: what a call reports is what became of its requests (the loops around
\* each request).
OutcomesAreTrue == SuccessWasServed /\ Recovers

\* Between two calls the daemon has no reference of the framework's that no
\* object holds (but for the node ODNodeCopySupportedAttributes leaves behind).
NothingStranded == Idle => DOMAIN server \subseteq Held \cup orphans

\* A call ends, if the daemon is there to answer: the loops that open a
\* reference again come to an end.
CallsEnd == ~Idle ~> Idle
=============================================================================
