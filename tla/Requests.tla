------------------------------- MODULE Requests -------------------------------
(***************************************************************************)
(* One client and the daemon: a call of the library (ClientCalls) makes a  *)
(* message, the daemon's handler (ServerHandlers) takes it apart, serves   *)
(* it or has a plug-in serve it, makes the answer in the same message and  *)
(* frees what it used, and the library takes the answer apart.  What the   *)
(* two sides have to agree on is kept in three pairs of variables:         *)
(*                                                                         *)
(*   table, known   references of the daemon; those the client holds       *)
(*   kept, held     nodes the plug-in has continue data for; nodes the     *)
(*                  client holds continue data for                         *)
(*   message        the parts in the one block both sides use, and result, *)
(*                  the value of its kResult                               *)
(*                                                                         *)
(* The client passes what it holds.  A reference may have become stale     *)
(* when its node or its directory was closed; the client learns of it when *)
(* it is refused.                                                          *)
(*                                                                         *)
(* Operators with a suffix are faulty variants of the one that follows.    *)
(***************************************************************************)
EXTENDS ClientCalls, ServerHandlers

CONSTANTS
  Calls,    \* the calls made
  MaxRefs,  \* bound: references in use at once
  MaxOf(_)  \* bound: those of a kind

VARIABLES
  stage,    \* "idle", "sent", "replied"
  call,     \* [of, given, refs]: the call, the optional arguments, the references
  message,  \* the parts in the message block
  result,   \* value of kResult
  how,      \* what the daemon did with the request (history)
  fresh,    \* the reference the daemon created for it, or 0
  table,    \* reference -> [kind, parent] at the daemon
  known,    \* reference -> kind at the client
  kept,
  held,
  heap      \* what the daemon has allocated for the request and not freed

vars == <<stage, call, message, result, how, fresh, table, known, kept, held, heap>>

Refs == 1..MaxRefs
NoCall == [of |-> dsOpenDirService, given |-> {}, refs |-> <<>>]

Init ==
  /\ stage = "idle"
  /\ call = NoCall
  /\ message = <<>>
  /\ result = "none"
  /\ how = "none"
  /\ fresh = 0
  /\ table = <<>>
  /\ known = <<>>
  /\ kept = {}
  /\ held = {}
  /\ heap = {}

-----------------------------------------------------------------------------
(* Messages.                                                               *)

\* sComData.obj: the parts a message has room for.
slots == 10

\* GetEmptyObj: a part fits if there is a slot and the part is not there yet.
Fits(parts) == Len(parts) <= slots /\ IsInjective(parts)

\* Get_Value_FromMsg and its kin: a part is found by its type.
Has(part) == part \in Range(message)

\* SetRequestResult: the block holds the result alone.
ClearedResult == <<"kResult">>

\* The result variable of the call is 0 before the answer is read.
Succeeded == ~Has("kResult") \/ result = "NoErr"
\* dsGetRecordList and the searches go on when the buffer was too small.
Tolerated == result = "TooSmall" /\ call.of.msg \in DOMAIN ListReply \cup DOMAIN SearchReply

-----------------------------------------------------------------------------
(* The client sends.                                                       *)

\* What a reference argument may be: the directory argument of
\* dsReleaseContinueData may be a node as well.
FitKind(of, part, kind) ==
  \/ kind = Kind[part]
  \/ (of.msg = "kReleaseContinueData" /\ kind = "DirNode")

\* dsOpenDirNode's node reference is a place holder; the references of
\* dsAddChildPIDToReference are not looked at.
RefArguments(of) ==
  IF of.msg = "kAddChildPIDToReference" THEN {}
  ELSE (Range(of.packs) \cap RefParts) \ (IF of.msg = "kOpenDirNode" THEN {"ktNodeRef"} ELSE {})

Arguments(of) ==
  {refs \in [RefArguments(of) -> DOMAIN known] : \A part \in RefArguments(of) : FitKind(of, part, known[refs[part]])}

\* The order of the optional parts among themselves does not matter.
Packed(of, given) == of.packs \o SetToSeq(of.opt \cap given)

Unused == Refs \ (DOMAIN table \cup DOMAIN known)

OfKind(kind) == {ref \in DOMAIN table : table[ref].kind = kind} \cup {ref \in DOMAIN known : known[ref] = kind}
Room(kind) == kind # None => Unused # {} /\ Cardinality(OfKind(kind)) < MaxOf(kind)

\* A caller that releases continue data has some, of some node of its own.
Send(of, given, refs) ==
  /\ stage = "idle"
  /\ Room(HandlerOf[of.msg].creates)
  /\ of.msg = "kReleaseContinueData" =>
       held # {} /\ (known[refs["ktDirRef"]] = "DirNode" => refs["ktDirRef"] \in held)
  /\ call' = [of |-> of, given |-> given, refs |-> refs]
  /\ message' = Packed(of, given)
  /\ stage' = "sent"
  /\ UNCHANGED <<result, how, fresh, table, known, kept, held, heap>>

-----------------------------------------------------------------------------
(* The daemon serves.                                                      *)

handler == HandlerOf[call.of.msg]
IsServerRequest == call.of.msg \in DOMAIN HandleServerCall

\* The handler cannot go on at this part: it is missing, or it is a
\* reference that is not in the table or of another kind.
Stuck(part) ==
  \/ ~Has(part)
  \/ /\ part \in DOMAIN call.refs
     /\ call.refs[part] \in DOMAIN table => ~FitKind(call.of, part, table[call.refs[part]].kind)
StuckAt == {i \in DOMAIN handler.reads : Stuck(handler.reads[i])}

Node == IF "ktNodeRef" \in DOMAIN call.refs THEN call.refs["ktNodeRef"]
        ELSE IF "ktDirRef" \in DOMAIN call.refs THEN call.refs["ktDirRef"] ELSE 0

\* Continue data are released on a directory reference.
OnDirectory == call.of.msg = "kReleaseContinueData" /\ table[call.refs["ktDirRef"]].kind = "Dir"

ContextPart_NotSearches(messages) ==
  IF call.of.msg \in messages \ DOMAIN SearchReply /\ Has("kContextData") THEN <<"kContextData">> ELSE <<>>

\* The answer to these requests holds continue data if the request did.
ContextPart(messages) == IF call.of.msg \in messages /\ Has("kContextData") THEN <<"kContextData">> ELSE <<>>

Below(refs) == {ref \in DOMAIN table : table[ref].parent \in refs}


\* RemoveReference takes what hangs below the reference with it.
Without(refs) ==
  LET gone == refs \cup Below(refs) \cup Below(Below(refs))
  IN Restrict(table, DOMAIN table \ gone)

Creates ==
  /\ handler.creates # None
  /\ call.of.msg # "kCreateRecord"
  /\ call.of.msg = "kCreateRecordAndOpen" => "ktRecRef" \in call.given

\* The table when the handler has taken the request apart.
Entered ==
  IF Creates THEN table @@ (CHOOSE ref \in Unused : \A r \in Unused : ref <= r)
                             :> [kind |-> handler.creates, parent |-> Node]
  ELSE IF handler.closes THEN Without(Range(call.refs)) ELSE table
Created == DOMAIN Entered \ DOMAIN table

\* What the handler has allocated when it has read these parts.
Taken(parts) == Allocated(parts \cap Range(message))
TakenAll == Taken(Range(handler.reads) \cup handler.wants)
PluginMakes == {"ktRecordEntry", "ktAttrEntry", "ktAttrValueEntry"}

Answer(parts, value, what) ==
  /\ stage' = "replied"
  /\ message' = parts
  /\ result' = value
  /\ how' = what
  /\ fresh' = IF Created = {} THEN 0 ELSE CHOOSE ref \in Created : TRUE
  /\ UNCHANGED <<call, known, held>>

\* SetRequestResult: an error leaves nothing else in the block.
Refusal == ClearedResult

\* A handler that cannot go on frees its record and nothing in it.
Refuse ==
  /\ stage = "sent" /\ StuckAt # {}
  /\ stage' = "replied"
  /\ message' = Refusal
  /\ result' = "Error"
  /\ how' = "refused"
  /\ heap' = Taken({handler.reads[i] : i \in 1..(Min(StuckAt) - 1)})
  /\ UNCHANGED <<call, fresh, table, known, kept, held>>

\* The type of the records is disabled: the request is refused when all of it
\* has been read.
RefuseDisabled ==
  /\ stage = "sent" /\ StuckAt = {}
  /\ call.of.msg \in DOMAIN ListReply \cup DOMAIN SearchReply
  /\ Answer(Refusal, "Error", "disabled")
  /\ heap' = TakenAll \ DoFreeMemory[call.of.msg]
  /\ UNCHANGED <<table, kept>>

\* HandleServerCall.  dsAddChildPIDToReference is always refused.
ServeServerCall(ok) ==
  /\ stage = "sent" /\ StuckAt = {} /\ IsServerRequest
  /\ call.of.msg = "kAddChildPIDToReference" => ~ok
  /\ heap' = TakenAll \ DoFreeMemory[call.of.msg]
  /\ IF ok
     THEN /\ Answer(ClearedResult \o PackageReply[call.of.msg] \o ContextPart(Echoed), "NoErr", "processed")
          /\ table' = Entered
          /\ kept' = kept \cap DOMAIN table'
     ELSE /\ Answer(Refusal, "Error", "processed")
          /\ UNCHANGED <<table, kept>>

\* A base plug-in (BaseDirectoryPlugin) that does not find the record sets the
\* number in the request to 0, which is no reference.
NumbersLeft(value) == IF value = "NotFound" THEN {0} ELSE Created

\* The table when a request for a plug-in has failed: the number it finds in the
\* request is removed.
CleanedUp(numbers) ==
  IF call.of.msg \in FailedCallRefCleanUp THEN Restrict(Entered, DOMAIN Entered \ numbers) ELSE Entered

\* The client passed on continue data the plug-in no longer has.
StaleContext == Has("kContextData") /\ Node \in held \ kept

Failures == {"Error", "NotFound"}

\* The plug-in answers value; more says that it kept continue data.  It
\* drops them when it is done or fails; if the client has no place for them
\* it is made to release them.  A close has called the plug-in already.
ServePluginCall(value, more) ==
  /\ stage = "sent" /\ StuckAt = {} /\ ~IsServerRequest /\ ~OnDirectory
  /\ handler.closes => value = "NoErr"
  /\ value = "TooSmall" => call.of.msg \in Continued \cup {"kDoPlugInCustomCall"}
  /\ value = "NotFound" => call.of.msg \in {"kOpenRecord", "kCreateRecordAndOpen"} /\ Creates
  /\ more => call.of.msg \in Continued /\ value \notin Failures
  /\ value = "TooSmall" /\ call.of.msg \in DOMAIN ListReply \cup DOMAIN SearchReply => more
  /\ call.of.msg \in Continued /\ StaleContext => value = "Error"
  /\ heap' = (TakenAll \cup (IF value \in Failures THEN {} ELSE Range(PackageReply[call.of.msg]) \cap PluginMakes))
              \ DoFreeMemory[call.of.msg]
  /\ IF value \in Failures
     THEN /\ Answer(Refusal, value, "processed")
          /\ table' = CleanedUp(NumbersLeft(value))
     ELSE /\ Answer(ClearedResult \o PackageReply[call.of.msg] \o ContextPart(Continued), value,
                    IF more /\ Has("kContextData") THEN "continued" ELSE "processed")
          /\ table' = IF call.of.msg = "kDeleteRecord" THEN Without(Range(call.refs)) ELSE Entered
  /\ kept' = CASE ~Has("kContextData") -> kept \cap DOMAIN table'
              [] how' = "continued" -> kept \cup {Node}
              [] OTHER -> IF Node \in held THEN kept \ {Node} ELSE kept

\* The plug-in is inactive or failed to start (an error), or has still not
\* started after two minutes: then there is neither error nor answer, and the
\* request itself goes back.
AnswerUnprocessed(started) ==
  /\ stage = "sent" /\ StuckAt = {} /\ ~IsServerRequest /\ ~OnDirectory
  /\ call.of.msg # "kDoPlugInCustomCall"
  /\ heap' = TakenAll \ DoFreeMemory[call.of.msg]
  /\ IF started
     THEN Answer(Refusal, "Error", "unprocessed") /\ table' = CleanedUp(Created)
     ELSE Answer(message, "none", "unanswered") /\ table' = Entered
  /\ kept' = kept \cap DOMAIN table'

\* Continue data released on a directory reference: no plug-in is found and
\* the request goes back as it came (the result -1212).
ReleaseOnDirectory ==
  /\ stage = "sent" /\ StuckAt = {} /\ OnDirectory
  /\ Answer(message, "none", "on directory")
  /\ UNCHANGED <<table, kept, heap>>

-----------------------------------------------------------------------------
(* The client receives.                                                    *)

\* The parts the call takes out of a successful answer.
Expected == call.of.reads \cup (call.of.wants \cap call.given)
Complete == Expected \subseteq Range(message)
Returned == (Succeeded \/ Tolerated) /\ Complete

\* The reference in the answer is handed to the caller.  In an unanswered
\* request there is at most the place holder, 0.
Gained == IF Returned /\ Has("kResult") /\ fresh # 0 /\ Expected \cap RefParts # {} THEN {fresh} ELSE {}
\* The caller does not use a reference that is closed, or was refused.
Closes == handler.closes \/ call.of.msg = "kDeleteRecord"
Lost == {ref \in Range(call.refs) : (Closes /\ Succeeded) \/ ref \notin DOMAIN table}

\* dsGetRecordList clears the caller's continue data when it fails.
Clears == call.of.msg = "kGetRecordList" /\ ~Returned

Continuing == call.of.msg \in Continued /\ "kContextData" \in call.given

\* Released continue data are forgotten whatever the answer.
Receive ==
  /\ stage = "replied"
  /\ known' = Restrict(known, DOMAIN known \ Lost) @@ [ref \in Gained |-> table[ref].kind]
  /\ \E n \in (IF call.of.msg # "kReleaseContinueData" THEN {0} ELSE IF how = "on directory" THEN held ELSE {Node}) :
       held' = DOMAIN known' \cap
         (IF ~Continuing \/ (~Returned /\ ~Clears) \/ how = "unanswered" THEN held \ {n}
          ELSE IF how = "continued" /\ Returned THEN held \cup {Node}
          ELSE held \ {Node})
  /\ stage' = "idle"
  /\ call' = NoCall
  /\ message' = <<>>
  /\ result' = "none"
  /\ how' = "none"
  /\ fresh' = 0
  /\ heap' = {}
  /\ UNCHANGED <<table, kept>>

\* The data about a node came in a standard buffer, which the library takes
\* apart itself: it closes the daemon's attribute list at once.
ReceiveStandardInfo ==
  /\ stage = "replied" /\ call.of.msg = "kGetDirNodeInfo" /\ Gained # {}
  /\ known' = known @@ [ref \in Gained |-> table[ref].kind]
  /\ held' = IF "kContextData" \in call.given
             THEN IF how = "continued" THEN held \cup {Node} ELSE held \ {Node}
             ELSE held
  /\ call' = [of |-> dsCloseAttributeList, given |-> {}, refs |-> ("ktAttrListRef" :> fresh)]
  /\ message' = dsCloseAttributeList.packs
  /\ stage' = "sent"
  /\ result' = "none"
  /\ how' = "none"
  /\ fresh' = 0
  /\ heap' = {}
  /\ UNCHANGED <<table, kept>>

-----------------------------------------------------------------------------
Next ==
  \/ \E of \in Calls : \E given \in SUBSET (of.opt \cup of.wants), refs \in Arguments(of) : Send(of, given, refs)
  \/ Refuse
  \/ RefuseDisabled
  \/ \E ok \in BOOLEAN : ServeServerCall(ok)
  \/ \E value \in {"NoErr", "TooSmall"} \cup Failures, more \in BOOLEAN : ServePluginCall(value, more)
  \/ \E started \in BOOLEAN : AnswerUnprocessed(started)
  \/ ReleaseOnDirectory
  \/ Receive
  \/ ReceiveStandardInfo

Spec == Init /\ [][Next]_vars

-----------------------------------------------------------------------------
(* Properties.                                                             *)

\* What the handler cannot do without is packed, or is an argument the caller
\* left out (a nil count, or no buffer for the answer of a custom call).
NoPartMissing ==
  stage = "sent" => \A part \in Range(handler.reads) : Has(part) \/ part \in call.of.opt

\* What the call reads back is packed.
RepliesComplete ==
  (stage = "replied" /\ how \in {"processed", "continued"} /\ (Succeeded \/ Tolerated)) => Complete

\* The slots of the block suffice, and no slot is needed twice.
SlotsSuffice == Fits(message)

\* Library and daemon agree on the parts of every request and every answer,
\* and these fit into the block (the search with data needs all ten slots): no
\* call fails with one of the errors for a part that is missing or has no
\* room, however it goes and whatever the caller leaves out.
PartsAgree == NoPartMissing /\ RepliesComplete /\ SlotsSuffice

\* Whatever comes of a request, the daemon frees all it took out of it and all
\* the plug-in made for the answer, unless a handler gives up half-way.
NothingLeaked == stage = "replied" /\ how # "refused" => heap = {}

\* A call that succeeds for the client was processed, except when the plug-in
\* did not start in two minutes, or continue data were released on a directory
\* reference.
SuccessIsProcessed ==
  stage = "replied" /\ Succeeded => how \in {"processed", "continued", "unanswered", "on directory"}

\* A request that has come back is done with on both sides: what it took is
\* freed, and a success says what happened.
RequestsSettled == NothingLeaked /\ SuccessIsProcessed

\* A reference made for a request is handed to the client or removed again,
\* and the client gives none up that the daemon still has.  Left over are those
\* of dsGetDirNodeInfo with a buffer too small, of requests never answered, and of
\* a record that a base plug-in did not find: FailedCallRefCleanUp then removes
\* reference 0, and the one made for the call stays until its node is closed.
Strandable ==
  \/ how = "unanswered"
  \/ call.of.msg = "kGetDirNodeInfo" /\ result = "TooSmall"
  \/ result = "NotFound"
NoneStranded ==
  [][stage = "replied" /\ ~Strandable =>
       \A ref \in {fresh} \cup DOMAIN known : ref \in DOMAIN table' => ref \in DOMAIN known']_vars

\* Continue data the plug-in keeps for a call stay with the client until it
\* releases them; they are lost only when the plug-in did not get to the
\* request, when dsGetDirNodeInfo or an authentication does not accept that its
\* buffer is too small, when dsGetRecordList is called without a count, or when
\* they are released on a directory reference.
Losable ==
  \/ how \in {"unprocessed", "unanswered", "disabled", "on directory"}
  \/ (result = "TooSmall" /\ ~Tolerated)
  \/ (how = "refused" /\ call.of.msg = "kGetRecordList" /\ "kAttrRecEntryCount" \notin call.given)
ContextKept ==
  [][stage = "replied" /\ ~Losable =>
       \A node \in kept' \cap DOMAIN known' :
         node \in held \/ (node = Node /\ how = "continued") => node \in held']_vars
=============================================================================
