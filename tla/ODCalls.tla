------------------------------- MODULE ODCalls -------------------------------
(***************************************************************************)
(* The calls of the Open Directory framework (CFOpenDirectory.c), as what  *)
(* they ask of the client library.  A call is a set of ways it can go, and *)
(* a way is a sequence of steps:                                           *)
(*                                                                         *)
(*   do    "ask", "open" or "close" a reference, or a step of the library  *)
(*         itself (see ODFramework)                                        *)
(*   op    the call of the client library                                  *)
(*   on    the object whose reference it uses or opens: "session", "node", *)
(*         "temp" (a second node), "record", "made" (a second record), or  *)
(*         "its", the node of the record                                   *)
(*   heal  what the framework does when the daemon does not know that      *)
(*         reference                                                       *)
(*   when  "first" or "must": has to succeed for the call to go on, "may": *)
(*         may fail, "failed": only after a failure, "always": also then;  *)
(*         after a failure of the "first" there is nothing to undo         *)
(*                                                                         *)
(* Where the values of an attribute decide how a call goes, it may go      *)
(* either way.  Arguments are checked first and are taken to be right.     *)
(***************************************************************************)
EXTENDS Sequences, TLC

Step(do, op, on, heal, when) == [do |-> do, op |-> op, on |-> on, heal |-> heal, when |-> when]

Ask(op, on, heal) == Step("ask", op, on, heal, "must")
Open(op, on, heal) == Step("open", op, on, heal, "must")
May(step) == [step EXCEPT !.when = "may"]
First(step) == [step EXCEPT !.when = "first"]
IfFailed(step) == [step EXCEPT !.when = "failed"]
\* The second node becomes that of the record.
Adopt == Step("adopt", "CFRelease", "temp", "", "may")
Release(on) == Step("release", "CFRelease", on, "", "always")

\* Every way of one, then every way of the other.
Then(one, other) == {w \o v : w \in one, v \in other}

-----------------------------------------------------------------------------
\* What several calls share.
_Authenticate(on) == {<<Ask("dsDoDirNodeAuth", on, "node, not again")>>}
_ODNodeCopyDetails(on) == {<<Ask("dsGetDirNodeInfo", on, "verify")>>}
_ODNodeCopyRecord(on) == {<<Ask("dsGetRecordList", on, "verify")>>}
ODNodeCustomCall(on) == {<<Ask("dsDoPlugInCustomCall", on, "verify, regardless")>>}
_ODNodeInitWithName(on) == {<<Open("dsOpenDirNode", on, "session, once")>>}
_FindDirNode(on) == {<<Ask("dsFindDirNodes", "session", "session, once"), Open("dsOpenDirNode", on, "")>>}
\* The node it copies is not looked at; a copy that cannot be opened is returned all the same.
_ODNodeCreateCopy(of) == {<<Step("copy", "_ODNodeCreateCopy", of, "", "may"), May(Open("dsOpenDirNode", "temp", "session"))>>}
_VerifyNodeTypeForChange(rec) == {<<Step("switch", "_VerifyNodeTypeForChange", rec, "", "may")>>}
\* Kept in the record, or asked of the record, or of its node.
_ODRecordGetValues(rec) == {<<Step("values", "_ODRecordGetValues", rec, "", "may")>>}

-----------------------------------------------------------------------------
\* Sessions.
_ODSessionInit == {<<Open("dsOpenDirService", "other", ""), Release("other")>>}
ODSessionCreateWithDSRef == {<<Ask("dsVerifyDirRefNum, as given", "session", "")>>}
ODSessionCopyNodeNames == {<<Ask("dsGetDirNodeList", "session", "session, regardless")>>}

\* Nodes.  A node the caller has made is released again.
_ODNodeCreateWithName == Then(_ODNodeInitWithName("temp"), {<<Release("temp")>>})
_ODNodeInitWithType == Then(_FindDirNode("temp"), {<<Release("temp")>>})
ODNodeCreateCopy == Then(_ODNodeCreateCopy("node"), {<<Release("temp")>>})
ODNodeCreateWithDSRef == {<<Ask("dsVerifyDirRefNum, as given", "session", ""), Ask("dsGetDirNodeInfo, as given", "node", "")>>}
ODNodeCopyDetails == _ODNodeCopyDetails("node")
ODNodeCopySubnodeNames == _ODNodeCopyDetails("node")
\* A search node answers itself; the subnodes of others are opened to see.
ODNodeCopyUnreachableSubnodeNames ==
  ODNodeCustomCall("node") \cup
  {<<Ask("dsGetDirNodeInfo", "node", "verify"), May(Open("dsOpenDirNode", "temp", "session, once")),
     May(Ask("dsGetDirNodeInfo", "temp", "verify")), Release("temp")>>}
\* The names are the node's, or the configuration node's.
ODNodeCopySupportedRecordTypes ==
  _ODNodeCopyDetails("node") \cup
  Then({<<May(Ask("dsGetDirNodeInfo", "node", "verify"))>>},
       Then(_FindDirNode("temp"), {<<Ask("dsGetRecordList", "temp", "verify"), Release("temp")>>}))
\* The attributes of one type are a record, and those of all a search.  The
\* configuration node is released after the search, not after the record.
ODNodeCopySupportedAttributes ==
  Then(_FindDirNode("temp"),
       {<<Ask("dsGetRecordList", "temp", "verify"), Release("temp")>>,
        <<Ask("dsGetRecordList", "temp", "verify"), Step("abandon", "ODNodeCopySupportedAttributes", "temp", "", "always")>>})

\* Credentials.  The password is kept for the next time the node is opened.
_ODNodeSetCredentials(on) ==
  Then(_Authenticate(on), {<<Step("keep", "_ODNodeSetCredentials", on, "", "must")>>})
_ODNodeSetCredentialsExtended(on) ==
  {<<Ask("dsDoDirNodeAuthOnRecordType", on, "node, not again")>>} \cup _Authenticate(on)
ODNodeSetCredentialsUsingKerberosCache(on) == Then(_Authenticate(on), _Authenticate(on))

\* Searches; the first part may be asked again, the others may not.
_ODQueryCopyResults ==
  {<<Ask("dsGetRecordList", "node", "verify")>>,
   <<Ask("dsDoAttributeValueSearchWithData", "node", "verify")>>,
   <<Ask("dsDoMultipleAttributeValueSearchWithData", "node", "verify")>>,
   <<Ask("dsDoMultipleAttributeValueSearchWithData", "node", "verify"), Ask("the rest of a search", "node", "")>>}

-----------------------------------------------------------------------------
\* Values of the record rec.
_ODRecordAddValue(rec) ==
  Then(_VerifyNodeTypeForChange(rec),
       {<<Ask("dsAddAttributeValue", rec, "record")>>,
        <<May(Ask("dsAddAttributeValue", rec, "record")), Ask("dsAddAttribute", rec, "record")>>})

\* A value that is not found needs not be removed, whatever the reason.
ODRecordRemoveValue(rec) ==
  Then(_VerifyNodeTypeForChange(rec),
       {<<May(Ask("dsGetRecordAttributeValueByValue", rec, "record"))>>,
        <<May(Ask("dsGetRecordAttributeValueByValue", rec, "record")), Ask("dsRemoveAttributeValue", rec, "record")>>,
        <<May(Ask("dsGetRecordAttributeValueByValue", rec, "record")),
          May(Ask("dsGetRecordAttributeValueByIndex", rec, "record")), Ask("dsRemoveAttributeValue", rec, "record")>>})

\* The name and values of a record's name.
SetNames(rec) ==
  {<<May(Ask("dsRemoveAttributeValue", rec, "record")), Ask("dsSetRecordName", rec, "record"),
     Ask("dsAddAttributeValue", rec, "record")>>}

\* All values at once; a node that cannot do that is given and relieved of
\* them one by one.
_ODRecordSetValues(rec) ==
  Then(_VerifyNodeTypeForChange(rec),
    Then(_ODRecordGetValues(rec),
      {<<Ask("dsSetAttributeValues", rec, "record")>>,
       <<Ask("dsRemoveAttribute", rec, "record")>>,
       <<May(Ask("dsSetAttributeValues", rec, "record")), Ask("dsAddAttributeValue", rec, "record"),
         Ask("dsRemoveAttributeValue", rec, "record")>>} \cup SetNames(rec)))

_ODRecordDelete(rec) == Then(_VerifyNodeTypeForChange(rec), {<<Ask("dsDeleteRecord", rec, "record")>>})

_ODRecordChangePassword == Then(_VerifyNodeTypeForChange("record"), _Authenticate("its"))
ODRecordVerifyPassword == Then(_VerifyNodeTypeForChange("record"), _Authenticate("its"))
ODRecordVerifyPasswordExtended == Then(_VerifyNodeTypeForChange("record"), _Authenticate("its"))
ODRecordCopyPasswordPolicy ==
  Then(_VerifyNodeTypeForChange("record"), {<<May(Ask("dsDoDirNodeAuth", "its", "node, not again"))>>})
ODRecordCopyValues == _ODRecordGetValues("record")
ODRecordCopyDetails == {<<>>} \cup Then(_VerifyNodeTypeForChange("record"), _ODNodeCopyRecord("its"))

\* The record is closed, so that the node writes it, and read again.
ODRecordSynchronize ==
  Then(_VerifyNodeTypeForChange("record"),
       Then({<<Step("close", "dsCloseRecord", "record", "", "may")>>}, _ODNodeCopyRecord("its")))

\* The record's node is replaced by a copy of its own if that one takes the credentials.
Adopting(credentials) ==
  Then(_VerifyNodeTypeForChange("record"),
       {<<>>} \cup Then(_ODNodeCreateCopy("its"),
                        Then(credentials, {<<Adopt, Release("temp")>>})))
ODRecordSetNodeCredentials == Adopting(_ODNodeSetCredentials("temp"))
ODRecordSetNodeCredentialsExtended == Adopting(_ODNodeSetCredentialsExtended("temp"))
ODRecordSetNodeCredentialsUsingKerberosCache == Adopting(ODNodeSetCredentialsUsingKerberosCache("temp"))

\* Members are values of the group; what keys it has decides which.
__MembershipApplyBlock(change) == Then(_ODRecordGetValues("record"), Then(_ODRecordGetValues("record"), change))
ODRecordAddMember == Then(_VerifyNodeTypeForChange("record"), __MembershipApplyBlock(_ODRecordAddValue("record")))
ODRecordRemoveMember == Then(_VerifyNodeTypeForChange("record"), __MembershipApplyBlock(ODRecordRemoveValue("record")))
_ODRecordContainsMember == Then(_ODRecordGetValues("record"), _ODRecordGetValues("record"))

\* A record that is not open (see Begin) is opened; how that went is not looked at.
ODRecordGetDSRef == {<<May(Open("dsOpenRecord", "record", "node"))>>}

\* A record is made, given its unique ID if the node takes one, its other
\* names, its values and its password, and written; if any fails it is
\* deleted.  The caller releases it.
ODNodeCreateRecord ==
  {<<First(Open("dsCreateRecordAndOpen", "made", "node, not again")), May(Ask("dsSetAttributeValues", "made", "record"))>> \o w \o
   <<IfFailed(Ask("dsDeleteRecord", "made", "record")), May(Ask("dsFlushRecord", "made", "")), Release("made")>> :
     w \in {<<>>, <<Ask("dsAddAttributeValue", "made", "record"), Ask("dsSetAttributeValues", "made", "record")>>,
            <<May(Ask("dsSetAttributeValues", "made", "record")), Ask("dsDoDirNodeAuth", "node", "node, not again")>>}}

-----------------------------------------------------------------------------
SessionCalls == _ODSessionInit \cup ODSessionCreateWithDSRef \cup ODSessionCopyNodeNames
NodeCalls ==
  _ODNodeCreateWithName \cup _ODNodeInitWithType \cup ODNodeCreateCopy \cup ODNodeCreateWithDSRef \cup ODNodeCopyDetails \cup
  ODNodeCopySubnodeNames \cup ODNodeCopyUnreachableSubnodeNames \cup ODNodeCopySupportedRecordTypes \cup
  ODNodeCopySupportedAttributes \cup ODNodeCustomCall("node") \cup _ODNodeCopyRecord("node") \cup
  _ODNodeSetCredentials("node") \cup _ODNodeSetCredentialsExtended("node") \cup
  ODNodeSetCredentialsUsingKerberosCache("node") \cup _ODQueryCopyResults
RecordCalls ==
  _ODRecordAddValue("record") \cup ODRecordRemoveValue("record") \cup _ODRecordSetValues("record") \cup
  _ODRecordDelete("record") \cup _ODRecordChangePassword \cup ODRecordVerifyPassword \cup ODRecordVerifyPasswordExtended \cup
  ODRecordCopyPasswordPolicy \cup ODRecordCopyValues \cup ODRecordCopyDetails \cup ODRecordSynchronize \cup
  ODRecordSetNodeCredentials \cup ODRecordSetNodeCredentialsExtended \cup ODRecordSetNodeCredentialsUsingKerberosCache \cup
  ODRecordAddMember \cup ODRecordRemoveMember \cup _ODRecordContainsMember \cup ODRecordGetDSRef
=============================================================================
