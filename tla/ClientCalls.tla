----------------------------- MODULE ClientCalls -----------------------------
(***************************************************************************)
(* The calls of the client library (APIFramework/DirServices.cpp) as the   *)
(* messages they make.  Every dsXxx that talks to the daemon clears the    *)
(* message, puts its parts into it, sends it, waits for the answer and     *)
(* takes the result and the values it asked for out of the same message.   *)
(* The calls are alike in that and differ in these lists:                  *)
(*                                                                         *)
(*   msg      the kind of request                                          *)
(*   packs    the parts it always sends, in their order                    *)
(*   opt      the parts it sends if the caller passed the argument         *)
(*   reads    the parts of a successful answer it cannot do without        *)
(*   wants    the parts it cannot do without if the caller asked for them  *)
(*                                                                         *)
(* Calls that work on a buffer the caller already has (dsGetDirNodeName,   *)
(* dsGetNextAttributeEntry, and the forms for standard buffers) send       *)
(* nothing and are not here.                                               *)
(*                                                                         *)
(* Operators with a suffix are faulty variants of the one that follows.    *)
(***************************************************************************)
EXTENDS Sequences, TLC

Call(msg, packs, opt, reads, wants) ==
  [msg |-> msg, packs |-> packs, opt |-> opt, reads |-> reads, wants |-> wants]
Asking(msg, packs, reads) == Call(msg, packs, {}, reads, {})
Telling(msg, packs) == Call(msg, packs, {}, {}, {})

Context == {"kContextData"}

-----------------------------------------------------------------------------
\* The directory service itself.
dsOpenDirService == Asking("kOpenDirService", <<>>, {"ktDirRef"})
dsOpenDirServiceProxy ==
  Call("kOpenDirServiceProxy", <<"ktDataBuff", "kAuthMethod", "kAuthStepBuff", "kAuthResponseBuff">>,
       Context, {"ktDirRef"}, {})
dsOpenDirServiceLocal == Asking("kOpenDirServiceLocal", <<"ktDataBuff">>, {"ktDirRef"})
dsCloseDirService == Telling("kCloseDirService", <<"ktDirRef", "kNodeCount">>)
dsAddChildPIDToReference == Telling("kAddChildPIDToReference", <<"ktDirRef", "ktPidRef", "ktGenericRef">>)
dsGetDirNodeCount == Asking("kGetDirNodeCount", <<"ktDirRef">>, {"kNodeCount"})
dsGetDirNodeCountWithInfo ==
  Call("kGetDirNodeChangeToken", <<"ktDirRef">>, {}, {}, {"kNodeCount", "kNodeChangeToken"})
dsVerifyDirRefNum == Telling("kVerifyDirRefNum", <<"ktDirRef">>)

-----------------------------------------------------------------------------
\* Nodes.  The pattern is sent unless a predefined node is asked for.
dsGetDirNodeList ==
  Call("kGetDirNodeList", <<"ktDirRef", "kOutBuffLen">>, Context, {"ktDataBuff", "kNodeCount"}, Context)
dsFindDirNodes ==
  Call("kFindDirNodes", <<"ktDirRef", "kOutBuffLen", "ktDirPattMatch">>, {"kNodeNamePatt", "kContextData"},
       {"ktDataBuff", "kNodeCount"}, Context)
\* The node reference in the request is a place holder, 0.
dsOpenDirNode == Asking("kOpenDirNode", <<"ktDirRef", "kDirNodeName", "ktNodeRef">>, {"ktNodeRef"})
dsCloseDirNode == Telling("kCloseDirNode", <<"ktNodeRef">>)
dsGetDirNodeInfo ==
  Call("kGetDirNodeInfo", <<"ktNodeRef", "kOutBuffLen", "kNodeInfoTypeList", "kAttrInfoOnly">>, Context,
       {"ktDataBuff", "kAttrInfoCount", "ktAttrListRef"}, Context)
\* The reference may be one of a directory or, as most callers have it, of a node.
dsReleaseContinueData == Telling("kReleaseContinueData", <<"ktDirRef", "kContextData">>)
\* Nothing fails if the answer lacks the buffer.
dsDoPlugInCustomCall ==
  Call("kDoPlugInCustomCall", <<"ktNodeRef", "ktNodeRefMap", "kCustomRequestCode", "ktDataBuff">>,
       {"kOutBuffLen"}, {}, {})

-----------------------------------------------------------------------------
\* Lists and searches.
dsGetRecordList_NoTypes ==
  Call("kGetRecordList",
       <<"ktNodeRef", "kOutBuffLen", "kRecNameList", "ktDirPattMatch", "kRecTypeList", "kAttrInfoOnly">>,
       {"kAttrRecEntryCount", "kContextData"}, {"ktDataBuff"}, {"kAttrRecEntryCount", "kContextData"})

dsGetRecordList ==
  Call("kGetRecordList",
       <<"ktNodeRef", "kOutBuffLen", "kRecNameList", "ktDirPattMatch", "kRecTypeList", "kAttrTypeList",
         "kAttrInfoOnly">>,
       {"kAttrRecEntryCount", "kContextData"}, {"ktDataBuff"}, {"kAttrRecEntryCount", "kContextData"})

dsDoAttributeValueSearch ==
  Call("kDoAttributeValueSearch",
       <<"ktNodeRef", "kOutBuffLen", "kRecTypeList", "kAttrType", "kAttrPattMatch", "kAttrMatch">>,
       {"kMatchRecCount", "kContextData"}, {"ktDataBuff"}, {"kMatchRecCount", "kContextData"})
dsDoMultipleAttributeValueSearch ==
  Call("kDoMultipleAttributeValueSearch",
       <<"ktNodeRef", "kOutBuffLen", "kRecTypeList", "kAttrType", "kAttrPattMatch", "kAttrMatches">>,
       {"kMatchRecCount", "kContextData"}, {"ktDataBuff"}, {"kMatchRecCount", "kContextData"})
dsDoAttributeValueSearchWithData ==
  Call("kDoAttributeValueSearchWithData",
       <<"ktNodeRef", "kOutBuffLen", "kRecTypeList", "kAttrType", "kAttrPattMatch", "kAttrMatch",
         "kAttrTypeRequestList", "kAttrInfoOnly">>,
       {"kMatchRecCount", "kContextData"}, {"ktDataBuff"}, {"kMatchRecCount", "kContextData"})
dsDoMultipleAttributeValueSearchWithData ==
  Call("kDoMultipleAttributeValueSearchWithData",
       <<"ktNodeRef", "kOutBuffLen", "kRecTypeList", "kAttrType", "kAttrPattMatch", "kAttrMatches",
         "kAttrTypeRequestList", "kAttrInfoOnly">>,
       {"kMatchRecCount", "kContextData"}, {"ktDataBuff"}, {"kMatchRecCount", "kContextData"})

\* The buffer such a call filled goes back to be taken apart.
dsGetRecordEntry ==
  Asking("kGetRecordEntry", <<"ktNodeRef", "ktDataBuff", "kRecEntryIndex">>,
         {"ktDataBuff", "ktAttrListRef", "ktRecordEntry"})
dsGetAttributeEntry ==
  Asking("kGetAttributeEntry", <<"ktNodeRef", "ktDataBuff", "ktAttrListRef", "kAttrInfoIndex">>,
         {"ktDataBuff", "ktAttrValueListRef", "ktAttrEntry"})
dsGetAttributeValue ==
  Asking("kGetAttributeValue", <<"ktNodeRef", "ktDataBuff", "kAttrValueIndex", "ktAttrValueListRef">>,
         {"ktDataBuff", "ktAttrValueEntry"})
dsCloseAttributeList == Telling("kCloseAttributeList", <<"ktAttrListRef">>)
dsCloseAttributeValueList == Telling("kCloseAttributeValueList", <<"ktAttrValueListRef">>)

-----------------------------------------------------------------------------
\* Records.
dsOpenRecord == Asking("kOpenRecord", <<"ktNodeRef", "kRecTypeBuff", "kRecNameBuff">>, {"ktRecRef"})
dsGetRecordReferenceInfo == Asking("kGetRecordReferenceInfo", <<"ktRecRef">>, {"ktRecordEntry"})
dsGetRecordAttributeInfo == Asking("kGetRecordAttributeInfo", <<"ktRecRef", "kAttrTypeBuff">>, {"ktAttrEntry"})
dsGetRecordAttributeValueByID ==
  Asking("kGetRecordAttributeValueByID", <<"ktRecRef", "kAttrTypeBuff", "kAttrValueID">>, {"ktAttrValueEntry"})
dsGetRecordAttributeValueByIndex ==
  Asking("kGetRecordAttributeValueByIndex", <<"ktRecRef", "kAttrTypeBuff", "kAttrValueIndex">>,
         {"ktAttrValueEntry"})
dsGetRecordAttributeValueByValue ==
  Asking("kGetRecordAttributeValueByValue", <<"ktRecRef", "kAttrTypeBuff", "kAttrValueBuff">>,
         {"ktAttrValueEntry"})
dsFlushRecord == Telling("kFlushRecord", <<"ktRecRef">>)
dsCloseRecord == Telling("kCloseRecord", <<"ktRecRef">>)
dsSetRecordName == Telling("kSetRecordName", <<"ktRecRef", "kRecNameBuff">>)
dsSetRecordType == Telling("kSetRecordType", <<"ktRecRef", "kRecTypeBuff">>)
dsDeleteRecord == Telling("kDeleteRecord", <<"ktRecRef">>)
dsCreateRecord == Telling("kCreateRecord", <<"ktNodeRef", "kRecTypeBuff", "kRecNameBuff", "kOpenRecBool">>)
\* A caller that does not want the reference sends kOpenRecBool false.
dsCreateRecordAndOpen ==
  Call("kCreateRecordAndOpen", <<"ktNodeRef", "kRecTypeBuff", "kRecNameBuff", "kOpenRecBool">>, {}, {},
       {"ktRecRef"})
dsAddAttribute == Call("kAddAttribute", <<"ktRecRef", "kNewAttrBuff">>, {"kFirstAttrBuff"}, {}, {})
dsRemoveAttribute == Telling("kRemoveAttribute", <<"ktRecRef", "kAttrBuff">>)
dsAddAttributeValue == Telling("kAddAttributeValue", <<"ktRecRef", "kAttrTypeBuff", "kAttrValueBuff">>)
dsRemoveAttributeValue == Telling("kRemoveAttributeValue", <<"ktRecRef", "kAttrTypeBuff", "kAttrValueID">>)
dsSetAttributeValue == Telling("kSetAttributeValue", <<"ktRecRef", "kAttrTypeBuff", "ktAttrValueEntry">>)
dsSetAttributeValues == Telling("kSetAttributeValues", <<"ktRecRef", "kAttrTypeBuff", "kAttrValueList">>)

-----------------------------------------------------------------------------
\* Authentication.  Without a record type the request is of the first kind.
\* Nothing fails if the answer lacks the response.
dsDoDirNodeAuth ==
  Call("kDoDirNodeAuth", <<"ktNodeRef", "kAuthMethod", "kAuthOnlyBool", "kAuthStepBuff", "kAuthResponseBuff">>,
       Context, {}, Context)
dsDoDirNodeAuthOnRecordType ==
  Call("kDoDirNodeAuthOnRecordType",
       <<"ktNodeRef", "kAuthMethod", "kAuthOnlyBool", "kAuthStepBuff", "kAuthResponseBuff", "kRecTypeBuff">>,
       Context, {}, Context)

-----------------------------------------------------------------------------
\* The requests about the service and its nodes, those about the contents of
\* a node, and those about records.
ServiceCalls ==
  {dsOpenDirService, dsOpenDirServiceProxy, dsOpenDirServiceLocal, dsCloseDirService, dsAddChildPIDToReference,
   dsGetDirNodeCount, dsGetDirNodeCountWithInfo, dsVerifyDirRefNum, dsGetDirNodeList, dsFindDirNodes,
   dsOpenDirNode, dsCloseDirNode, dsReleaseContinueData, dsDoPlugInCustomCall, dsGetDirNodeInfo}
ListCalls ==
  {dsGetRecordList, dsDoAttributeValueSearch, dsDoMultipleAttributeValueSearch,
   dsDoAttributeValueSearchWithData, dsDoMultipleAttributeValueSearchWithData, dsGetRecordEntry,
   dsGetAttributeEntry, dsGetAttributeValue, dsCloseAttributeList, dsCloseAttributeValueList, dsDoDirNodeAuth,
   dsDoDirNodeAuthOnRecordType}
RecordCalls ==
  {dsOpenRecord, dsGetRecordReferenceInfo, dsGetRecordAttributeInfo, dsGetRecordAttributeValueByID,
   dsGetRecordAttributeValueByIndex, dsGetRecordAttributeValueByValue, dsFlushRecord, dsCloseRecord,
   dsSetRecordName, dsSetRecordType, dsDeleteRecord, dsCreateRecord, dsCreateRecordAndOpen, dsAddAttribute,
   dsRemoveAttribute, dsAddAttributeValue, dsRemoveAttributeValue, dsSetAttributeValue, dsSetAttributeValues}

DirServices == ServiceCalls \cup ListCalls \cup RecordCalls
=============================================================================
