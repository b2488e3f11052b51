--------------------------- MODULE ServerHandlers ----------------------------
(***************************************************************************)
(* What the handlers of the daemon (Server/CHandlers.cpp) take out of a    *)
(* request, put into the reply and free.  The handlers are alike in        *)
(* control and differ in these lists, so each is given as a record:        *)
(*                                                                         *)
(*   reads    the parts it cannot do without, in the order it reads them;  *)
(*            a reference is verified as soon as it is read                *)
(*   wants    parts it reads if they are there                             *)
(*   creates  the kind of reference it creates, or None                    *)
(*   closes   TRUE if it removes the reference it has verified             *)
(*                                                                         *)
(* Parts have the names of the source (kRecNameBuff).  The parts that are  *)
(* buffers or lists, and kOutBuffLen, the length of the buffer to answer   *)
(* with, make the handler allocate memory; numbers do not.                 *)
(*                                                                         *)
(* Operators with a suffix are faulty variants of the one that follows.    *)
(***************************************************************************)
EXTENDS Naturals, SequencesExt

None == "none"

\* The kind a reference is verified to have.
Kind == [ktDirRef |-> "Dir", ktNodeRef |-> "DirNode", ktRecRef |-> "Record",
         ktAttrListRef |-> "AttributeList", ktAttrValueListRef |-> "AttributeValueList"]
RefParts == DOMAIN Kind

Numbers == RefParts \cup
  {"kResult", "ktNodeRefMap", "kCustomRequestCode", "kAttrPattMatch", "ktDirPattMatch",
   "kContextData", "kMatchRecCount", "kAttrInfoOnly", "kAttrRecEntryCount", "kRecEntryIndex",
   "kAttrInfoIndex", "kAttrValueIndex", "kAttrValueID", "kOpenRecBool", "kAuthOnlyBool",
   "kNodeCount", "kNodeChangeToken", "kAttrInfoCount", "ktPidRef", "ktGenericRef"}
Allocated(parts) == parts \ Numbers

Handler(reads, wants, creates, closes) ==
  [reads |-> reads, wants |-> wants, creates |-> creates, closes |-> closes]
Reading(reads) == Handler(reads, {}, None, FALSE)
Creating(kind, reads) == Handler(reads, {}, kind, FALSE)
Closing(reads) == Handler(reads, {}, None, TRUE)

-----------------------------------------------------------------------------
\* HandleServerCall: requests the daemon serves itself.
OpenDirService == Creating("Dir", <<>>)
OpenDirServiceProxy == Creating("Dir", <<"ktDataBuff", "kAuthStepBuff">>)
OpenDirServiceLocal == Creating("Dir", <<"ktDataBuff">>)
CloseDirService == Closing(<<"ktDirRef">>)
GetDirNodeCount == Reading(<<"ktDirRef">>)
GetDirNodeChangeToken == Reading(<<"ktDirRef">>)
VerifyDirRefNum == Reading(<<"ktDirRef">>)
\* It reads three parts, uses none and refuses every request.
AddChildPIDToReference == Handler(<<>>, {"ktDirRef", "ktGenericRef", "ktPidRef"}, None, FALSE)
GetNodeList == Handler(<<"ktDirRef", "kOutBuffLen">>, {"kContextData"}, None, FALSE)
\* The pattern is read unless the request is for a predefined node.
FindDirNodes ==
  Handler(<<"ktDirRef", "kOutBuffLen", "ktDirPattMatch">>, {"kContextData", "kNodeNamePatt"}, None, FALSE)

-----------------------------------------------------------------------------
\* GetRequestData: requests for a plug-in.  Directory nodes:
DoReleaseContinueData == Reading(<<"ktDirRef", "kContextData">>)
DoPlugInCustomCall ==
  Handler(<<"ktNodeRef", "kCustomRequestCode", "ktDataBuff", "kOutBuffLen">>, {"ktNodeRefMap"}, None, FALSE)
DoOpenDirNode == Creating("DirNode", <<"ktDirRef", "kDirNodeName">>)
DoCloseDirNode == Closing(<<"ktNodeRef">>)
DoGetDirNodeInfo ==
  Handler(<<"ktNodeRef", "kNodeInfoTypeList", "kOutBuffLen", "kAttrInfoOnly">>,
          {"kContextData"}, "AttributeList", FALSE)

\* Searches and lists:
DoAttributeValueSearch ==
  Handler(<<"ktNodeRef", "kOutBuffLen", "kRecTypeList", "kAttrType", "kAttrPattMatch", "kAttrMatch",
            "kMatchRecCount">>, {"kContextData"}, None, FALSE)
DoMultipleAttributeValueSearch ==
  Handler(<<"ktNodeRef", "kOutBuffLen", "kRecTypeList", "kAttrType", "kAttrPattMatch", "kAttrMatches",
            "kMatchRecCount">>, {"kContextData"}, None, FALSE)
DoAttributeValueSearchWithData ==
  Handler(<<"ktNodeRef", "kOutBuffLen", "kRecTypeList", "kAttrType", "kAttrPattMatch", "kAttrMatch",
            "kAttrTypeRequestList", "kAttrInfoOnly", "kMatchRecCount">>, {"kContextData"}, None, FALSE)
DoMultipleAttributeValueSearchWithData ==
  Handler(<<"ktNodeRef", "kOutBuffLen", "kRecTypeList", "kAttrType", "kAttrPattMatch", "kAttrMatches",
            "kAttrTypeRequestList", "kAttrInfoOnly", "kMatchRecCount">>, {"kContextData"}, None, FALSE)
DoGetRecordList ==
  Handler(<<"ktNodeRef", "kOutBuffLen", "kRecNameList", "ktDirPattMatch", "kRecTypeList", "kAttrTypeList",
            "kAttrInfoOnly", "kAttrRecEntryCount">>, {"kContextData"}, None, FALSE)

\* Entries of a buffer that a search or list has filled:
DoGetRecordEntry == Creating("AttributeList", <<"ktNodeRef", "ktDataBuff", "kRecEntryIndex">>)
DoGetAttributeEntry ==
  Creating("AttributeValueList", <<"ktNodeRef", "ktDataBuff", "ktAttrListRef", "kAttrInfoIndex">>)
DoGetAttributeValue == Reading(<<"ktNodeRef", "ktDataBuff", "kAttrValueIndex", "ktAttrValueListRef">>)
DoCloseAttributeList == Closing(<<"ktAttrListRef">>)
DoCloseAttributeValueList == Closing(<<"ktAttrValueListRef">>)

\* Records:
DoOpenRecord == Creating("Record", <<"ktNodeRef", "kRecTypeBuff", "kRecNameBuff">>)
DoCloseRecord == Closing(<<"ktRecRef">>)
DoFlushRecord == Reading(<<"ktRecRef">>)
DoGetRecRefInfo == Reading(<<"ktRecRef">>)
DoGetRecAttribInfo == Reading(<<"ktRecRef", "kAttrTypeBuff">>)
DoGetRecordAttributeValueByID == Reading(<<"ktRecRef", "kAttrTypeBuff", "kAttrValueID">>)
DoGetRecordAttributeValueByIndex == Reading(<<"ktRecRef", "kAttrTypeBuff", "kAttrValueIndex">>)
DoGetRecordAttributeValueByValue == Reading(<<"ktRecRef", "kAttrTypeBuff", "kAttrValueBuff">>)
DoSetRecordName == Reading(<<"ktRecRef", "kRecNameBuff">>)
DoSetRecordType == Reading(<<"ktRecRef", "kRecTypeBuff">>)
DoDeleteRecord == Reading(<<"ktRecRef">>)
\* The reference is created if kOpenRecBool is true.
DoCreateRecord == Creating("Record", <<"ktNodeRef", "kRecTypeBuff", "kRecNameBuff", "kOpenRecBool">>)
DoAddAttribute == Handler(<<"ktRecRef", "kNewAttrBuff">>, {"kFirstAttrBuff"}, None, FALSE)
DoRemoveAttribute == Reading(<<"ktRecRef", "kAttrBuff">>)
DoAddAttributeValue == Reading(<<"ktRecRef", "kAttrTypeBuff", "kAttrValueBuff">>)
DoRemoveAttributeValue == Reading(<<"ktRecRef", "kAttrTypeBuff", "kAttrValueID">>)
DoSetAttributeValue == Reading(<<"ktRecRef", "kAttrTypeBuff", "ktAttrValueEntry">>)
DoSetAttributeValues == Reading(<<"ktRecRef", "kAttrTypeBuff", "kAttrValueList">>)

\* Authentication:
DoAuthentication ==
  Handler(<<"ktNodeRef", "kAuthMethod", "kAuthOnlyBool", "kAuthStepBuff", "kAuthResponseBuff">>,
          {"kContextData"}, None, FALSE)
DoAuthenticationOnRecordType ==
  Handler(<<"ktNodeRef", "kAuthMethod", "kAuthOnlyBool", "kAuthStepBuff", "kAuthResponseBuff",
            "kRecTypeBuff">>, {"kContextData"}, None, FALSE)

-----------------------------------------------------------------------------
HandleServerCall ==
  [kOpenDirService |-> OpenDirService, kOpenDirServiceProxy |-> OpenDirServiceProxy,
   kOpenDirServiceLocal |-> OpenDirServiceLocal, kCloseDirService |-> CloseDirService,
   kGetDirNodeCount |-> GetDirNodeCount, kGetDirNodeChangeToken |-> GetDirNodeChangeToken,
   kGetDirNodeList |-> GetNodeList, kFindDirNodes |-> FindDirNodes,
   kVerifyDirRefNum |-> VerifyDirRefNum, kAddChildPIDToReference |-> AddChildPIDToReference]

GetRequestData ==
  [kReleaseContinueData |-> DoReleaseContinueData, kFlushRecord |-> DoFlushRecord,
   kDoPlugInCustomCall |-> DoPlugInCustomCall, kDoAttributeValueSearch |-> DoAttributeValueSearch,
   kDoMultipleAttributeValueSearch |-> DoMultipleAttributeValueSearch,
   kDoAttributeValueSearchWithData |-> DoAttributeValueSearchWithData,
   kDoMultipleAttributeValueSearchWithData |-> DoMultipleAttributeValueSearchWithData,
   kOpenDirNode |-> DoOpenDirNode, kCloseDirNode |-> DoCloseDirNode,
   kGetDirNodeInfo |-> DoGetDirNodeInfo, kGetRecordList |-> DoGetRecordList,
   kGetRecordEntry |-> DoGetRecordEntry, kGetAttributeEntry |-> DoGetAttributeEntry,
   kGetAttributeValue |-> DoGetAttributeValue, kCloseAttributeList |-> DoCloseAttributeList,
   kCloseAttributeValueList |-> DoCloseAttributeValueList, kOpenRecord |-> DoOpenRecord,
   kGetRecordReferenceInfo |-> DoGetRecRefInfo, kGetRecordAttributeInfo |-> DoGetRecAttribInfo,
   kGetRecordAttributeValueByID |-> DoGetRecordAttributeValueByID,
   kGetRecordAttributeValueByIndex |-> DoGetRecordAttributeValueByIndex,
   kGetRecordAttributeValueByValue |-> DoGetRecordAttributeValueByValue,
   kCloseRecord |-> DoCloseRecord, kSetRecordName |-> DoSetRecordName,
   kSetRecordType |-> DoSetRecordType, kDeleteRecord |-> DoDeleteRecord,
   kCreateRecord |-> DoCreateRecord, kCreateRecordAndOpen |-> DoCreateRecord,
   kAddAttribute |-> DoAddAttribute, kRemoveAttribute |-> DoRemoveAttribute,
   kAddAttributeValue |-> DoAddAttributeValue, kRemoveAttributeValue |-> DoRemoveAttributeValue,
   kSetAttributeValue |-> DoSetAttributeValue, kSetAttributeValues |-> DoSetAttributeValues,
   kDoDirNodeAuth |-> DoAuthentication, kDoDirNodeAuthOnRecordType |-> DoAuthenticationOnRecordType]

HandlerOf == HandleServerCall @@ GetRequestData

-----------------------------------------------------------------------------
\* The replies after kResult.  Those to a request with kContextData hold it
\* as well if the kind of request has one (Continued).
ServerReply ==
  [kOpenDirService |-> <<"ktDirRef">>, kOpenDirServiceProxy |-> <<"ktDirRef", "kNodeCount">>,
   kOpenDirServiceLocal |-> <<"ktDirRef">>, kGetDirNodeCount |-> <<"kNodeCount">>,
   kGetDirNodeChangeToken |-> <<"kNodeCount", "kNodeChangeToken">>,
   kCloseDirService |-> <<>>, kVerifyDirRefNum |-> <<>>, kAddChildPIDToReference |-> <<>>]

SearchReply ==
  [m \in {"kDoAttributeValueSearch", "kDoMultipleAttributeValueSearch", "kDoAttributeValueSearchWithData",
          "kDoMultipleAttributeValueSearchWithData"} |-> <<"kMatchRecCount", "ktDataBuff">>]

NodeReply ==
  [kGetDirNodeList |-> <<"kNodeCount", "ktDataBuff">>, kFindDirNodes |-> <<"ktDataBuff", "kNodeCount">>,
   kOpenDirNode |-> <<"ktNodeRef">>, kGetDirNodeInfo |-> <<"ktDataBuff", "kAttrInfoCount", "ktAttrListRef">>]

ListReply == [kGetRecordList |-> <<"ktDataBuff", "kAttrRecEntryCount">>]

EntryReply ==
  [kGetRecordEntry |-> <<"ktAttrListRef", "ktDataBuff", "ktRecordEntry">>,
   kGetAttributeEntry |-> <<"ktAttrValueListRef", "ktDataBuff", "ktAttrEntry">>,
   kGetAttributeValue |-> <<"ktAttrValueEntry", "ktDataBuff">>]

RecordReply ==
  [kOpenRecord |-> <<"ktRecRef">>, kCreateRecordAndOpen |-> <<"ktRecRef">>,
   kGetRecordReferenceInfo |-> <<"ktRecordEntry">>, kGetRecordAttributeInfo |-> <<"ktAttrEntry">>,
   kGetRecordAttributeValueByID |-> <<"ktAttrValueEntry">>,
   kGetRecordAttributeValueByIndex |-> <<"ktAttrValueEntry">>,
   kGetRecordAttributeValueByValue |-> <<"ktAttrValueEntry">>]

AuthReply ==
  [kDoDirNodeAuth |-> <<"kAuthStepDataResponse">>, kDoDirNodeAuthOnRecordType |-> <<"kAuthStepDataResponse">>]

\* The references are sent back for the swapping of bytes.
CustomReply == [kDoPlugInCustomCall |-> <<"ktDataBuff", "ktNodeRef", "ktNodeRefMap", "kCustomRequestCode">>]

NoReply == [m \in DOMAIN HandlerOf |-> <<>>]

\* @@ prefers its left operand.
PackageReply ==
  ServerReply @@ SearchReply @@ NodeReply @@ ListReply @@ EntryReply @@ RecordReply @@ AuthReply
    @@ CustomReply @@ NoReply

\* Requests whose reply holds continue data if the request did; if it did
\* not, the plug-in is made to release what it returned.  The node list is
\* the daemon's own: its value is only sent back.
Continued ==
  DOMAIN SearchReply \cup DOMAIN AuthReply \cup {"kGetDirNodeInfo", "kGetRecordList"}
Echoed == {"kGetDirNodeList", "kFindDirNodes"}

-----------------------------------------------------------------------------
\* DoFreeMemory: what is freed after a request; the entries are the plug-in's.
FreeNodes ==
  [kGetDirNodeList |-> {"kOutBuffLen"}, kFindDirNodes |-> {"kOutBuffLen", "kNodeNamePatt"},
   kOpenDirNode |-> {"kDirNodeName"}, kGetDirNodeInfo |-> {"kNodeInfoTypeList", "kOutBuffLen"}]

FreeLists ==
  [kGetRecordList |-> {"kOutBuffLen", "kRecNameList", "kRecTypeList", "kAttrTypeList"},
   kGetRecordEntry |-> {"ktDataBuff", "ktRecordEntry"},
   kGetAttributeEntry |-> {"ktDataBuff", "ktAttrEntry"},
   kGetAttributeValue |-> {"ktDataBuff", "ktAttrValueEntry"}]

FreeRecords ==
  [kOpenRecord |-> {"kRecTypeBuff", "kRecNameBuff"}, kGetRecordReferenceInfo |-> {"ktRecordEntry"},
   kGetRecordAttributeInfo |-> {"kAttrTypeBuff", "ktAttrEntry"},
   kGetRecordAttributeValueByID |-> {"kAttrTypeBuff", "ktAttrValueEntry"},
   kGetRecordAttributeValueByIndex |-> {"kAttrTypeBuff", "ktAttrValueEntry"},
   kGetRecordAttributeValueByValue |-> {"kAttrTypeBuff", "kAttrValueBuff", "ktAttrValueEntry"}]

FreeChanges_NoFirst ==
  [kSetRecordName |-> {"kRecNameBuff"}, kSetRecordType |-> {"kRecTypeBuff"},
   kCreateRecord |-> {"kRecTypeBuff", "kRecNameBuff"}, kCreateRecordAndOpen |-> {"kRecTypeBuff", "kRecNameBuff"},
   kAddAttribute |-> {"kNewAttrBuff"}, kRemoveAttribute |-> {"kAttrBuff"},
   kAddAttributeValue |-> {"kAttrTypeBuff", "kAttrValueBuff"}, kRemoveAttributeValue |-> {"kAttrTypeBuff"},
   kSetAttributeValue |-> {"kAttrTypeBuff", "ktAttrValueEntry"},
   kSetAttributeValues |-> {"kAttrTypeBuff", "kAttrValueList"}]

FreeChanges ==
  [kSetRecordName |-> {"kRecNameBuff"}, kSetRecordType |-> {"kRecTypeBuff"},
   kCreateRecord |-> {"kRecTypeBuff", "kRecNameBuff"}, kCreateRecordAndOpen |-> {"kRecTypeBuff", "kRecNameBuff"},
   kAddAttribute |-> {"kNewAttrBuff", "kFirstAttrBuff"}, kRemoveAttribute |-> {"kAttrBuff"},
   kAddAttributeValue |-> {"kAttrTypeBuff", "kAttrValueBuff"}, kRemoveAttributeValue |-> {"kAttrTypeBuff"},
   kSetAttributeValue |-> {"kAttrTypeBuff", "ktAttrValueEntry"},
   kSetAttributeValues |-> {"kAttrTypeBuff", "kAttrValueList"}]

FreeAuth ==
  [kDoDirNodeAuth |-> {"kAuthMethod", "kAuthStepBuff", "kAuthResponseBuff"},
   kDoDirNodeAuthOnRecordType |-> {"kAuthMethod", "kAuthStepBuff", "kAuthResponseBuff", "kRecTypeBuff"}]

FreeSearches ==
  [kDoAttributeValueSearch |-> {"kOutBuffLen", "kRecTypeList", "kAttrType", "kAttrMatch"},
   kDoMultipleAttributeValueSearch |-> {"kOutBuffLen", "kRecTypeList", "kAttrType", "kAttrMatches"},
   kDoAttributeValueSearchWithData |->
     {"kOutBuffLen", "kRecTypeList", "kAttrType", "kAttrMatch", "kAttrTypeRequestList"},
   kDoMultipleAttributeValueSearchWithData |->
     {"kOutBuffLen", "kRecTypeList", "kAttrType", "kAttrMatches", "kAttrTypeRequestList"}]

FreeCustom == [kDoPlugInCustomCall |-> {"ktDataBuff", "kOutBuffLen"}]

\* The two open requests free what they read themselves.
FreeOpens == [kOpenDirServiceProxy |-> {"ktDataBuff", "kAuthStepBuff"}, kOpenDirServiceLocal |-> {"ktDataBuff"}]

DoFreeMemory ==
  FreeNodes @@ FreeLists @@ FreeRecords @@ FreeChanges @@ FreeAuth @@ FreeSearches @@ FreeCustom
    @@ FreeOpens @@ [m \in DOMAIN HandlerOf |-> {}]

-----------------------------------------------------------------------------
\* FailedCallRefCleanUp: for these failed requests the reference is removed whose
\* number is in the request when the plug-in returns.
FailedCallRefCleanUp_NoEntry ==
  {"kOpenDirNode", "kGetDirNodeInfo", "kGetRecordEntry", "kOpenRecord", "kCreateRecordAndOpen"}

FailedCallRefCleanUp ==
  {"kOpenDirNode", "kGetDirNodeInfo", "kGetRecordEntry", "kGetAttributeEntry", "kOpenRecord",
   "kCreateRecordAndOpen"}
=============================================================================
