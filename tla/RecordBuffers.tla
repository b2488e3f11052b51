----------------------------- MODULE RecordBuffers -----------------------------
(***************************************************************************)
(* The buffers in which records and node names are returned: how plug-ins  *)
(* pack them (BaseDirectoryPlugin, CBuff, CNodeList), how they change byte *)
(* order on the way to another machine (DSSwapUtils), and how a client     *)
(* takes them apart without asking the daemon again: entry by entry with   *)
(* references of its own (DirServicesPriv, CDSRefTable), or all records at *)
(* once (CFOpenDirectory).                                                 *)
(*                                                                         *)
(* A buffer is a sequence of bytes and a text one of characters, which are *)
(* bytes; offsets count from 0.  Numbers are written in the order of a     *)
(* little-endian host.  The number that identifies a value is the value it *)
(* was calculated from.  Operators with a suffix are faulty variants.      *)
(***************************************************************************)
EXTENDS Integers, Sequences, FiniteSets, SequencesExt

CONSTANTS
  Found,              \* records of a search: [type, name, attributes], the
                      \*   attributes as a sequence of [type, values]
  NodePaths,          \* names of nodes: sequences of sequences of texts
  Sizes,              \* sizes of buffers
  kMaxFWTableItems,   \* numbers of a reference table, 0 is not used
  kMaxFWTables,       \* reference tables
  MaxFills,           \* bound: buffers that arrive
  MaxRefs            \* bound: references made

\* What the constants must be; a module that gives them values assumes it.
BuffersAssumption ==
  /\ \A size \in Sizes : size >= 12
  /\ {kMaxFWTableItems, kMaxFWTables, MaxFills, MaxRefs} \subseteq Nat \ {0}

StdA == 1400136769
StdB == 1400136770
npss == 1852863347
EndT == 1164862548

VARIABLES
  buffer,    \* the bytes
  order,     \* of the numbers in them: "host" or "network"
  packed,    \* what was packed: [kind, items]
  waiting,   \* records the search has not returned yet
  fill,      \* how often the buffer was filled
  refs,      \* <<table, number>> -> [fType, fOffset, fBufTag], and which part
             \*   of which fill it was made for
  cursor,    \* table -> fCurRefNum
  made       \* references made

bufferVars == <<buffer, order, packed, waiting, fill, refs, cursor, made>>

Fresh(size) == [i \in 1..size |-> 0]

Init ==
  /\ buffer = <<>> /\ order = "host"
  /\ packed = [kind |-> "nothing", items |-> <<>>]
  /\ waiting = Found
  /\ fill = 0
  /\ refs = [r \in {} |-> 0]
  /\ cursor = [t \in 1..kMaxFWTables |-> 0]
  /\ made = 0

-----------------------------------------------------------------------------
(* Bytes.                                                                  *)

Short(n) == <<n % 256, n \div 256>>
Long(n) == <<n % 256, (n \div 256) % 256, (n \div 65536) % 256, n \div 16777216>>
Put(bytes, at, new) ==
  [i \in DOMAIN bytes |-> IF i \in (at + 1)..(at + Len(new)) THEN new[i - at] ELSE bytes[i]]
PutAll(bytes, puts) == FoldLeft(LAMBDA b, p : Put(b, p.at, p.new), bytes, puts)
At(at, new) == [at |-> at, new |-> new]

\* A number of this width in the buffer, and a text.
Number(at, width) ==
  LET byte(i) == buffer[at + (IF order = "host" THEN i ELSE width + 1 - i)]
  IN byte(1) + 256 * byte(2) + (IF width = 4 THEN 65536 * byte(3) + 16777216 * byte(4) ELSE 0)
Text(at, len) == SubSeq(buffer, at + 1, at + len)

\* Lengths are of four bytes, in buffers with the tag StdB of two.
Width(tag) == IF tag = StdB THEN 2 ELSE 4
Length(tag, n) == IF tag = StdB THEN Short(n) ELSE Long(n)

-----------------------------------------------------------------------------
(* Packing.                                                                *)

Append2(text) == Short(Len(text)) \o text
dsCDataBuffFromAttrTypeAndStringValues(tag, attribute) ==
  LET block == Append2(attribute.type) \o Short(Len(attribute.values))
               \o FlattenSeq([i \in DOMAIN attribute.values |->
                                Length(tag, Len(attribute.values[i])) \o attribute.values[i]])
  IN Length(tag, Len(block)) \o block

\* A record as bytes.
Block(tag, record) ==
  Append2(record.type) \o Append2(record.name) \o Short(Len(record.attributes))
  \o FlattenSeq([i \in DOMAIN record.attributes |->
                   dsCDataBuffFromAttrTypeAndStringValues(tag, record.attributes[i])])
GetDSBufferFromDictionary(record) == Block(StdA, record)

\* Records from the end of the buffer towards its start, their offsets from
\* the start towards its end, as long as both fit and something is left.
Room_NoEndTag(len, left) == len + 4 < left
Room(len, left) == len + 8 < left
FillBuffer(size, records) ==
  LET Add(so, record) ==
        LET data == GetDSBufferFromDictionary(record)
            offset == so.offset - (Len(data) + 4)
        IN IF so.full \/ so.left = 0 \/ ~Room(Len(data), so.left) THEN [so EXCEPT !.full = TRUE]
           ELSE [so EXCEPT !.offset = offset, !.left = @ - (Len(data) + 8), !.count = @ + 1,
                           !.bytes = PutAll(@, <<At(8 + 4 * so.count, Long(offset)),
                                                 At(offset, Long(Len(data)) \o data)>>)]
      done == FoldLeft(Add, [bytes |-> Fresh(size), offset |-> size, left |-> size - 12, count |-> 0, full |-> FALSE],
                       records)
  IN [bytes |-> IF records = <<>> THEN Fresh(size)
                ELSE PutAll(done.bytes, <<At(0, Long(StdA)), At(4, Long(done.count)), At(8 + 4 * done.count, Long(EndT))>>),
      count |-> done.count]

\* CBuff, used by plug-ins that pack for themselves.
SetBuffType(size, tag) ==
  [bytes |-> PutAll(Fresh(size), <<At(0, Long(tag)), At(4, Long(0)), At(8, Long(EndT))>>),
   fOffset |-> size, fWhatsLeft |-> size - 12, count |-> 0, full |-> FALSE]
SetNextOffset(buff, len) ==
  LET endTag == CHOOSE i \in 0..(Len(buff.bytes) \div 4) :
                  /\ SubSeq(buff.bytes, 8 + 4 * i + 1, 8 + 4 * i + 4) = Long(EndT)
                  /\ \A j \in 0..(i - 1) : SubSeq(buff.bytes, 8 + 4 * j + 1, 8 + 4 * j + 4) # Long(EndT)
      at == 8 + 4 * endTag
  IN [buff EXCEPT !.fOffset = @ - len, !.fWhatsLeft = @ - (len + 4), !.count = @ + 1,
                  !.bytes = PutAll(@, <<At(at, Long(buff.fOffset - len)), At(at + 4, Long(EndT)),
                                        At(4, Long(buff.count + 1))>>)]
AddData(buff, data) ==
  IF buff.full \/ ~(Len(data) + 8 < buff.fWhatsLeft) THEN [buff EXCEPT !.full = TRUE]
  ELSE LET next == SetNextOffset(buff, Len(data) + 4)
       IN [next EXCEPT !.bytes = Put(@, next.fOffset, Long(Len(data)) \o data)]
CBuff(size, tag, records) ==
  FoldLeft(LAMBDA buff, record : AddData(buff, Block(tag, record)), SetBuffType(size, tag), records)

\* Node names from the start, their offsets from the end; all of them or none.
AddNodePathToTDataBuff(so, path) ==
  LET segments == FlattenSeq([i \in DOMAIN path |-> Append2(path[i])])
      fits == so.length + Len(segments) + 2 + 8 <= Len(so.bytes) - (so.count + 1) * 4
  IN IF so.full \/ ~fits THEN [so EXCEPT !.full = TRUE]
     ELSE [so EXCEPT !.count = @ + 1, !.length = @ + 2 + Len(segments),
                     !.bytes = PutAll(@, <<At(0, Long(npss)), At(4, Long(so.count + 1)),
                                           At(Len(@) - (so.count + 1) * 4, Long(so.length + 8)),
                                           At(so.length + 8, Short(Len(path)) \o segments)>>)]
BuildNodeListBuff(size, paths) ==
  FoldLeft(AddNodePathToTDataBuff, [bytes |-> Fresh(size), length |-> 0, count |-> 0, full |-> FALSE], paths)

\* A buffer that arrives at the client; the references of the last one stay.
Arrives(bytes, kind, items) ==
  /\ fill < MaxFills
  /\ buffer' = bytes /\ order' = "host"
  /\ packed' = [kind |-> kind, items |-> items]
  /\ fill' = fill + 1
  /\ UNCHANGED <<refs, cursor, made>>

SearchRecords(size) ==
  /\ waiting # <<>>
  /\ LET done == FillBuffer(size, waiting)
     IN /\ Arrives(done.bytes, "records", SubSeq(waiting, 1, done.count))
        /\ waiting' = SubSeq(waiting, done.count + 1, Len(waiting))
PackRecords(size, tag) ==
  /\ waiting # <<>>
  /\ LET done == CBuff(size, tag, waiting)
     IN /\ Arrives(done.bytes, "records", SubSeq(waiting, 1, done.count))
        /\ waiting' = SubSeq(waiting, done.count + 1, Len(waiting))
GetDirNodeList(size, paths) ==
  /\ ~BuildNodeListBuff(size, paths).full
  /\ Arrives(BuildNodeListBuff(size, paths).bytes, "paths", paths)
  /\ UNCHANGED waiting

-----------------------------------------------------------------------------
(* Taking apart.                                                           *)

Tag == Number(0, 4)
IsStdBuffer == buffer # <<>> /\ Tag \in {StdA, StdB}

\* Where a block begins, nil when it does not lie in the buffer.
nil == -1
GetDataBlock(index) ==
  IF index = 0 \/ 8 + 4 * index > Len(buffer) THEN nil
  ELSE LET at == Number(4 + 4 * index, 4)
       IN IF at + 4 > Len(buffer) THEN nil ELSE IF at + Number(at, 4) > Len(buffer) THEN nil ELSE at
GetDataBlockLength(index) == Number(GetDataBlock(index), 4)

\* Type and name of a record and where its attributes are; how far the check
\* of its length has come is the caller's.
Labels(at) == [type |-> Text(at + 2, Number(at, 2)), nameAt |-> at + 2 + Number(at, 2)]
RecordAt(at) ==
  LET nameAt == Labels(at).nameAt
  IN [type |-> Labels(at).type, name |-> Text(nameAt + 2, Number(nameAt, 2)),
      attributesAt |-> nameAt + 2 + Number(nameAt, 2)]

RecordEntry(index) ==
  LET block == GetDataBlock(index) IN
  IF index = 0 THEN [status |-> "eDSInvalidIndex"]
  ELSE IF index > Number(4, 4) THEN [status |-> "eDSIndexOutOfRange"]
  ELSE IF block = nil THEN [status |-> "eDSCorruptBuffer"]
  ELSE LET end == block + 4 + GetDataBlockLength(index)
           record == RecordAt(block + 4)
       IN IF record.attributesAt + 2 > end THEN [status |-> "eDSInvalidBuffFormat"]
          ELSE [status |-> "eDSNoErr", offset |-> record.attributesAt,
                \* as in fRecordNameAndType
                entry |-> Append2(record.name) \o Append2(record.type),
                count |-> Number(record.attributesAt, 2)]

\* Both refuse an empty text.
EntryLength(entry, at) == entry[at + 1] + 256 * entry[at + 2]
dsGetRecordNameFromEntry(entry) == SubSeq(entry, 3, 2 + EntryLength(entry, 0))
dsGetRecordTypeFromEntry(entry) ==
  LET at == 2 + EntryLength(entry, 0)
  IN IF EntryLength(entry, 0) = 0 THEN <<>> ELSE SubSeq(entry, at + 3, at + 2 + EntryLength(entry, at))

\* The offset behind so many items, each with its length in front.
Behind(at, width, items) ==
  LET offset[i \in 0..items] == IF i = 0 THEN at
                               ELSE LET last == offset[i - 1] IN last + width + Number(last, width)
  IN offset[items]

\* The attribute whose length is here.
AttributeAt(at, tag) ==
  LET typeAt == at + Width(tag)
      countAt == typeAt + 2 + Number(typeAt, 2)
  IN [type |-> Text(typeAt + 2, Number(typeAt, 2)), count |-> Number(countAt, 2),
      valuesAt |-> countAt + 2, end |-> typeAt + Number(at, Width(tag)), at |-> at]

Sum(numbers) == FoldLeft(LAMBDA a, b : a + b, 0, numbers)
AttributeEntry(r, index) ==
  LET tag == refs[r].fBufTag
      list == refs[r].fOffset
      attribute == AttributeAt(Behind(list + 2, Width(tag), index - 1), tag)
      LengthOf(i) == Number(Behind(attribute.valuesAt, Width(tag), i - 1), Width(tag))
  IN IF index = 0 THEN [status |-> "eDSInvalidIndex"]
     ELSE IF index > Number(list, 2) THEN [status |-> "eDSIndexOutOfRange"]
     ELSE IF attribute.end > Len(buffer) THEN [status |-> "eDSInvalidBuffFormat"]
     ELSE [status |-> "eDSNoErr", offset |-> attribute.at, type |-> attribute.type, count |-> attribute.count,
           fAttributeDataSize |-> Sum([i \in 1..attribute.count |-> LengthOf(i)])]

\* The same attribute, found by an offset kept from the last call, and its
\* size by what is left of its length.
NextAttributeEntry(r, index, inOutOffset) ==
  LET tag == refs[r].fBufTag
      list == refs[r].fOffset
      attribute == AttributeAt(list + 2 + inOutOffset, tag)
      length == Number(attribute.at, Width(tag))
  IN IF index = 0 THEN [status |-> "eDSInvalidIndex"]
     ELSE IF index > Number(list, 2) THEN [status |-> "eDSIndexOutOfRange"]
     ELSE [status |-> "eDSNoErr", offset |-> attribute.at, type |-> attribute.type, count |-> attribute.count,
           fAttributeDataSize |-> length - 2 - Len(attribute.type) - 2 - Width(tag) * attribute.count,
           inOutOffset |-> IF index + 1 > Number(list, 2) THEN -1 ELSE inOutOffset + length + Width(tag)]

\* The first length is taken up to the first 0, the second is given.
UpToZero(value) == LET zeros == {i \in DOMAIN value : value[i] = 0}
                   IN IF zeros = {} THEN value ELSE SubSeq(value, 1, (CHOOSE i \in zeros : \A j \in zeros : i <= j) - 1)
CalcCRC(value) == UpToZero(value)
CalcCRCWithLength(value) == value

ValueAt(at, width) == Text(at + width, Number(at, width))
AttributeValue(r, index) ==
  LET tag == refs[r].fBufTag
      attribute == AttributeAt(refs[r].fOffset, tag)
      at == Behind(attribute.valuesAt, Width(tag), index - 1)
  IN IF index = 0 THEN [status |-> "eDSInvalidIndex"]
     ELSE IF index > attribute.count THEN [status |-> "eDSIndexOutOfRange"]
     ELSE IF at + Width(tag) + Number(at, Width(tag)) > attribute.end THEN [status |-> "eDSInvalidBuffFormat"]
     ELSE [status |-> "eDSNoErr", value |-> ValueAt(at, Width(tag)), id |-> CalcCRCWithLength(ValueAt(at, Width(tag)))]

NextAttributeValue(r, index, inOutOffset) ==
  LET tag == refs[r].fBufTag
      attribute == AttributeAt(refs[r].fOffset, tag)
      at == attribute.valuesAt + inOutOffset
      value == ValueAt(at, Width(tag))
  IN IF index = 0 THEN [status |-> "eDSInvalidIndex"]
     ELSE IF index > attribute.count THEN [status |-> "eDSIndexOutOfRange"]
     ELSE IF at + Width(tag) + Number(at, Width(tag)) > attribute.end THEN [status |-> "eDSInvalidBuffFormat"]
     ELSE [status |-> "eDSNoErr", value |-> value, id |-> CalcCRC(value),
           inOutOffset |-> IF index + 1 > attribute.count THEN -1 ELSE inOutOffset + Len(value) + Width(tag)]

\* Node names.
DirNodeName(index) ==
  LET at == Number(Len(buffer) - 4 * index, 4)
      SegmentAt(i) == Behind(at + 2, 2, i - 1)
  IN IF index = 0 THEN [status |-> "eDSInvalidIndex"]
     ELSE IF Number(4, 4) = 0 THEN [status |-> "eDSEmptyBuffer"]
     ELSE IF index > Number(4, 4) THEN [status |-> "eDSIndexOutOfRange"]
     ELSE [status |-> "eDSNoErr", path |-> [i \in 1..Number(at, 2) |-> ValueAt(SegmentAt(i), 2)]]

\* All records at once, as CFOpenDirectory does; one without a type or name
\* is left out.
ValuesOf(attribute) ==
  [i \in 1..attribute.count |-> ValueAt(Behind(attribute.valuesAt, Width(Tag), i - 1), Width(Tag))]
AttributesOf(at) ==
  [i \in 1..Number(at, 2) |->
     LET attribute == AttributeAt(Behind(at + 2, Width(Tag), i - 1), Tag)
     IN [type |-> attribute.type, values |-> ValuesOf(attribute)]]
Listed(record) == record.type # <<>> /\ record.name # <<>>
_AppendRecordsToList ==
  LET Record(index) == LET record == RecordAt(Number(4 + 4 * index, 4) + 4)
                       IN [type |-> record.type, name |-> record.name,
                           attributes |-> AttributesOf(record.attributesAt)]
  IN SelectSeq([i \in 1..Number(4, 4) |-> Record(i)], Listed)

-----------------------------------------------------------------------------
(* Changing the byte order: the numbers of a buffer are found by walking   *)
(* through it, <<offset, width>>, and turned round.                        *)

ValueLengths(attribute, tag) ==
  {<<Behind(attribute.valuesAt, Width(tag), i - 1), Width(tag)>> : i \in 1..attribute.count}
DSSwapRecordEntry(at, tag) ==
  LET record == RecordAt(at + 4)
      list == record.attributesAt
      attributes == {AttributeAt(Behind(list + 2, Width(tag), i - 1), tag) : i \in 1..Number(list, 2)}
  IN {<<at, 4>>, <<at + 4, 2>>, <<Labels(at + 4).nameAt, 2>>, <<list, 2>>}
     \cup UNION {{<<a.at, Width(tag)>>, <<a.at + Width(tag), 2>>, <<a.valuesAt - 2, 2>>}
                 \cup ValueLengths(a, tag) : a \in attributes}
Offsets == {<<8 + 4 * i, 4>> : i \in 0..(Number(4, 4) - 1)}
DSSwapStandardBuf ==
  IF Tag \in {StdA, StdB} THEN
    {<<0, 4>>, <<4, 4>>, <<8 + 4 * Number(4, 4), 4>>} \cup Offsets
    \cup UNION {DSSwapRecordEntry(Number(o[1], 4), Tag) : o \in Offsets}
  ELSE IF Tag = npss THEN
    {<<0, 4>>, <<4, 4>>}
    \cup UNION {LET o == Len(buffer) - 4 * i
                    at == Number(o, 4)
                IN {<<o, 4>>, <<at, 2>>} \cup {<<Behind(at + 2, 2, j - 1), 2>> : j \in 1..Number(at, 2)}
                : i \in 1..Number(4, 4)}
  ELSE {}

Turned(numbers) ==
  [i \in DOMAIN buffer |->
     LET mine == {n \in numbers : i \in (n[1] + 1)..(n[1] + n[2])}
     IN IF mine = {} THEN buffer[i] ELSE LET n == CHOOSE n \in mine : TRUE IN buffer[2 * n[1] + n[2] + 1 - i]]
DSSwap ==
  /\ buffer # <<>> /\ packed.items # <<>>
  /\ buffer' = Turned(DSSwapStandardBuf)
  /\ order' = IF order = "host" THEN "network" ELSE "host"
  /\ UNCHANGED <<packed, waiting, fill, refs, cursor, made>>

-----------------------------------------------------------------------------
(* The client's references.                                                *)

Full(t) == \A n \in 1..(kMaxFWTableItems - 1) : <<t, n>> \in DOMAIN refs

\* A table is gone through once upwards; then the next is taken, and its
\* numbers begin again at the next request.
From(t) == IF cursor[t] = 0 \/ cursor[t] > kMaxFWTableItems THEN 1 ELSE cursor[t]
FreeIn(t) == {n \in From(t)..(kMaxFWTableItems - 1) : <<t, n>> \notin DOMAIN refs}
Smallest(S) == CHOOSE x \in S : \A y \in S : x <= y
Usable == {t \in 1..kMaxFWTables : FreeIn(t) # {}}
GetNewRef == LET t == Smallest(Usable) IN <<t, Smallest(FreeIn(t))>>
CursorAfter ==
  [t \in 1..kMaxFWTables |->
     IF Full(t) \/ (Usable # {} /\ t > Smallest(Usable)) THEN cursor[t]
     ELSE IF FreeIn(t) = {} THEN kMaxFWTableItems + 1
     ELSE Smallest(FreeIn(t)) + 1]

With(r, type, offset, of) ==
  [q \in DOMAIN refs \cup {r} |-> IF q = r THEN [fType |-> type, fOffset |-> offset, fBufTag |-> Tag, of |-> of, fill |-> fill]
                                 ELSE refs[q]]

\* A reference is made, with the offset and the tag to go on with.
NewRef(type, offset, of) ==
  /\ made < MaxRefs
  /\ made' = made + 1
  /\ cursor' = CursorAfter
  /\ refs' = IF Usable = {} THEN refs ELSE With(GetNewRef, type, offset, of)
  /\ UNCHANGED <<buffer, order, packed, waiting, fill>>

ExtractRecordEntry(index) ==
  /\ IsStdBuffer
  /\ RecordEntry(index).status = "eDSNoErr"
  /\ NewRef("AttrList", RecordEntry(index).offset, [record |-> index, attribute |-> 0])
MakeGDNIFWRef ==
  /\ IsStdBuffer /\ Number(4, 4) > 0
  /\ NewRef("AttrList", RecordAt(GetDataBlock(1) + 4).attributesAt, [record |-> 1, attribute |-> 0])

VerifyReference(r, type) == r \in DOMAIN refs /\ refs[r].fType = type
ExtractAttributeEntry(r, index) ==
  /\ VerifyReference(r, "AttrList") /\ refs[r].fill = fill
  /\ AttributeEntry(r, index).status = "eDSNoErr"
  /\ NewRef("AttrValueList", AttributeEntry(r, index).offset, [refs[r].of EXCEPT !.attribute = index])

RemoveRef(r) ==
  /\ r \in DOMAIN refs
  /\ refs' = [q \in DOMAIN refs \ {r} |-> refs[q]]
  /\ UNCHANGED <<buffer, order, packed, waiting, fill, cursor, made>>

\* The calls that go on from an offset, from the first item.
EntryOffset(r, index) ==
  FoldLeft(LAMBDA offset, i : NextAttributeEntry(r, i, offset).inOutOffset, 0, [i \in 1..(index - 1) |-> i])
ValueOffset(r, index) ==
  FoldLeft(LAMBDA offset, i : NextAttributeValue(r, i, offset).inOutOffset, 0, [i \in 1..(index - 1) |-> i])
ExtractNextAttributeEntry(r, index) ==
  /\ VerifyReference(r, "AttrList") /\ refs[r].fill = fill
  /\ index \in 1..Number(refs[r].fOffset, 2)
  /\ NewRef("AttrValueList", NextAttributeEntry(r, index, EntryOffset(r, index)).offset,
            [refs[r].of EXCEPT !.attribute = index])

Index == 1..3
Next ==
  \/ \E size \in Sizes : SearchRecords(size)
  \/ \E size \in Sizes, tag \in {StdA, StdB} : PackRecords(size, tag)
  \/ \E size \in Sizes, paths \in NodePaths : GetDirNodeList(size, paths)
  \/ DSSwap
  \/ \E index \in Index : ExtractRecordEntry(index)
  \/ MakeGDNIFWRef
  \/ \E r \in DOMAIN refs, index \in Index : ExtractAttributeEntry(r, index)
  \/ \E r \in DOMAIN refs, index \in Index : ExtractNextAttributeEntry(r, index)
  \/ \E r \in DOMAIN refs : RemoveRef(r)

Spec == Init /\ [][Next]_bufferVars
-----------------------------------------------------------------------------
(* Properties.                                                             *)

EntriesComeBack ==
  /\ \A i \in DOMAIN packed.items :
       LET found == RecordEntry(i)
           record == packed.items[i]
       IN /\ found.status = "eDSNoErr" /\ found.count = Len(record.attributes)
          /\ Listed(record) => /\ dsGetRecordNameFromEntry(found.entry) = record.name
                             /\ dsGetRecordTypeFromEntry(found.entry) = record.type
  /\ RecordEntry(Len(packed.items) + 1).status # "eDSNoErr"

\* What a reference leads to, one by one and going on from an offset.
AttributesComeBack(r) ==
  LET attributes == packed.items[refs[r].of.record].attributes
  IN /\ \A i \in DOMAIN attributes :
          LET found == AttributeEntry(r, i)
              next == NextAttributeEntry(r, i, EntryOffset(r, i))
          IN /\ found.status = "eDSNoErr" /\ found.type = attributes[i].type
             /\ found.count = Len(attributes[i].values)
             /\ found.fAttributeDataSize = Len(FlattenSeq(attributes[i].values))
             /\ \A f \in DOMAIN found : next[f] = found[f]
             /\ (next.inOutOffset = -1) = (i = Len(attributes))
     /\ AttributeEntry(r, Len(attributes) + 1).status = "eDSIndexOutOfRange"
ValuesComeBack(r) ==
  LET values == packed.items[refs[r].of.record].attributes[refs[r].of.attribute].values
  IN /\ \A i \in DOMAIN values :
          LET found == AttributeValue(r, i)
              next == NextAttributeValue(r, i, ValueOffset(r, i))
          IN /\ found.status = "eDSNoErr" /\ found.value = values[i] /\ next.value = values[i]
             /\ UpToZero(values[i]) = values[i] => found.id = next.id
             /\ (next.inOutOffset = -1) = (i = Len(values))
     /\ AttributeValue(r, Len(values) + 1).status = "eDSIndexOutOfRange"

\* What was packed is what every way of reading gives, in either byte order:
\* record by record, attribute by attribute and value by value, with a
\* reference of this fill that was made at any time; all at once; and node
\* names.  Nothing between two parts of a search is lost.  Except the number
\* of a value in which there is a 0, which two calls calculate differently.
BuffersComeBack ==
  /\ packed.kind = "records" =>
       /\ IsSuffix(packed.items \o waiting, Found)
       /\ packed.items # <<>> => EntriesComeBack /\ _AppendRecordsToList = SelectSeq(packed.items, Listed)
       /\ \A r \in {q \in DOMAIN refs : refs[q].fill = fill} :
            IF refs[r].fType = "AttrList" THEN AttributesComeBack(r) ELSE ValuesComeBack(r)
  /\ packed.kind = "paths" =>
       \A i \in DOMAIN packed.items : DirNodeName(i).path = packed.items[i]
=============================================================================
