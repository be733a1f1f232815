---------------------------- MODULE DiskDB_proofs ----------------------------
(***************************************************************************)
(* Proofs about DiskDB, for any set of ids, fields and values, any bound   *)
(* on the log and the faults each theorem names: the types; that the       *)
(* indexes hold exactly the keys of the live documents, whatever crashes   *)
(* and however index.json fails, as long as no Append returns an error and *)
(* a document is read back as it was written; and what is promised.        *)
(***************************************************************************)
EXTENDS DiskDB, LoopLemmas

------------------------------------------------------------------------------
(* Documents *)

\* A partial update of a document is a document (mergeDoc).
LEMMA MergeDocType ==
  ASSUME NEW a \in Docs, NEW b \in Docs
  PROVE  MergeDoc(a, b) \in Docs
<1>1. PICK F \in SUBSET Fields : a \in [F -> Vals]
  BY DEF Docs
<1>2. PICK G \in SUBSET Fields : b \in [G -> Vals]
  BY DEF Docs
<1>3. MergeDoc(a, b) \in [F \cup G -> Vals]
  BY <1>1, <1>2 DEF MergeDoc
<1>4. F \cup G \in SUBSET Fields
  OBVIOUS
<1> QED
  BY <1>3, <1>4 DEF Docs

\* What is read back of a document is a document of the same fields.
LEMMA ReloadDocType ==
  ASSUME NEW d \in Docs
  PROVE  ReloadDoc(d) \in Docs /\ DOMAIN ReloadDoc(d) = DOMAIN d
<1>1. PICK F \in SUBSET Fields : d \in [F -> Vals]
  BY DEF Docs
<1>2. ReloadDoc(d) \in [F -> Vals]
  BY <1>1, ValuesAssumption DEF ReloadDoc
<1> QED
  BY <1>1, <1>2 DEF Docs

\* The document with no field is a document.
LEMMA EmptyDocType == EmptyDoc \in Docs
<1>1. EmptyDoc \in [{} -> Vals]
  BY DEF EmptyDoc
<1> QED
  BY <1>1 DEF Docs

\* The keys AddDoc and RemoveDoc compute are (field, print) and (field, number).
LEMMA KeysType ==
  ASSUME NEW d \in Docs
  PROVE  /\ SecondaryKeys(d) \subseteq Fields \X Prints
         /\ RangeKeys(d) \subseteq Fields \X RangeNums
<1>1. PICK F \in SUBSET Fields : d \in [F -> Vals]
  BY DEF Docs
<1>2. \A f \in DOMAIN d : f \in Fields /\ d[f] \in Vals
  BY <1>1
<1>3. SecondaryKeys(d) \subseteq Fields \X Prints
  BY <1>2, ValuesAssumption DEF SecondaryKeys
<1>4. RangeKeys(d) \subseteq Fields \X RangeNums
  BY <1>2, ValuesAssumption DEF RangeKeys, RangeNums
<1> QED
  BY <1>3, <1>4

------------------------------------------------------------------------------
(* The log *)

\* A whole record of a log is a record; a chunk is whole or torn.
LEMMA FullRecord ==
  ASSUME NEW l \in Seq(Chunks), NEW i \in Full(l)
  PROVE  l[i] \in Records
<1>1. l[i] \in Chunks /\ l[i].part = "full"
  BY DEF Full
<1>2. l[i] \notin [part : TornParts]
  BY <1>1 DEF TornParts
<1> QED
  BY <1>1, <1>2 DEF Chunks

\* A record that can be read gives a document of the log's ids.
LEMMA ReadDocAtType ==
  ASSUME NEW l \in Seq(Chunks), NEW o, ReadDocAt(l, o).ok
  PROVE  /\ o \in Readable(l)
         /\ ReadDocAt(l, o) = [ok |-> TRUE, id |-> l[o].id, doc |-> ReloadDoc(l[o].doc)]
         /\ ReadDocAt(l, o).id \in Ids
         /\ ReadDocAt(l, o).doc \in Docs
<1>1. o \in Readable(l)
  BY DEF ReadDocAt, ReadError
<1>2. l[o] \in Records
  BY <1>1, FullRecord DEF Readable
<1>3. l[o].id \in Ids /\ l[o].doc \in Docs
  BY <1>2 DEF Records
<1> QED
  BY <1>1, <1>3, ReloadDocType DEF ReadDocAt

\* The live offset of an id, when it has one, is that of a whole record that
\* can be read, names the id and is not a delete; and no later record of the
\* scan names the id.
LEMMA LiveOffsetIsLast ==
  ASSUME NEW l, NEW V, NEW id, LiveOffset(l, V, id) # Absent
  PROVE  /\ LiveOffset(l, V, id) \in Mentions(l, V, id)
         /\ IsLast(Mentions(l, V, id), LiveOffset(l, V, id))
         /\ l[LiveOffset(l, V, id)].type # "delete"
<1> DEFINE M == Mentions(l, V, id)
           live == {i \in M : IsLast(M, i) /\ l[i].type # "delete"}
<1>1. live # {} /\ LiveOffset(l, V, id) = CHOOSE i \in live : TRUE
  BY DEF LiveOffset
<1>2. LiveOffset(l, V, id) \in live
  BY <1>1
<1> QED
  BY <1>2

------------------------------------------------------------------------------
(* Type correctness *)

\* What a call writes, all of it or a part, is a chunk of the log.
LEMMA ChunkTypes ==
  ASSUME NEW c \in WriteCalls
  PROVE  /\ Record(c.name, c.id, c.doc) \in Chunks
         /\ TornRecords(c.doc) \subseteq Chunks
         /\ Outcome(c) \in Outcomes
<1>1. c.name \in WriteTypes /\ c.id \in Ids /\ c.doc \in Docs
  BY DEF WriteCalls
<1>2. Record(c.name, c.id, c.doc) \in Chunks
  BY <1>1 DEF Record, Records, Chunks
<1>3. TornRecords(c.doc) \subseteq Chunks
  BY DEF TornRecords, Chunks, TornParts
<1>4. Outcome(c) \in Outcomes
  BY <1>1, ReloadDocType DEF Outcome, Outcomes, Document
<1> QED
  BY <1>2, <1>3, <1>4

\* Adding to the indexes leaves indexes.
LEMMA IndexOperatorTypes ==
  ASSUME NEW ix \in Indexes, NEW doc \in Docs, NEW o \in Offsets, NEW id \in Ids
  PROVE  /\ SetPrimary(ix, id, o) \in Indexes
         /\ AddDoc(ix, doc, o) \in Indexes
<1>1. SetPrimary(ix, id, o) \in Indexes
  BY DEF SetPrimary, Indexes
<1>2. AddDoc(ix, doc, o) \in Indexes
  <2>1. /\ Entries(SecondaryKeys(doc), o) \subseteq (Fields \X Prints) \X Offsets
        /\ Entries(RangeKeys(doc), o) \subseteq (Fields \X RangeNums) \X Offsets
    BY KeysType DEF Entries
  <2> QED
    BY <2>1 DEF AddDoc, Indexes
<1> QED
  BY <1>1, <1>2

\* So does removing, whatever is removed.
LEMMA RemoveDocType ==
  ASSUME NEW ix \in Indexes, NEW doc, NEW o
  PROVE  RemoveDoc(ix, doc, o) \in Indexes
  BY DEF RemoveDoc, Indexes

\* A database starts with indexes.
LEMMA EmptyIndexType == EmptyIndex \in Indexes
  BY DEF EmptyIndex, Indexes, Offsets

\* The indexes a replay builds are indexes.
LEMMA RebuiltIndexType ==
  ASSUME TypeOK, NEW V \in Scans(log)
  PROVE  RebuiltIndex(log, V) \in Indexes
<1> DEFINE live == [id \in Ids |-> LiveOffset(log, V, id)]
           docs == {i \in V : \E id \in Ids : live[id] = i}
           Doc(i) == ReadDocAt(log, i).doc
<1>1. V \subseteq 1..MaxLog
  <2>1. V \subseteq DOMAIN log
    BY DEF Scans, Full
  <2> QED
    BY <2>1, BoundsAssumption DEF TypeOK
<1>2. live \in [Ids -> Offsets]
  <2>1. ASSUME NEW id \in Ids, LiveOffset(log, V, id) # Absent
        PROVE  LiveOffset(log, V, id) \in V
    BY <2>1, LiveOffsetIsLast DEF Mentions
  <2> QED
    BY <1>1, <2>1 DEF Offsets
<1>3. \A i \in docs : i \in Offsets /\ Doc(i) \in Docs
  <2> SUFFICES ASSUME NEW i \in docs
               PROVE  i \in Offsets /\ Doc(i) \in Docs
    OBVIOUS
  <2>1. i \in Offsets
    BY <1>1 DEF Offsets
  <2>2. PICK id \in Ids : LiveOffset(log, V, id) = i
    OBVIOUS
  <2>3. i # Absent
    BY <1>1 DEF Absent
  <2>4. i \in Readable(log)
    BY <2>2, <2>3, LiveOffsetIsLast DEF Mentions
  <2>5. ReadDocAt(log, i).ok
    BY <2>4 DEF ReadDocAt
  <2> QED
    BY <2>1, <2>5, ReadDocAtType DEF TypeOK
<1>4. \A i \in docs : Entries(SecondaryKeys(Doc(i)), i)
                          \in SUBSET ((Fields \X Prints) \X Offsets)
  BY <1>3, KeysType DEF Entries
<1>5. \A i \in docs : Entries(RangeKeys(Doc(i)), i)
                          \in SUBSET ((Fields \X RangeNums) \X Offsets)
  BY <1>3, KeysType DEF Entries
<1> HIDE DEF live, docs, Doc
<1>6. UNION {Entries(SecondaryKeys(Doc(i)), i) : i \in docs}
        \in SUBSET ((Fields \X Prints) \X Offsets)
  BY <1>4
<1>7. UNION {Entries(RangeKeys(Doc(i)), i) : i \in docs}
        \in SUBSET ((Fields \X RangeNums) \X Offsets)
  BY <1>5
<1>8. RebuiltIndex(log, V) =
        [primary   |-> live,
         secondary |-> UNION {Entries(SecondaryKeys(Doc(i)), i) : i \in docs},
         range     |-> UNION {Entries(RangeKeys(Doc(i)), i) : i \in docs}]
  BY DEF RebuiltIndex, live, docs, Doc
<1> QED
  BY <1>2, <1>6, <1>7, <1>8 DEF Indexes

\* The indexes after a logged write are indexes.
LEMMA AppliedIndexType ==
  ASSUME TypeOK, call \in WriteCalls, NEW o \in Offsets
  PROVE  AppliedIndex(o) \in Indexes
<1> DEFINE old == index.primary[call.id]
           cleared == IF call.name = "insert" THEN index
                      ELSE RemoveDoc(index, ReadDocAt(log, old).doc, old)
<1>1. index \in Indexes /\ call.id \in Ids /\ call.doc \in Docs
  BY DEF TypeOK, WriteCalls
<1>2. cleared \in Indexes
  BY <1>1, RemoveDocType
<1>3. Absent \in Offsets
  BY DEF Offsets
<1> HIDE DEF cleared, old
<1>4. /\ SetPrimary(cleared, call.id, Absent) \in Indexes
      /\ AddDoc(SetPrimary(cleared, call.id, o), call.doc, o) \in Indexes
  BY <1>1, <1>2, <1>3, IndexOperatorTypes
<1> QED
  BY <1>4 DEF AppliedIndex, cleared, old

\* A call that is idle, opening or closing is not a writing call.
LEMMA CallKinds ==
  /\ NoCall \notin WriteCalls /\ Opening \notin WriteCalls /\ Closing \notin WriteCalls
  /\ NoCall # Opening /\ NoCall # Closing /\ Opening # Closing
  /\ NoCall \in Calls /\ Opening \in Calls /\ Closing \in Calls
  /\ WriteCalls \subseteq Calls
  BY DEF NoCall, Opening, Closing, WriteCalls, WriteTypes, Calls

\* The check of a writing call.
LEMMA StartWriteType ==
  ASSUME TypeOK, NEW c \in WriteCalls, StartWrite(c)
  PROVE  TypeOK'
  BY CallKinds DEF TypeOK, StartWrite

\* The return of a call, however index.json was left.
LEMMA ReturnType ==
  ASSUME TypeOK, phase \in {"save", "write"}, indexFile' \in IndexFiles, Return
  PROVE  TypeOK'
<1>1. log' = log /\ phase' = "idle" /\ call' = NoCall
  BY DEF Return
<1>2. possible' \in [Ids -> SUBSET Outcomes]
  BY ChunkTypes DEF Return, Settled, TypeOK, WriteCalls
<1>3. status' \in {"up", "down"} /\ index' \in Indexes
  BY EmptyIndexType DEF Return, Forget, TypeOK
<1>4. woffset' \in {Misaligned} \cup 1..(Len(log') + 1)
  BY <1>1 DEF Return, Forget, TypeOK
<1>5. stats' \in [reads : Nat, writes : Nat, deletes : Nat]
  <2>1. Counted \in [reads : Nat, writes : Nat, deletes : Nat]
    BY DEF Counted, ZeroStats, TypeOK
  <2>2. ZeroStats \in [reads : Nat, writes : Nat, deletes : Nat]
    BY DEF ZeroStats
  <2> QED
    BY <2>1, <2>2 DEF Return, Forget, TypeOK
<1> QED
  BY <1>1, <1>2, <1>3, <1>4, <1>5, CallKinds DEF TypeOK

\* The end of the process, however the two files were left.
LEMMA DieType ==
  ASSUME TypeOK, Die, log' \in Seq(Chunks), Len(log') <= MaxLog,
         indexFile' \in IndexFiles, possible' \in [Ids -> SUBSET Outcomes]
  PROVE  TypeOK'
<1>1. 1 \in 1..(Len(log') + 1)
  OBVIOUS
<1>2. ZeroStats \in [reads : Nat, writes : Nat, deletes : Nat]
  BY DEF ZeroStats
<1> QED
  BY <1>1, <1>2, CallKinds, EmptyIndexType DEF Die, Forget, TypeOK

\* What an Append leaves behind, whole, cut or nothing, is a log within bound.
LEMMA CutLogsType ==
  ASSUME TypeOK, phase = "append",
         NEW l \in CutLogs \cup {Append(log, CallRecord)}
  PROVE  l \in Seq(Chunks) /\ Len(l) <= MaxLog
<1>1. /\ log \in Seq(Chunks) /\ Len(log) \in Nat /\ Len(log) < MaxLog /\ MaxLog \in Nat
      /\ call \in WriteCalls
  BY BoundsAssumption DEF TypeOK
<1>2. \A c \in Chunks : Append(log, c) \in Seq(Chunks) /\ Len(Append(log, c)) = Len(log) + 1
  BY <1>1
<1>3. CallRecord \in Chunks /\ TornRecords(call.doc) \subseteq Chunks
  BY <1>1, ChunkTypes DEF CallRecord
<1>4. CASE l = log
  BY <1>1, <1>4
<1>5. ASSUME NEW c \in Chunks, l = Append(log, c)
      PROVE  l \in Seq(Chunks) /\ Len(l) <= MaxLog
  <2>1. l \in Seq(Chunks) /\ Len(l) = Len(log) + 1
    BY <1>2, <1>5
  <2> QED
    BY <1>1, <2>1
<1>6. l = log \/ \E c \in Chunks : l = Append(log, c)
  BY <1>3 DEF CutLogs
<1> QED
  BY <1>4, <1>5, <1>6

\* An empty directory that no process has opened.
LEMMA InitType == Init => TypeOK
<1> SUFFICES ASSUME Init PROVE TypeOK
  OBVIOUS
<1>1. log \in Seq(Chunks) /\ Len(log) <= MaxLog
  BY BoundsAssumption DEF Init
<1>2. 1 \in 1..(Len(log) + 1)
  BY <1>1
<1>3. stats \in [reads : Nat, writes : Nat, deletes : Nat]
  BY DEF Init, ZeroStats
<1>4. possible \in [Ids -> SUBSET Outcomes]
  BY DEF Init, Outcomes
<1>5. indexFile \in IndexFiles
  BY DEF Init, IndexFiles
<1> QED
  BY <1>1, <1>2, <1>3, <1>4, <1>5, EmptyIndexType, CallKinds DEF Init, TypeOK

\* Every step keeps the types.
LEMMA NextType == TypeOK /\ [Next]_vars => TypeOK'
<1> SUFFICES ASSUME TypeOK, [Next]_vars PROVE TypeOK'
  OBVIOUS
<1>1. CASE UNCHANGED vars
  BY <1>1 DEF vars, TypeOK
<1>2. CASE OpenLoaded
  <2>1. indexFile.index \in Indexes
    BY <1>2 DEF OpenLoaded, FastPath, TypeOK, IndexFiles, Missing, Corrupt
  <2>2. woffset' \in 1..(Len(log') + 1)
    BY <1>2 DEF OpenLoaded, TypeOK
  <2> QED
    BY <1>2, <2>1, <2>2, CallKinds DEF OpenLoaded, Closed, TypeOK
<1>3. CASE OpenRebuilt
  <2>1. index' \in Indexes
    BY <1>3, RebuiltIndexType DEF OpenRebuilt
  <2> QED
    BY <1>3, <2>1, CallKinds DEF OpenRebuilt, TypeOK
<1>4. ASSUME NEW id \in Ids, NEW doc \in Docs, Insert(id, doc)
      PROVE  TypeOK'
  <2>1. Writing("insert", id, doc) \in WriteCalls
    BY DEF Writing, WriteCalls, WriteTypes
  <2> QED
    BY <1>4, <2>1, StartWriteType DEF Insert
<1>5. ASSUME NEW id \in Ids, NEW doc \in Docs, Update(id, doc)
      PROVE  TypeOK'
  <2> DEFINE old == ReadDocAt(log, index.primary[id])
  <2>1. old.doc \in Docs
    BY <1>5, ReadDocAtType DEF Update, TypeOK
  <2>2. Writing("update", id, MergeDoc(old.doc, doc)) \in WriteCalls
    BY <2>1, MergeDocType DEF Writing, WriteCalls, WriteTypes
  <2> QED
    BY <1>5, <2>2, StartWriteType DEF Update
<1>6. ASSUME NEW id \in Ids, Delete(id)
      PROVE  TypeOK'
  <2>1. Writing("delete", id, EmptyDoc) \in WriteCalls
    BY EmptyDocType DEF Writing, WriteCalls, WriteTypes
  <2> QED
    BY <1>6, <2>1, StartWriteType DEF Delete
<1>7. CASE CountRead
  BY <1>7 DEF CountRead, TypeOK
<1>8. CASE AppendRecord
  <2>1. log' \in Seq(Chunks) /\ Len(log') <= MaxLog
    BY <1>8, CutLogsType DEF AppendRecord
  <2>2. /\ call \in WriteCalls
        /\ Len(log) \in Nat
        /\ Len(log) < MaxLog
    BY <1>8 DEF AppendRecord, TypeOK
  <2>3. woffset' \in {Misaligned} \cup 1..(Len(log') + 1)
    <3>1. Len(log') = Len(log) + 1
      BY <1>8 DEF AppendRecord, TypeOK
    <3> QED
      BY <1>8, <2>2, <3>1 DEF AppendRecord, AdvancedOffsets, TypeOK
  <2>4. index' \in Indexes
    <3>1. woffset \in Offsets
      BY <2>2, BoundsAssumption DEF TypeOK, Offsets
    <3> QED
      BY <1>8, <2>2, <3>1, AppliedIndexType DEF AppendRecord
  <2>5. possible' \in [Ids -> SUBSET Outcomes]
    BY <1>8, <2>2, ChunkTypes DEF AppendRecord, TypeOK, WriteCalls
  <2> QED
    BY <1>8, <2>1, <2>2, <2>3, <2>4, <2>5, CallKinds DEF AppendRecord, TypeOK
<1>9. CASE AppendFails
  <2>1. log' \in Seq(Chunks) /\ Len(log') <= MaxLog
    BY <1>9, CutLogsType DEF AppendFails
  <2>2. call \in WriteCalls
    BY <1>9 DEF AppendFails, TypeOK
  <2>3. possible' \in [Ids -> SUBSET Outcomes]
    BY <1>9, <2>2, ChunkTypes DEF AppendFails, TypeOK, WriteCalls
  <2>4. Len(log') >= Len(log)
    BY <1>9, <2>2, ChunkTypes DEF AppendFails, CutLogs, CallRecord, TypeOK
  <2> QED
    BY <1>9, <2>1, <2>3, <2>4, CallKinds DEF AppendFails, TypeOK
<1>10. CASE SaveTruncate
  BY <1>10, CallKinds DEF SaveTruncate, TypeOK, IndexFiles
<1>11. CASE SaveWrite
  <2>1. Saved(index) \in IndexFiles
    BY DEF Saved, IndexFiles, TypeOK
  <2> QED
    BY <1>11, <2>1, ReturnType DEF SaveWrite
<1>12. CASE SaveFails
  BY <1>12, ReturnType DEF SaveFails, TypeOK
<1>13. CASE Close
  BY <1>13, CallKinds DEF Close, TypeOK
<1>14. CASE Exit
  BY <1>14, DieType DEF Exit, TypeOK
<1>15. CASE CrashInAppend
  <2>1. log' \in Seq(Chunks) /\ Len(log') <= MaxLog
    BY <1>15, CutLogsType DEF CrashInAppend
  <2>2. call \in WriteCalls
    BY <1>15 DEF CrashInAppend, TypeOK
  <2>3. possible' \in [Ids -> SUBSET Outcomes]
    BY <1>15, <2>2, ChunkTypes DEF CrashInAppend, TypeOK, WriteCalls
  <2>4. indexFile' \in IndexFiles
    BY <1>15 DEF CrashInAppend, TypeOK
  <2> QED
    BY <1>15, <2>1, <2>3, <2>4, DieType DEF CrashInAppend
<1>16. CASE CrashBeforeSave
  BY <1>16, DieType DEF CrashBeforeSave, TypeOK
<1>17. CASE CrashInSave
  <2>1. indexFile' \in IndexFiles
    BY <1>17 DEF CrashInSave, Saved, IndexFiles, TypeOK
  <2> QED
    BY <1>17, <2>1, DieType DEF CrashInSave, TypeOK
<1>18. CASE RemoveIndexFile
  BY <1>18 DEF RemoveIndexFile, TypeOK, IndexFiles
<1> QED
  BY <1>1, <1>2, <1>3, <1>4, <1>5, <1>6, <1>7, <1>8, <1>9, <1>10, <1>11, <1>12,
     <1>13, <1>14, <1>15, <1>16, <1>17, <1>18 DEF Next, Steps, Reads, Get, Find

\* In every state of every run the variables hold what the code keeps in them:
\* a log of records and torn records, indexes of offsets, one call at a time.
THEOREM TypeCorrect == Spec => []TypeOK
  BY InitType, NextType, PTL DEF Spec

------------------------------------------------------------------------------
(* Exact indexes and the operators on them *)

\* The three parts of ExactIndex, the last two entry by entry.
PointsAtRecords(l, ix) ==
  \A id \in Indexed(ix) : /\ ix.primary[id] \in Full(l)
                          /\ l[ix.primary[id]].id = id
                          /\ l[ix.primary[id]].type # "delete"
SecondaryOf(l, ix, id) == Entries(SecondaryKeys(l[ix.primary[id]].doc), ix.primary[id])
RangeOf(l, ix, id) == Entries(RangeKeys(l[ix.primary[id]].doc), ix.primary[id])

\* The two ways of saying it are one.
LEMMA ExactPointwise ==
  ASSUME NEW l, NEW ix
  PROVE  ExactIndex(l, ix) <=>
           /\ PointsAtRecords(l, ix)
           /\ ix.secondary = UNION {SecondaryOf(l, ix, id) : id \in Indexed(ix)}
           /\ ix.range = UNION {RangeOf(l, ix, id) : id \in Indexed(ix)}
  BY DEF ExactIndex, PointsAtRecords, SecondaryOf, RangeOf

\* Logging more changes nothing for an index that is exact.
LEMMA ExactExtends ==
  ASSUME NEW l \in Seq(Chunks), NEW c \in Chunks, NEW ix, ExactIndex(l, ix)
  PROVE  ExactIndex(Append(l, c), ix)
<1>1. \A id \in Indexed(ix) :
        /\ ix.primary[id] \in 1..Len(l)
        /\ l[ix.primary[id]] = Append(l, c)[ix.primary[id]]
  BY ExactPointwise DEF PointsAtRecords, Full
<1>2. PointsAtRecords(Append(l, c), ix)
  BY <1>1, ExactPointwise DEF PointsAtRecords, Full
<1>3. \A id \in Indexed(ix) : /\ SecondaryOf(l, ix, id) = SecondaryOf(Append(l, c), ix, id)
                              /\ RangeOf(l, ix, id) = RangeOf(Append(l, c), ix, id)
  BY <1>1 DEF SecondaryOf, RangeOf
<1>4. ix.secondary = UNION {SecondaryOf(Append(l, c), ix, id) : id \in Indexed(ix)}
  <2>1. ix.secondary = UNION {SecondaryOf(l, ix, id) : id \in Indexed(ix)}
    BY ExactPointwise
  <2> QED
    BY <1>3, <2>1
<1>5. ix.range = UNION {RangeOf(Append(l, c), ix, id) : id \in Indexed(ix)}
  <2>1. ix.range = UNION {RangeOf(l, ix, id) : id \in Indexed(ix)}
    BY ExactPointwise
  <2> QED
    BY <1>3, <2>1
<1> QED
  BY <1>2, <1>4, <1>5, ExactPointwise

\* Removing the document of an id and its primary entry.
LEMMA ExactRemove ==
  ASSUME NEW l \in Seq(Chunks), NEW ix \in Indexes, NEW id \in Indexed(ix),
         ExactIndex(l, ix)
  PROVE  LET o == ix.primary[id]
         IN  ExactIndex(l, SetPrimary(RemoveDoc(ix, l[o].doc, o), id, Absent))
<1> DEFINE o == ix.primary[id]
           iy == SetPrimary(RemoveDoc(ix, l[o].doc, o), id, Absent)
<1>1. /\ iy.primary = [ix.primary EXCEPT ![id] = Absent]
      /\ iy.secondary = ix.secondary \ SecondaryOf(l, ix, id)
      /\ iy.range = ix.range \ RangeOf(l, ix, id)
  BY DEF SetPrimary, RemoveDoc, Indexes, SecondaryOf, RangeOf
<1>2. Indexed(iy) = Indexed(ix) \ {id}
  BY <1>1 DEF Indexed, Indexes
<1>3. \A other \in Indexed(iy) : iy.primary[other] = ix.primary[other]
  BY <1>1, <1>2 DEF Indexes, Indexed
<1> HIDE DEF iy
<1>4. \A other \in Indexed(iy) : /\ SecondaryOf(l, iy, other) = SecondaryOf(l, ix, other)
                                 /\ RangeOf(l, iy, other) = RangeOf(l, ix, other)
  BY <1>3 DEF SecondaryOf, RangeOf
<1>5. \A other \in Indexed(iy) : ix.primary[other] # o
  BY <1>2, ExactPointwise DEF PointsAtRecords
<1>6. \A other \in Indexed(iy) :
        /\ SecondaryOf(l, ix, other) \cap SecondaryOf(l, ix, id) = {}
        /\ RangeOf(l, ix, other) \cap RangeOf(l, ix, id) = {}
  BY <1>5 DEF SecondaryOf, RangeOf, Entries
<1>7. ix.secondary = UNION {SecondaryOf(l, ix, other) : other \in Indexed(ix)}
  BY ExactPointwise
<1>8. ix.range = UNION {RangeOf(l, ix, other) : other \in Indexed(ix)}
  BY ExactPointwise
<1>9. iy.secondary = UNION {SecondaryOf(l, iy, other) : other \in Indexed(iy)}
  BY <1>1, <1>2, <1>4, <1>6, <1>7
<1>10. iy.range = UNION {RangeOf(l, iy, other) : other \in Indexed(iy)}
  BY <1>1, <1>2, <1>4, <1>6, <1>8
<1>11. PointsAtRecords(l, iy)
  BY <1>2, <1>3, ExactPointwise DEF PointsAtRecords
<1> QED
  BY <1>9, <1>10, <1>11, ExactPointwise DEF iy

\* Indexing the record just logged for an id that has no entry.
LEMMA ExactAdd ==
  ASSUME NEW l \in Seq(Chunks), NEW ix \in Indexes, NEW id \in Ids, NEW doc \in Docs,
         NEW type \in WriteTypes, type # "delete",
         ix.primary[id] = Absent, ExactIndex(l, ix)
  PROVE  LET o == Len(l) + 1
         IN  ExactIndex(Append(l, Record(type, id, doc)),
                        AddDoc(SetPrimary(ix, id, o), doc, o))
<1> DEFINE o == Len(l) + 1
           r == Record(type, id, doc)
           m == Append(l, r)
           iy == AddDoc(SetPrimary(ix, id, o), doc, o)
<1>1. /\ iy.primary = [ix.primary EXCEPT ![id] = o]
      /\ iy.secondary = ix.secondary \cup Entries(SecondaryKeys(doc), o)
      /\ iy.range = ix.range \cup Entries(RangeKeys(doc), o)
  BY DEF SetPrimary, AddDoc, Indexes
<1>2. r \in Chunks /\ r.part = "full" /\ r.id = id /\ r.type = type /\ r.doc = doc
  BY DEF Record, Records, Chunks
<1> HIDE DEF r
<1>3. m \in Seq(Chunks) /\ m[o] = r /\ o \in DOMAIN m /\ o # Absent
  BY <1>2 DEF Absent
<1>4. Indexed(iy) = Indexed(ix) \cup {id} /\ id \notin Indexed(ix)
  BY <1>1, <1>3 DEF Indexed, Indexes
<1>5. iy.primary[id] = o /\ \A other \in Indexed(ix) : iy.primary[other] = ix.primary[other]
  BY <1>1, <1>4 DEF Indexes, Indexed
<1>6. ExactIndex(m, ix)
  BY <1>2, ExactExtends
<1> HIDE DEF iy, m, o
<1>7. /\ SecondaryOf(m, iy, id) = Entries(SecondaryKeys(doc), o)
      /\ RangeOf(m, iy, id) = Entries(RangeKeys(doc), o)
  BY <1>2, <1>3, <1>5 DEF SecondaryOf, RangeOf
<1>8. \A other \in Indexed(ix) : /\ SecondaryOf(m, iy, other) = SecondaryOf(m, ix, other)
                                 /\ RangeOf(m, iy, other) = RangeOf(m, ix, other)
  BY <1>5 DEF SecondaryOf, RangeOf
<1>9. ix.secondary = UNION {SecondaryOf(m, ix, other) : other \in Indexed(ix)}
  BY <1>6, ExactPointwise
<1>10. ix.range = UNION {RangeOf(m, ix, other) : other \in Indexed(ix)}
  BY <1>6, ExactPointwise
<1>11. iy.secondary = UNION {SecondaryOf(m, iy, other) : other \in Indexed(iy)}
  BY <1>1, <1>4, <1>7, <1>8, <1>9
<1>12. iy.range = UNION {RangeOf(m, iy, other) : other \in Indexed(iy)}
  BY <1>1, <1>4, <1>7, <1>8, <1>10
<1>13. PointsAtRecords(m, iy)
  BY <1>2, <1>3, <1>4, <1>5, <1>6, ExactPointwise DEF PointsAtRecords, Full
<1> QED
  BY <1>11, <1>12, <1>13, ExactPointwise DEF iy, m, r, o

\* Empty indexes are exact for every log.
LEMMA ExactEmpty ==
  ASSUME NEW l
  PROVE  ExactIndex(l, EmptyIndex)
  BY DEF ExactIndex, EmptyIndex, Indexed

\* What a replay builds, when a document is read back as it was written.
LEMMA ExactRebuild ==
  ASSUME NEW l \in Seq(Chunks), NEW V \in SUBSET Full(l),
         \A v \in Vals : Reload[v] = v
  PROVE  ExactIndex(l, RebuiltIndex(l, V))
<1> DEFINE ix == RebuiltIndex(l, V)
           docs == {i \in V : \E id \in Ids : LiveOffset(l, V, id) = i}
           Doc(i) == ReadDocAt(l, i).doc
<1>1. /\ ix.primary = [id \in Ids |-> LiveOffset(l, V, id)]
      /\ ix.secondary = UNION {Entries(SecondaryKeys(Doc(i)), i) : i \in docs}
      /\ ix.range = UNION {Entries(RangeKeys(Doc(i)), i) : i \in docs}
  BY DEF RebuiltIndex
<1>2. V \subseteq 1..Len(l)
  BY DEF Full
<1> HIDE DEF ix
<1>3. \A id \in Indexed(ix) :
        /\ ix.primary[id] \in V
        /\ ix.primary[id] \in Readable(l)
        /\ l[ix.primary[id]].id = id
        /\ l[ix.primary[id]].type # "delete"
  <2> SUFFICES ASSUME NEW id \in Indexed(ix)
               PROVE  /\ ix.primary[id] \in V
                      /\ ix.primary[id] \in Readable(l)
                      /\ l[ix.primary[id]].id = id
                      /\ l[ix.primary[id]].type # "delete"
    OBVIOUS
  <2>1. ix.primary[id] = LiveOffset(l, V, id) /\ LiveOffset(l, V, id) # Absent
    BY <1>1 DEF Indexed
  <2>2. ix.primary[id] \in Mentions(l, V, id) /\ l[ix.primary[id]].type # "delete"
    BY <2>1, LiveOffsetIsLast
  <2> QED
    BY <2>2 DEF Mentions
<1>4. docs = {ix.primary[id] : id \in Indexed(ix)}
  <2>1. \A i \in docs : i # Absent
    BY <1>2 DEF Absent
  <2>2. ASSUME NEW i \in docs
        PROVE  \E id \in Indexed(ix) : i = ix.primary[id]
    <3>1. PICK id \in Ids : LiveOffset(l, V, id) = i
      OBVIOUS
    <3>2. ix.primary[id] = i
      BY <1>1, <3>1
    <3> QED
      BY <2>1, <3>2 DEF Indexed
  <2>3. \A id \in Indexed(ix) : ix.primary[id] \in docs
    BY <1>1, <1>3 DEF Indexed
  <2> QED
    BY <2>2, <2>3
<1>5. \A i \in docs : Doc(i) = l[i].doc
  <2> SUFFICES ASSUME NEW i \in docs PROVE Doc(i) = l[i].doc
    OBVIOUS
  <2>1. i \in Readable(l)
    BY <1>3, <1>4
  <2>2. l[i].doc \in Docs
    BY <2>1, FullRecord DEF Readable, Records
  <2>3. PICK F \in SUBSET Fields : l[i].doc \in [F -> Vals]
    BY <2>2 DEF Docs
  <2>4. ReloadDoc(l[i].doc) = l[i].doc
    BY <2>3 DEF ReloadDoc
  <2> QED
    BY <2>1, <2>4 DEF ReadDocAt
<1> HIDE DEF docs, Doc
<1>6. ix.secondary = UNION {SecondaryOf(l, ix, id) : id \in Indexed(ix)}
  <2>1. \A id \in Indexed(ix) : SecondaryOf(l, ix, id)
          = Entries(SecondaryKeys(Doc(ix.primary[id])), ix.primary[id])
    BY <1>4, <1>5 DEF SecondaryOf
  <2>2. UNION {Entries(SecondaryKeys(Doc(i)), i) : i \in docs}
          = UNION {SecondaryOf(l, ix, id) : id \in Indexed(ix)}
    BY <1>4, <2>1
  <2> QED
    BY <1>1, <2>2
<1>7. ix.range = UNION {RangeOf(l, ix, id) : id \in Indexed(ix)}
  <2>1. \A id \in Indexed(ix) : RangeOf(l, ix, id)
          = Entries(RangeKeys(Doc(ix.primary[id])), ix.primary[id])
    BY <1>4, <1>5 DEF RangeOf
  <2>2. UNION {Entries(RangeKeys(Doc(i)), i) : i \in docs}
          = UNION {RangeOf(l, ix, id) : id \in Indexed(ix)}
    BY <1>4, <2>1
  <2> QED
    BY <1>1, <2>2
<1>8. PointsAtRecords(l, ix)
  BY <1>3 DEF PointsAtRecords, Readable
<1> QED
  BY <1>6, <1>7, <1>8, ExactPointwise DEF ix

------------------------------------------------------------------------------
(* The invariant *)

\* What makes IndexesExact inductive: the log's own idea of its end is right,
\* and a writing call has found what its checks look for.
IndexInv ==
  /\ TypeOK
  /\ IndexesExact
  /\ status = "up" => woffset = Len(log) + 1
  /\ phase = "append" => status = "up"
  /\ phase = "append" /\ call.name = "insert" => index.primary[call.id] = Absent
  /\ phase = "append" /\ call.name # "insert" =>
       /\ index.primary[call.id] # Absent
       /\ ReadDocAt(log, index.primary[call.id]).ok

\* The assumptions: Append does not fail, and values are read back unchanged.
Faithful == "appendError" \notin Faults /\ \A v \in Vals : Reload[v] = v

\* Nothing is open at first, and there is no index.json.
LEMMA IndexInit == Init => IndexInv
  BY InitType, ExactEmpty DEF Init, IndexInv, IndexesExact, Missing

\* The indexes after an insert, an update or a delete has been logged and applied.
LEMMA AppliedExact ==
  ASSUME IndexInv, Faithful, phase = "append"
  PROVE  ExactIndex(Append(log, CallRecord), AppliedIndex(woffset))
<1> DEFINE id == call.id
           o == index.primary[call.id]
           cleared == SetPrimary(RemoveDoc(index, log[o].doc, o), id, Absent)
<1>1. /\ log \in Seq(Chunks) /\ index \in Indexes
      /\ call \in WriteCalls
      /\ ExactIndex(log, index)
      /\ woffset = Len(log) + 1
  BY DEF IndexInv, TypeOK, IndexesExact
<1>2. id \in Ids /\ call.doc \in Docs /\ call.name \in WriteTypes
  BY <1>1 DEF WriteCalls
<1>3. CASE call.name = "insert"
  <2>1. AppliedIndex(woffset) = AddDoc(SetPrimary(index, id, woffset), call.doc, woffset)
    BY <1>3 DEF AppliedIndex
  <2>2. index.primary[id] = Absent
    BY <1>3 DEF IndexInv
  <2> QED
    BY <1>1, <1>2, <1>3, <2>1, <2>2, ExactAdd DEF CallRecord, WriteTypes
<1>4. CASE call.name # "insert"
  <2>1. id \in Indexed(index) /\ ReadDocAt(log, o).ok
    BY <1>2, <1>4 DEF IndexInv, Indexed
  <2>2. o \in Readable(log) /\ ReadDocAt(log, o).doc = ReloadDoc(log[o].doc)
    BY <1>1, <2>1, ReadDocAtType
  <2>3. ReadDocAt(log, o).doc = log[o].doc
    <3>1. log[o].doc \in Docs
      BY <1>1, <2>2, FullRecord DEF Readable, Records
    <3>2. PICK F \in SUBSET Fields : log[o].doc \in [F -> Vals]
      BY <3>1 DEF Docs
    <3>3. ReloadDoc(log[o].doc) = log[o].doc
      BY <3>2 DEF ReloadDoc, Faithful
    <3> QED
      BY <2>2, <3>3
  <2>4. ExactIndex(log, cleared)
    BY <1>1, <2>1, ExactRemove
  <2>5. cleared \in Indexes /\ cleared.primary[id] = Absent
    <3>1. RemoveDoc(index, log[o].doc, o) \in Indexes
      BY <1>1, RemoveDocType
    <3> QED
      BY <1>2, <3>1 DEF SetPrimary, Indexes, Offsets
  <2>6. CASE call.name = "delete"
    <3>1. AppliedIndex(woffset) = cleared
      BY <1>4, <2>3, <2>6 DEF AppliedIndex
    <3>2. CallRecord \in Chunks
      BY <1>1, ChunkTypes DEF CallRecord
    <3> QED
      BY <1>1, <2>4, <3>1, <3>2, ExactExtends
  <2>7. CASE call.name # "delete"
    <3>1. AppliedIndex(woffset) = AddDoc(SetPrimary(cleared, id, woffset), call.doc, woffset)
      <4>1. AppliedIndex(woffset) =
              AddDoc(SetPrimary(RemoveDoc(index, log[o].doc, o), id, woffset), call.doc, woffset)
        BY <1>4, <2>3, <2>7 DEF AppliedIndex
      <4>2. SetPrimary(RemoveDoc(index, log[o].doc, o), id, woffset)
              = SetPrimary(cleared, id, woffset)
        BY <1>1, <1>2, RemoveDocType DEF SetPrimary, Indexes
      <4> QED
        BY <4>1, <4>2
    <3> QED
      BY <1>1, <1>2, <2>4, <2>5, <2>7, <3>1, ExactAdd DEF CallRecord
  <2> QED
    BY <2>6, <2>7
<1> QED
  BY <1>3, <1>4

\* Steps that write no record and leave index.json and the index as they are,
\* or make one of the other.
LEMMA StartWriteExact ==
  ASSUME IndexInv, NEW c \in WriteCalls, Ready, StartWrite(c),
         c.name = "insert" => index.primary[c.id] = Absent,
         c.name # "insert" => /\ index.primary[c.id] # Absent
                              /\ ReadDocAt(log, index.primary[c.id]).ok
  PROVE  IndexInv'
<1>1. TypeOK'
  BY StartWriteType DEF IndexInv
<1> QED
  BY <1>1 DEF IndexInv, IndexesExact, StartWrite, Ready

\* A return leaves the indexes, or closes them.
LEMMA ReturnExact ==
  ASSUME IndexInv, Return, TypeOK',
         indexFile' \in {indexFile, Saved(index)}
  PROVE  IndexInv'
<1>1. ExactIndex(log, index')
  BY ExactEmpty DEF Return, Forget, IndexInv, IndexesExact
<1>2. indexFile'.state = "saved" => ExactIndex(log, indexFile'.index)
  BY DEF Saved, IndexInv, IndexesExact
<1>3. status' = "up" => woffset' = Len(log) + 1
  BY CallKinds DEF Return, Forget, IndexInv
<1> QED
  BY <1>1, <1>2, <1>3 DEF Return, IndexInv, IndexesExact

\* A crash leaves an index.json that was exact, and a log that may be longer.
LEMMA DieExact ==
  ASSUME IndexInv, Die, TypeOK',
         indexFile' \in {indexFile, Corrupt, Missing, Saved(index)},
         \/ log' = log
         \/ \E c \in Chunks : log' = Append(log, c)
  PROVE  IndexInv'
<1>1. log \in Seq(Chunks)
  BY DEF IndexInv, TypeOK
<1>2. \A ix : ExactIndex(log, ix) => ExactIndex(log', ix)
  BY <1>1, ExactExtends
<1>3. indexFile'.state = "saved" => ExactIndex(log, indexFile'.index)
  BY DEF Corrupt, Missing, Saved, IndexInv, IndexesExact
<1>4. ExactIndex(log', EmptyIndex)
  BY ExactEmpty
<1> QED
  BY <1>2, <1>3, <1>4 DEF Die, Forget, IndexInv, IndexesExact

\* Every step keeps the indexes exact.
LEMMA IndexNext ==
  ASSUME Faithful
  PROVE  IndexInv /\ [Next]_vars => IndexInv'
<1> SUFFICES ASSUME IndexInv, [Next]_vars PROVE IndexInv'
  OBVIOUS
<1> TypeOK /\ TypeOK'
  BY NextType DEF IndexInv
<1>1. CASE UNCHANGED vars
  BY <1>1 DEF vars, IndexInv, IndexesExact
<1>2. CASE OpenLoaded
  <2>1. ExactIndex(log, indexFile.index)
    BY <1>2 DEF OpenLoaded, FastPath, IndexInv, IndexesExact
  <2> QED
    BY <1>2, <2>1 DEF OpenLoaded, Closed, IndexInv, IndexesExact
<1>3. CASE OpenRebuilt
  <2>1. ExactIndex(log, index')
    <3>1. PICK V \in Scans(log) : index' = RebuiltIndex(log, V)
      BY <1>3 DEF OpenRebuilt
    <3>2. V \in SUBSET Full(log)
      BY DEF Scans
    <3> QED
      BY <3>1, <3>2, ExactRebuild DEF TypeOK, Faithful
  <2> QED
    BY <1>3, <2>1 DEF OpenRebuilt, Closed, IndexInv, IndexesExact
<1>4. ASSUME NEW id \in Ids, NEW doc \in Docs, Insert(id, doc)
      PROVE  IndexInv'
  <2>1. /\ Writing("insert", id, doc) \in WriteCalls
        /\ Writing("insert", id, doc).name = "insert"
        /\ Writing("insert", id, doc).id = id
    BY DEF Writing, WriteCalls, WriteTypes
  <2> QED
    BY <1>4, <2>1, StartWriteExact DEF Insert
<1>5. ASSUME NEW id \in Ids, NEW doc \in Docs, Update(id, doc)
      PROVE  IndexInv'
  <2> DEFINE old == ReadDocAt(log, index.primary[id])
             c == Writing("update", id, MergeDoc(old.doc, doc))
  <2>1. old.doc \in Docs
    BY <1>5, ReadDocAtType DEF Update, TypeOK
  <2>2. c \in WriteCalls /\ c.name = "update" /\ c.id = id
    BY <2>1, MergeDocType DEF Writing, WriteCalls, WriteTypes
  <2> QED
    BY <1>5, <2>2, StartWriteExact DEF Update
<1>6. ASSUME NEW id \in Ids, Delete(id)
      PROVE  IndexInv'
  <2> DEFINE c == Writing("delete", id, EmptyDoc)
  <2>1. c \in WriteCalls /\ c.name = "delete" /\ c.id = id
    BY EmptyDocType DEF Writing, WriteCalls, WriteTypes
  <2> QED
    BY <1>6, <2>1, StartWriteExact DEF Delete
<1>7. CASE CountRead
  BY <1>7 DEF CountRead, IndexInv, IndexesExact
<1>8. CASE AppendRecord
  <2>1. phase = "append" /\ status = "up" /\ call \in WriteCalls /\ woffset = Len(log) + 1
    BY <1>8 DEF AppendRecord, IndexInv, TypeOK
  <2>2. CallRecord \in Chunks /\ log \in Seq(Chunks)
    BY <2>1, ChunkTypes DEF CallRecord, TypeOK
  <2>3. ExactIndex(log', index')
    BY <1>8, AppliedExact DEF AppendRecord
  <2>4. indexFile.state = "saved" => ExactIndex(log', indexFile.index)
    BY <1>8, <2>2, ExactExtends DEF AppendRecord, IndexInv, IndexesExact
  <2>5. woffset' = Len(log') + 1
    BY <1>8, <2>1, <2>2 DEF AppendRecord, AdvancedOffsets
  <2> QED
    BY <1>8, <2>3, <2>4, <2>5 DEF AppendRecord, IndexInv, IndexesExact
<1>9. CASE AppendFails
  BY <1>9 DEF AppendFails, Faithful
<1>10. CASE SaveTruncate
  BY <1>10 DEF SaveTruncate, IndexInv, IndexesExact, Corrupt
<1>11. CASE SaveWrite
  BY <1>11, ReturnExact DEF SaveWrite
<1>12. CASE SaveFails
  BY <1>12, ReturnExact DEF SaveFails
<1>13. CASE Close
  BY <1>13 DEF Close, IndexInv, IndexesExact
<1>14. CASE Exit
  BY <1>14, DieExact DEF Exit
<1>15. CASE CrashInAppend
  <2>1. TornRecords(call.doc) \subseteq Chunks
    BY <1>15, ChunkTypes DEF CrashInAppend, TypeOK
  <2>2. log' = log \/ \E c \in Chunks : log' = Append(log, c)
    BY <1>15, <2>1 DEF CrashInAppend, CutLogs
  <2> QED
    BY <1>15, <2>2, DieExact DEF CrashInAppend
<1>16. CASE CrashBeforeSave
  BY <1>16, DieExact DEF CrashBeforeSave
<1>17. CASE CrashInSave
  BY <1>17, DieExact DEF CrashInSave
<1>18. CASE RemoveIndexFile
  BY <1>18 DEF RemoveIndexFile, IndexInv, IndexesExact, Closed, Missing
<1> QED
  BY <1>1, <1>2, <1>3, <1>4, <1>5, <1>6, <1>7, <1>8, <1>9, <1>10, <1>11, <1>12,
     <1>13, <1>14, <1>15, <1>16, <1>17, <1>18 DEF Next, Steps, Reads, Get, Find

\* The indexes, in memory and in index.json, always hold the keys of the
\* documents the primary index points at and no others: after any sequence of
\* inserts, updates, deletes, crashes, failed saves and both ways of opening.
THEOREM IndexesStayExact ==
  ASSUME Faithful
  PROVE  Spec => []IndexesExact
<1>1. IndexInv => IndexesExact
  BY DEF IndexInv
<1> QED
  BY <1>1, IndexInit, IndexNext, PTL DEF Spec

------------------------------------------------------------------------------
(* The promise.  Every answered write is served, and DiskDB implements     *)
(* DocStore, under the faults that leave either index.json or the log to   *)
(* be trusted:                                                             *)
(*   - the process may die while it appends a record or right after, but   *)
(*     not while it writes index.json, which is then always there and only *)
(*     ever behind by writes that were not answered; or                    *)
(*   - it may die while it writes index.json, which may also be removed,   *)
(*     but never in the middle of a record, so that a replay of the log    *)
(*     finds every record.                                                 *)
(* What an id answers changes by its own writes only, under any faults.    *)

IndexTrusted == Faults \subseteq {"crashAppend", "crashLogged"}
LogTrusted == Faults \subseteq {"crashLogged", "crashSave", "removeIndex"}

\* The assumptions: one of the two holds, every value can be encoded, and every
\* key of the range index can be written to index.json.
Reliable ==
  /\ IndexTrusted \/ LogTrusted
  /\ Unencodable = {}
  /\ RangeNums \cap Unsaveable = {}

\* The offsets of ix are in the log l, and every id is answered as it may be.
Inside(l, ix) == \A id \in Ids : ix.primary[id] \in 0..Len(l)
Allowed(l, ix) == \A id \in Ids : Answer(l, ix, id) \in possible[id]

\* A writing call has logged its record and has not been answered.
Logged == call \in WriteCalls /\ phase \in {"save", "write"}

\* What a replay of a log that holds whole records only would answer.
Replayed(l, id) == Answer(l, RebuiltIndex(l, DOMAIN l), id)

HandleInv ==
  /\ status = "up" => woffset = Len(log) + 1
  /\ call \in WriteCalls \cup {Closing} <=> status = "up" /\ call # NoCall
  /\ Inside(log, index)
  /\ status = "up" \/ call = Opening => Allowed(log, index)
  /\ Logged => log # <<>> /\ Served(call.id) = Outcome(call)

FileInv ==
  /\ phase = "write" => indexFile = Corrupt
  /\ indexFile.state = "saved" =>
       Inside(log, indexFile.index) /\ Allowed(log, indexFile.index)

\* An id never answers with the document of another.
OwnInv ==
  \A id \in Ids : \A out \in possible[id] :
    out = NotFound \/ (out.answer = "document" /\ out.id = id)

EmptyLogInv == log = <<>> => \A id \in Ids : NotFound \in possible[id]

\* Where index.json is trusted, it is there as soon as there is a log.
IndexTrustedInv ==
  "crashAppend" \in Faults =>
    /\ indexFile = Corrupt => phase = "write"
    /\ indexFile = Missing => log = <<>> /\ status = "down"

\* Where the log is trusted, it is whole and answers for every id.
LogTrustedInv ==
  "crashAppend" \notin Faults =>
    /\ Full(log) = DOMAIN log
    /\ \A id \in Ids : Replayed(log, id) \in possible[id]
    /\ Logged => Replayed(log, call.id) = Outcome(call)

PromiseInv ==
  /\ TypeOK /\ HandleInv /\ FileInv /\ OwnInv /\ EmptyLogInv
  /\ IndexTrustedInv /\ LogTrustedInv

------------------------------------------------------------------------------
(* Scans of a whole log *)

\* The reader is never off the records of a log that holds no torn one: the
\* only scan finds them all.
LEMMA WholeLogScan ==
  ASSUME NEW l \in Seq(Chunks), Full(l) = DOMAIN l, NEW V \in Scans(l)
  PROVE  V = DOMAIN l
<1>1. V \subseteq DOMAIN l /\ \A i \in DOMAIN l : Aligned(V, i) => i \in V
  BY DEF Scans
<1>2. ASSUME DOMAIN l \ V # {}
      PROVE  FALSE
  <2>1. PICK i \in DOMAIN l \ V : \A j \in DOMAIN l \ V : i <= j
    <3>1. DOMAIN l \ V \in SUBSET Nat
      OBVIOUS
    <3> QED
      BY <3>1, <1>2, LeastElement
  <2>2. i = 1 \/ i - 1 \in V
    BY <2>1
  <2> QED
    BY <1>1, <2>1, <2>2 DEF Aligned
<1> QED
  BY <1>1, <1>2

------------------------------------------------------------------------------
(* Answers *)

\* A record that is in the log goes on answering as it did when more is logged.
LEMMA AnswerExtends ==
  ASSUME NEW l \in Seq(Chunks), NEW c \in Chunks, NEW ix, NEW id \in Ids,
         ix.primary[id] \in 0..Len(l)
  PROVE  /\ Answer(Append(l, c), ix, id) = Answer(l, ix, id)
         /\ ix.primary[id] \in 0..Len(Append(l, c))
<1> DEFINE o == ix.primary[id]
<1>1. CASE o = Absent
  BY <1>1 DEF Answer
<1>2. CASE o # Absent
  <2>1. o \in DOMAIN l /\ o \in DOMAIN Append(l, c) /\ Append(l, c)[o] = l[o]
    BY <1>2 DEF Absent
  <2>2. ReadDocAt(Append(l, c), o) = ReadDocAt(l, o)
    BY <2>1 DEF ReadDocAt, Readable, Full
  <2> QED
    BY <1>2, <2>2 DEF Answer
<1>3. ix.primary[id] \in 0..Len(Append(l, c))
  OBVIOUS
<1> QED
  BY <1>1, <1>2, <1>3

\* What the record just logged answers, through an index that points at it.
LEMMA AnswerOfRecord ==
  ASSUME NEW l \in Seq(Chunks), NEW c \in WriteCalls, c.name # "delete",
         Unencodable = {}, NEW ix, ix.primary[c.id] = Len(l) + 1
  PROVE  Answer(Append(l, Record(c.name, c.id, c.doc)), ix, c.id) = Outcome(c)
<1> DEFINE r == Record(c.name, c.id, c.doc)
           m == Append(l, r)
           o == Len(l) + 1
<1>1. r \in Chunks
  BY ChunkTypes
<1>2. m[o] = r /\ o \in DOMAIN m /\ o # Absent
  BY <1>1 DEF Absent
<1>3. r.part = "full" /\ r.id = c.id /\ r.doc = c.doc
  BY DEF Record
<1> HIDE DEF r, m
<1>4. o \in Readable(m)
  BY <1>2, <1>3 DEF Readable, Full, Encodable
<1>5. ReadDocAt(m, o) = [ok |-> TRUE, id |-> c.id, doc |-> ReloadDoc(c.doc)]
  BY <1>2, <1>3, <1>4 DEF ReadDocAt
<1>6. Answer(m, ix, c.id) = Document(c.id, ReloadDoc(c.doc))
  BY <1>2, <1>5 DEF Answer
<1> QED
  BY <1>6 DEF Outcome, m, r

\* The answer depends on nothing of the index but the offset of the id.
LEMMA AnswerSameOffset ==
  ASSUME NEW l, NEW ix, NEW iy, NEW id, ix.primary[id] = iy.primary[id]
  PROVE  Answer(l, ix, id) = Answer(l, iy, id)
  BY DEF Answer

\* An id that is not in the primary index is not found.
LEMMA AnswerAbsent ==
  ASSUME NEW l, NEW ix, NEW id, ix.primary[id] = Absent
  PROVE  Answer(l, ix, id) = NotFound
  BY DEF Answer

\* The offsets after the running call is logged.
LEMMA AppliedPrimary ==
  ASSUME TypeOK, call \in WriteCalls, NEW o \in Offsets
  PROVE  AppliedIndex(o).primary =
           [index.primary EXCEPT ![call.id] = IF call.name = "delete" THEN Absent ELSE o]
<1>1. index \in Indexes /\ call.id \in Ids
  BY DEF TypeOK, WriteCalls
<1> DEFINE old == index.primary[call.id]
           cleared == IF call.name = "insert" THEN index
                      ELSE RemoveDoc(index, ReadDocAt(log, old).doc, old)
<1>2. cleared \in Indexes /\ cleared.primary = index.primary
  BY <1>1, RemoveDocType DEF RemoveDoc, Indexes
<1> HIDE DEF cleared
<1>3. \A p \in Offsets : /\ SetPrimary(cleared, call.id, p) \in Indexes
                         /\ SetPrimary(cleared, call.id, p).primary
                              = [index.primary EXCEPT ![call.id] = p]
  BY <1>1, <1>2 DEF SetPrimary, Indexes
<1>4. \A iy \in Indexes : AddDoc(iy, call.doc, o).primary = iy.primary
  BY DEF AddDoc, Indexes
<1>5. Absent \in Offsets
  BY DEF Offsets
<1>6. CASE call.name = "delete"
  BY <1>3, <1>5, <1>6 DEF AppliedIndex, cleared
<1>7. CASE call.name # "delete"
  <2>1. AppliedIndex(o) = AddDoc(SetPrimary(cleared, call.id, o), call.doc, o)
    BY <1>7 DEF AppliedIndex, cleared
  <2> QED
    BY <1>3, <1>4, <1>7, <2>1
<1> QED
  BY <1>6, <1>7

------------------------------------------------------------------------------
(* Replays of a whole log *)

\* What a replay finds last for an id is a record of the log, or nothing.
LEMMA LiveOffsetType ==
  ASSUME NEW l \in Seq(Chunks), NEW V \in SUBSET DOMAIN l, NEW id
  PROVE  LiveOffset(l, V, id) \in 0..Len(l)
<1>1. CASE LiveOffset(l, V, id) = Absent
  BY <1>1 DEF Absent
<1>2. CASE LiveOffset(l, V, id) # Absent
  <2>1. LiveOffset(l, V, id) \in V
    BY <1>2, LiveOffsetIsLast DEF Mentions
  <2>2. V \subseteq 1..Len(l)
    OBVIOUS
  <2> QED
    BY <2>1, <2>2
<1> QED
  BY <1>1, <1>2

\* One more record: it decides for its own id, and for no other.
LEMMA LiveOffsetExtends ==
  ASSUME NEW l \in Seq(Chunks), Full(l) = DOMAIN l, Unencodable = {},
         NEW c \in WriteCalls
  PROVE  LET m == Append(l, Record(c.name, c.id, c.doc))
             o == Len(l) + 1
         IN  /\ Full(m) = DOMAIN m
             /\ \A id \in Ids \ {c.id} :
                  LiveOffset(m, DOMAIN m, id) = LiveOffset(l, DOMAIN l, id)
             /\ LiveOffset(m, DOMAIN m, c.id) = IF c.name = "delete" THEN Absent ELSE o
<1> DEFINE r == Record(c.name, c.id, c.doc)
           m == Append(l, r)
           o == Len(l) + 1
<1>1. r \in Chunks /\ r.part = "full" /\ r.id = c.id /\ r.type = c.name /\ r.doc = c.doc
  BY ChunkTypes DEF Record
<1> HIDE DEF r
<1>2. /\ m \in Seq(Chunks) /\ DOMAIN l = 1..Len(l) /\ DOMAIN m = (DOMAIN l) \cup {o}
      /\ o \notin DOMAIN l /\ m[o] = r
      /\ \A i \in DOMAIN l : m[i] = l[i] /\ i < o /\ i \in Nat
  BY <1>1
<1> HIDE DEF m, o
<1>3. Full(m) = DOMAIN m
  BY <1>1, <1>2 DEF Full
<1>4. Readable(m) = DOMAIN m /\ Readable(l) = DOMAIN l
  BY <1>3 DEF Readable, Encodable
<1>5. ASSUME NEW id \in Ids \ {c.id}
      PROVE  LiveOffset(m, DOMAIN m, id) = LiveOffset(l, DOMAIN l, id)
  <2> DEFINE M == Mentions(m, DOMAIN m, id)
             live == {i \in M : IsLast(M, i) /\ m[i].type # "delete"}
             L == Mentions(l, DOMAIN l, id)
             old == {i \in L : IsLast(L, i) /\ l[i].type # "delete"}
  <2>1. M = L
    BY <1>1, <1>2, <1>4 DEF Mentions
  <2>2. live = old
    <3>1. \A i \in L : m[i] = l[i]
      BY <1>2 DEF Mentions
    <3> HIDE DEF M, L
    <3> QED
      BY <2>1, <3>1
  <2> HIDE DEF live, old
  <2>3. LiveOffset(m, DOMAIN m, id) = IF live = {} THEN Absent ELSE CHOOSE i \in live : TRUE
    BY DEF LiveOffset, live
  <2>4. LiveOffset(l, DOMAIN l, id) = IF old = {} THEN Absent ELSE CHOOSE i \in old : TRUE
    BY DEF LiveOffset, old
  <2> QED
    BY <2>2, <2>3, <2>4
<1>6. LiveOffset(m, DOMAIN m, c.id) = IF c.name = "delete" THEN Absent ELSE o
  <2> DEFINE M == Mentions(m, DOMAIN m, c.id)
             live == {i \in M : IsLast(M, i) /\ m[i].type # "delete"}
  <2>1. o \in M /\ \A i \in M : i = o \/ i < o
    BY <1>1, <1>2, <1>4 DEF Mentions
  <2>2. \A i \in M : IsLast(M, i) <=> i = o
    <3>1. o \in Nat /\ \A i \in M : i \in Nat
      BY <1>2 DEF Mentions, o
    <3> HIDE DEF M
    <3> QED
      BY <2>1, <3>1 DEF IsLast
  <2>3. live = IF c.name = "delete" THEN {} ELSE {o}
    <3> HIDE DEF M
    <3> QED
      BY <1>1, <1>2, <2>1, <2>2
  <2> HIDE DEF live
  <2>4. LiveOffset(m, DOMAIN m, c.id) = IF live = {} THEN Absent ELSE CHOOSE i \in live : TRUE
    BY DEF LiveOffset, live
  <2> QED
    BY <2>3, <2>4
<1> QED
  BY <1>3, <1>5, <1>6 DEF m, o, r

\* So does the answer of a replay: a record lost by no scan is answered by all.
LEMMA ReplayedExtends ==
  ASSUME NEW l \in Seq(Chunks), Full(l) = DOMAIN l, Unencodable = {},
         NEW c \in WriteCalls
  PROVE  LET m == Append(l, Record(c.name, c.id, c.doc))
         IN  /\ \A id \in Ids \ {c.id} : Replayed(m, id) = Replayed(l, id)
             /\ Replayed(m, c.id) = Outcome(c)
<1> DEFINE r == Record(c.name, c.id, c.doc)
           m == Append(l, r)
           o == Len(l) + 1
           ix == RebuiltIndex(l, DOMAIN l)
           iy == RebuiltIndex(m, DOMAIN m)
<1>1. r \in Chunks /\ c.id \in Ids
  BY ChunkTypes DEF WriteCalls
<1>2. /\ ix.primary = [id \in Ids |-> LiveOffset(l, DOMAIN l, id)]
      /\ iy.primary = [id \in Ids |-> LiveOffset(m, DOMAIN m, id)]
  BY DEF RebuiltIndex
<1>3. /\ \A id \in Ids \ {c.id} : LiveOffset(m, DOMAIN m, id) = LiveOffset(l, DOMAIN l, id)
      /\ LiveOffset(m, DOMAIN m, c.id) = IF c.name = "delete" THEN Absent ELSE o
  BY LiveOffsetExtends
<1> HIDE DEF ix, iy, r
<1>4. ASSUME NEW id \in Ids \ {c.id}
      PROVE  Answer(m, iy, id) = Answer(l, ix, id)
  <2>1. iy.primary[id] = ix.primary[id] /\ ix.primary[id] \in 0..Len(l)
    BY <1>2, <1>3, LiveOffsetType
  <2>2. Answer(m, ix, id) = Answer(l, ix, id)
    BY <1>1, <2>1, AnswerExtends
  <2> QED
    BY <2>1, <2>2, AnswerSameOffset
<1>5. Answer(m, iy, c.id) = Outcome(c)
  <2>1. CASE c.name = "delete"
    BY <1>1, <1>2, <1>3, <2>1, AnswerAbsent DEF Outcome
  <2>2. CASE c.name # "delete"
    <3>1. iy.primary[c.id] = o
      BY <1>1, <1>2, <1>3, <2>2
    <3> QED
      BY <2>2, <3>1, AnswerOfRecord DEF m, r
  <2> QED
    BY <2>1, <2>2
<1> QED
  BY <1>4, <1>5 DEF Replayed, ix, iy, m, r

------------------------------------------------------------------------------
(* The invariant holds initially *)

\* An empty log holds nothing.
LEMMA EmptyLogAnswers ==
  ASSUME NEW V \in SUBSET DOMAIN <<>>, NEW id \in Ids
  PROVE  /\ RebuiltIndex(<<>>, V).primary[id] = Absent
         /\ Answer(<<>>, RebuiltIndex(<<>>, V), id) = NotFound
<1>1. <<>> \in Seq(Chunks) /\ Len(<<>>) = 0
  OBVIOUS
<1>2. LiveOffset(<<>>, V, id) \in 0..0
  BY <1>1, LiveOffsetType
<1>3. RebuiltIndex(<<>>, V).primary = [i \in Ids |-> LiveOffset(<<>>, V, i)]
  BY DEF RebuiltIndex
<1>4. RebuiltIndex(<<>>, V).primary[id] = Absent
  BY <1>2, <1>3 DEF Absent
<1> QED
  BY <1>4, AnswerAbsent

\* An empty directory that no process has opened.
LEMMA PromiseInit == Init => PromiseInv
<1> SUFFICES ASSUME Init PROVE PromiseInv
  OBVIOUS
<1>1. TypeOK
  BY InitType
<1>2. HandleInv
  <2>1. Inside(log, index)
    <3>1. \A id \in Ids : index.primary[id] = 0
      BY DEF Init, EmptyIndex, Absent
    <3>2. log = <<>> /\ Len(<<>>) = 0
      BY DEF Init
    <3>3. 0 \in 0..Len(log)
      BY <3>2
    <3> QED
      BY <3>1, <3>3 DEF Inside
  <2> QED
    BY <2>1, CallKinds DEF Init, HandleInv, Logged, Opening, NoCall
<1>3. FileInv
  BY DEF Init, FileInv, Missing
<1>4. OwnInv /\ EmptyLogInv
  BY DEF Init, OwnInv, EmptyLogInv
<1>5. IndexTrustedInv
  BY DEF Init, IndexTrustedInv, Missing, Corrupt
<1>6. LogTrustedInv
  <2>1. Full(log) = DOMAIN log
    BY DEF Init, Full
  <2>2. \A id \in Ids : Replayed(log, id) = NotFound
    BY EmptyLogAnswers DEF Init, Replayed
  <2> QED
    BY <2>1, <2>2, CallKinds DEF Init, LogTrustedInv, Logged
<1> QED
  BY <1>1, <1>2, <1>3, <1>4, <1>5, <1>6 DEF PromiseInv

------------------------------------------------------------------------------
(* and is preserved *)

\* What loads from a file that answers as it may passes the spot check.
LEMMA AllowedPassesCheck ==
  ASSUME PromiseInv, NEW ix, Allowed(log, ix)
  PROVE  SpotCheck(ix)
<1> SUFFICES ASSUME NEW id \in Ids, ix.primary[id] # Absent
             PROVE  ReadDocAt(log, ix.primary[id]).ok /\ ReadDocAt(log, ix.primary[id]).id = id
  BY DEF SpotCheck, Extremes, Indexed
<1>1. Answer(log, ix, id) \in possible[id] /\ possible[id] \in SUBSET Outcomes
  BY DEF Allowed, PromiseInv, TypeOK
<1>2. Answer(log, ix, id) # Failure
  BY <1>1 DEF Outcomes, NotFound, Failure
<1>3. ReadDocAt(log, ix.primary[id]).ok
  BY <1>2 DEF Answer, ReadDocAt, ReadError
<1>4. Answer(log, ix, id) = Document(ReadDocAt(log, ix.primary[id]).id, ReadDocAt(log, ix.primary[id]).doc)
  BY <1>3 DEF Answer
<1> QED
  BY <1>1, <1>3, <1>4 DEF PromiseInv, OwnInv, Document, NotFound

\* Under the assumptions saveIndex does not fail.
LEMMA SaveSucceeds ==
  ASSUME TypeOK, Reliable
  PROVE  Saveable(index) /\ ~SaveFails
<1>1. \A e \in index.range : e[1][2] \in RangeNums
  BY DEF TypeOK, Indexes
<1>2. Saveable(index)
  BY <1>1 DEF Saveable, Reliable
<1> QED
  BY <1>2 DEF SaveFails, Reliable, IndexTrusted, LogTrusted

\* The check of a writing call.
LEMMA PromiseStart ==
  ASSUME PromiseInv, Ready, NEW c \in WriteCalls, StartWrite(c)
  PROVE  PromiseInv'
<1>1. TypeOK'
  BY StartWriteType DEF PromiseInv
<1>2. HandleInv'
  BY CallKinds DEF PromiseInv, HandleInv, StartWrite, Ready, Inside, Allowed, Logged, Served
<1>3. FileInv'
  BY DEF PromiseInv, FileInv, StartWrite, Ready, Inside, Allowed
<1>4. OwnInv' /\ EmptyLogInv'
  BY DEF PromiseInv, OwnInv, EmptyLogInv, StartWrite
<1>5. IndexTrustedInv'
  BY DEF PromiseInv, IndexTrustedInv, StartWrite, Ready
<1>6. LogTrustedInv'
  BY DEF PromiseInv, LogTrustedInv, StartWrite, Logged
<1> QED
  BY <1>1, <1>2, <1>3, <1>4, <1>5, <1>6 DEF PromiseInv

\* The record is logged: from here on the write may be served.
LEMMA PromiseAppend ==
  ASSUME PromiseInv, Reliable, TypeOK', AppendRecord
  PROVE  PromiseInv'
<1>1. /\ log \in Seq(Chunks) /\ call \in WriteCalls /\ call.id \in Ids
      /\ CallRecord \in Chunks /\ log' = Append(log, CallRecord)
      /\ phase = "append" /\ status = "up" /\ woffset = Len(log) + 1
      /\ woffset \in Offsets
  <2>1. phase = "append" /\ call \in WriteCalls /\ Len(log) < MaxLog /\ log \in Seq(Chunks)
    BY DEF AppendRecord, PromiseInv, TypeOK
  <2>2. status = "up" /\ woffset = Len(log) + 1
    BY <2>1 DEF PromiseInv, HandleInv
  <2> QED
    BY <2>1, <2>2, ChunkTypes, BoundsAssumption
       DEF AppendRecord, CallRecord, WriteCalls, Offsets
<1>2. /\ Len(log') = Len(log) + 1 /\ log' # <<>>
      /\ woffset' = Len(log') + 1
  BY <1>1 DEF AppendRecord, AdvancedOffsets
<1>3. index'.primary =
        [index.primary EXCEPT ![call.id] = IF call.name = "delete" THEN Absent ELSE woffset]
  BY <1>1, AppliedPrimary DEF AppendRecord, PromiseInv
<1>4. /\ possible'[call.id] = possible[call.id] \cup {Outcome(call)}
      /\ \A id \in Ids \ {call.id} : possible'[id] = possible[id]
  BY <1>1 DEF AppendRecord, PromiseInv, TypeOK
<1>5. ASSUME NEW ix, Inside(log, ix), Allowed(log, ix)
      PROVE  /\ Inside(log', ix)
             /\ \A id \in Ids : Answer(log', ix, id) \in possible'[id]
  <2>1. ASSUME NEW id \in Ids
        PROVE  /\ Answer(log', ix, id) = Answer(log, ix, id)
               /\ ix.primary[id] \in 0..Len(log')
    <3>1. ix.primary[id] \in 0..Len(log)
      BY <1>5 DEF Inside
    <3> QED
      BY <1>1, <3>1, AnswerExtends
  <2>2. \A id \in Ids : Answer(log, ix, id) \in possible'[id]
    BY <1>4, <1>5 DEF Allowed
  <2> QED
    BY <2>1, <2>2 DEF Inside
<1>6. Inside(log', index')
  <2>1. index.primary \in [Ids -> Offsets]
    BY DEF PromiseInv, TypeOK, Indexes
  <2> QED
    BY <1>1, <1>2, <1>3, <2>1 DEF PromiseInv, HandleInv, Inside, Absent
<1>7. Answer(log', index', call.id) = Outcome(call)
  <2>1. index'.primary[call.id] = IF call.name = "delete" THEN Absent ELSE woffset
    BY <1>1, <1>3 DEF PromiseInv, TypeOK, Indexes
  <2>2. CASE call.name = "delete"
    BY <2>1, <2>2, AnswerAbsent DEF Outcome
  <2>3. CASE call.name # "delete"
    BY <1>1, <2>1, <2>3, AnswerOfRecord DEF CallRecord, Reliable
  <2> QED
    BY <2>2, <2>3
<1>8. \A id \in Ids \ {call.id} : Answer(log', index', id) = Answer(log, index, id)
  <2> SUFFICES ASSUME NEW id \in Ids \ {call.id}
               PROVE  Answer(log', index', id) = Answer(log, index, id)
    OBVIOUS
  <2>1. index'.primary[id] = index.primary[id]
    BY <1>1, <1>3 DEF PromiseInv, TypeOK, Indexes
  <2>2. Answer(log', index', id) = Answer(log', index, id)
    BY <2>1, AnswerSameOffset
  <2>3. index.primary[id] \in 0..Len(log)
    BY DEF PromiseInv, HandleInv, Inside
  <2> QED
    BY <1>1, <2>2, <2>3, AnswerExtends
<1>9. HandleInv'
  <2>1. Allowed(log, index)'
    BY <1>1, <1>4, <1>7, <1>8 DEF PromiseInv, HandleInv, Allowed
  <2>2. (Logged => log # <<>> /\ Served(call.id) = Outcome(call))'
    BY <1>2, <1>7 DEF AppendRecord, Served, Outcome
  <2> QED
    BY <1>1, <1>2, <1>6, <2>1, <2>2 DEF AppendRecord, PromiseInv, HandleInv
<1>10. FileInv'
  BY <1>5 DEF AppendRecord, PromiseInv, FileInv, Allowed
<1>11. OwnInv' /\ EmptyLogInv'
  BY <1>1, <1>2, <1>4 DEF PromiseInv, OwnInv, EmptyLogInv, Outcome, Document, NotFound
<1>12. IndexTrustedInv'
  BY <1>1 DEF AppendRecord, PromiseInv, IndexTrustedInv
<1>13. LogTrustedInv'
  <2> SUFFICES ASSUME "crashAppend" \notin Faults
               PROVE  /\ Full(log') = DOMAIN log'
                      /\ \A id \in Ids : Replayed(log', id) \in possible'[id]
                      /\ Replayed(log', call.id) = Outcome(call)
    BY DEF LogTrustedInv, AppendRecord, Outcome
  <2>1. Full(log) = DOMAIN log /\ \A id \in Ids : Replayed(log, id) \in possible[id]
    BY DEF PromiseInv, LogTrustedInv
  <2>2. Full(log') = DOMAIN log'
    BY <1>1, <2>1, LiveOffsetExtends DEF CallRecord, Reliable
  <2>3. /\ \A id \in Ids \ {call.id} : Replayed(log', id) = Replayed(log, id)
        /\ Replayed(log', call.id) = Outcome(call)
    BY <1>1, <2>1, ReplayedExtends DEF CallRecord, Reliable
  <2> QED
    BY <1>4, <2>1, <2>2, <2>3
<1> QED
  BY <1>9, <1>10, <1>11, <1>12, <1>13 DEF PromiseInv

\* The call returns: from here on the write must be served.
LEMMA PromiseReturn ==
  ASSUME PromiseInv, TypeOK', phase \in {"save", "write"},
         indexFile' = Saved(index), Return
  PROVE  PromiseInv'
<1>1. /\ phase' = "idle" /\ call' = NoCall /\ log' = log
      /\ call \in WriteCalls \cup {Opening, Closing}
  BY CallKinds DEF Return, PromiseInv, TypeOK, Calls
<1>2. status = "up" \/ call = Opening
  BY <1>1 DEF PromiseInv, HandleInv
<1>3. Inside(log, index) /\ Allowed(log, index)
  BY <1>2 DEF PromiseInv, HandleInv
<1>4. call \in WriteCalls => /\ Logged
                             /\ log # <<>>
                             /\ Answer(log, index, call.id) = Outcome(call)
  BY DEF PromiseInv, HandleInv, Logged, Served
<1>5. /\ call \in WriteCalls => /\ possible'[call.id] = {Outcome(call)}
                                /\ \A id \in Ids \ {call.id} : possible'[id] = possible[id]
      /\ call \notin WriteCalls => possible' = possible
  BY DEF Return, Settled, PromiseInv, TypeOK, WriteCalls
<1>6. \A id \in Ids : Answer(log, index, id) \in possible'[id]
  BY <1>3, <1>4, <1>5 DEF Allowed
<1>7. HandleInv'
  <2>1. Inside(log, index)'
    <3>1. index' = index \/ index' = EmptyIndex
      BY DEF Return, Forget
    <3>2. Inside(log, EmptyIndex)
      <4>1. log \in Seq(Chunks)
        BY DEF PromiseInv, TypeOK
      <4>2. \A id \in Ids : EmptyIndex.primary[id] = 0
        BY DEF EmptyIndex, Absent
      <4> QED
        BY <4>1, <4>2 DEF Inside
    <3> QED
      BY <1>1, <1>3, <3>1, <3>2 DEF Inside
  <2>2. status' = "up" => index' = index
    BY <1>1, CallKinds DEF Return, Forget
  <2>3. status' = "up" \/ call' = Opening => Allowed(log, index)'
    BY <1>1, <1>6, <2>2, CallKinds DEF Allowed
  <2>4. status' = "up" => woffset' = Len(log') + 1
    BY <1>1, CallKinds DEF Return, Forget, PromiseInv, HandleInv
  <2> QED
    BY <1>1, <2>1, <2>3, <2>4, CallKinds DEF HandleInv, Logged
<1>8. FileInv'
  BY <1>1, <1>3, <1>6 DEF FileInv, Saved, Inside, Allowed
<1>9. OwnInv' /\ EmptyLogInv'
  <2>1. OwnInv'
    BY <1>5 DEF PromiseInv, OwnInv, Outcome, Document, NotFound
  <2>2. EmptyLogInv'
    BY <1>1, <1>4, <1>5 DEF PromiseInv, EmptyLogInv
  <2> QED
    BY <2>1, <2>2
<1>10. IndexTrustedInv'
  BY DEF IndexTrustedInv, Saved, Corrupt, Missing
<1>11. LogTrustedInv'
  <2>1. \A id \in Ids : Replayed(log', id) = Replayed(log, id)
    BY <1>1
  <2> QED
    BY <1>1, <1>4, <1>5, <2>1, CallKinds DEF PromiseInv, LogTrustedInv, Logged
<1> QED
  BY <1>7, <1>8, <1>9, <1>10, <1>11 DEF PromiseInv

\* The end of the process, between two steps that write the log.
LEMMA PromiseDie ==
  ASSUME PromiseInv, TypeOK', Die, UNCHANGED <<log, possible>>,
         \/ indexFile' = indexFile /\ phase # "write"
         \/ indexFile' \in {Corrupt, Saved(index)} /\ "crashAppend" \notin Faults /\ phase = "write"
  PROVE  PromiseInv'
<1>1. /\ status' = "down" /\ phase' = "idle" /\ call' = NoCall
      /\ log' = log /\ possible' = possible /\ index' = EmptyIndex
  BY DEF Die, Forget
<1>2. HandleInv'
  <2>1. log \in Seq(Chunks)
    BY DEF PromiseInv, TypeOK
  <2>2. \A id \in Ids : EmptyIndex.primary[id] = 0
    BY DEF EmptyIndex, Absent
  <2>3. Inside(log, EmptyIndex)
    BY <2>1, <2>2 DEF Inside
  <2> QED
    BY <1>1, <2>3, CallKinds DEF HandleInv, Logged, Inside
<1>3. FileInv'
  <2>1. phase = "write" => Inside(log, index) /\ Allowed(log, index)
    BY CallKinds DEF PromiseInv, HandleInv, TypeOK, Calls
  <2> QED
    BY <1>1, <2>1 DEF PromiseInv, FileInv, Saved, Corrupt, Inside, Allowed
<1>4. OwnInv' /\ EmptyLogInv'
  BY <1>1 DEF PromiseInv, OwnInv, EmptyLogInv
<1>5. IndexTrustedInv'
  BY <1>1 DEF PromiseInv, IndexTrustedInv
<1>6. LogTrustedInv'
  BY <1>1, CallKinds DEF PromiseInv, LogTrustedInv, Logged, Replayed
<1> QED
  BY <1>2, <1>3, <1>4, <1>5, <1>6 DEF PromiseInv

\* The end of the process in the middle of a record.
LEMMA PromiseCut ==
  ASSUME PromiseInv, TypeOK', CrashInAppend
  PROVE  PromiseInv'
<1>1. /\ status' = "down" /\ phase' = "idle" /\ call' = NoCall
      /\ indexFile' = indexFile /\ index' = EmptyIndex
      /\ "crashAppend" \in Faults /\ phase = "append"
  BY DEF CrashInAppend, Die, Forget
<1>2. log \in Seq(Chunks) /\ call \in WriteCalls /\ call.id \in Ids /\ status = "up"
  BY <1>1 DEF PromiseInv, TypeOK, HandleInv, WriteCalls
<1>3. log' = log \/ \E c \in Chunks : log' = Append(log, c)
  BY <1>2, ChunkTypes DEF CrashInAppend, CutLogs
<1>4. \A id \in Ids : possible[id] \subseteq possible'[id]
  BY <1>2 DEF CrashInAppend, PromiseInv, TypeOK
<1>5. ASSUME NEW ix, Inside(log, ix), Allowed(log, ix)
      PROVE  /\ Inside(log', ix)
             /\ \A id \in Ids : Answer(log', ix, id) \in possible'[id]
  <2>1. ASSUME NEW id \in Ids
        PROVE  /\ Answer(log', ix, id) = Answer(log, ix, id)
               /\ ix.primary[id] \in 0..Len(log')
    <3>1. ix.primary[id] \in 0..Len(log)
      BY <1>5 DEF Inside
    <3>2. ASSUME NEW c \in Chunks, log' = Append(log, c)
          PROVE  /\ Answer(log', ix, id) = Answer(log, ix, id)
                 /\ ix.primary[id] \in 0..Len(log')
      BY <1>2, <3>1, <3>2, AnswerExtends
    <3>3. CASE log' = log
      BY <3>1, <3>3
    <3> QED
      BY <1>3, <3>2, <3>3
  <2>2. \A id \in Ids : Answer(log, ix, id) \in possible'[id]
    BY <1>4, <1>5 DEF Allowed
  <2> QED
    BY <2>1, <2>2 DEF Inside
<1>6. HandleInv'
  <2>1. log' \in Seq(Chunks)
    BY DEF TypeOK
  <2>2. \A id \in Ids : EmptyIndex.primary[id] = 0
    BY DEF EmptyIndex, Absent
  <2>3. Inside(log', EmptyIndex)
    BY <2>1, <2>2 DEF Inside
  <2> QED
    BY <1>1, <2>3, CallKinds DEF HandleInv, Logged, Inside
<1>7. FileInv'
  BY <1>1, <1>5 DEF PromiseInv, FileInv, Inside, Allowed
<1>8. OwnInv'
  BY <1>2 DEF CrashInAppend, PromiseInv, TypeOK, OwnInv, Outcome, Document, NotFound
<1>9. EmptyLogInv'
  <2>1. log' = <<>> => log = <<>>
    BY <1>2, <1>3
  <2> QED
    BY <1>4, <2>1 DEF PromiseInv, EmptyLogInv
<1>10. IndexTrustedInv'
  BY <1>1, <1>2 DEF PromiseInv, IndexTrustedInv
<1>11. LogTrustedInv'
  BY <1>1 DEF LogTrustedInv
<1> QED
  BY <1>6, <1>7, <1>8, <1>9, <1>10, <1>11 DEF PromiseInv

\* Open: the indexes loaded, or replayed, answer every id as it may be.
LEMMA OpenAnswers ==
  ASSUME PromiseInv, Reliable
  PROVE  /\ OpenLoaded => Inside(log, index') /\ Allowed(log, index')
         /\ OpenRebuilt => Inside(log, index') /\ Allowed(log, index')
<1>1. ASSUME OpenLoaded
      PROVE  Inside(log, index') /\ Allowed(log, index')
  BY <1>1 DEF OpenLoaded, FastPath, PromiseInv, FileInv
<1>2. ASSUME OpenRebuilt
      PROVE  Inside(log, index') /\ Allowed(log, index')
  <2>1. PICK V \in Scans(log) : index' = RebuiltIndex(log, V)
    BY <1>2 DEF OpenRebuilt
  <2>2. log \in Seq(Chunks) /\ V \in SUBSET DOMAIN log
    BY DEF PromiseInv, TypeOK, Scans, Full
  <2>3. index'.primary = [id \in Ids |-> LiveOffset(log, V, id)]
    BY <2>1 DEF RebuiltIndex
  <2>4. Inside(log, index')
    BY <2>2, <2>3, LiveOffsetType DEF Inside
  <2>5. CASE "crashAppend" \in Faults
    <3>1. indexFile # Corrupt
      BY <1>2, <2>5 DEF OpenRebuilt, Closed, PromiseInv, IndexTrustedInv
    <3>2. indexFile.state # "saved"
      BY <1>2, AllowedPassesCheck DEF OpenRebuilt, FastPath, PromiseInv, FileInv
    <3>3. indexFile = Missing
      BY <3>1, <3>2 DEF PromiseInv, TypeOK, IndexFiles
    <3>4. log = <<>>
      BY <2>5, <3>3 DEF PromiseInv, IndexTrustedInv
    <3> QED
      BY <2>1, <2>2, <2>4, <3>4, EmptyLogAnswers DEF Allowed, PromiseInv, EmptyLogInv
  <2>6. CASE "crashAppend" \notin Faults
    <3>1. V = DOMAIN log
      BY <2>2, <2>6, WholeLogScan DEF PromiseInv, LogTrustedInv
    <3>2. \A id \in Ids : Answer(log, index', id) \in possible[id]
      BY <2>1, <2>6, <3>1 DEF PromiseInv, LogTrustedInv, Replayed
    <3> QED
      BY <2>4, <3>2 DEF Allowed
  <2> QED
    BY <2>5, <2>6
<1> QED
  BY <1>1, <1>2

\* Both ways of opening serve what was promised.
LEMMA PromiseOpen ==
  ASSUME PromiseInv, Reliable, TypeOK', OpenLoaded \/ OpenRebuilt
  PROVE  PromiseInv'
<1>1. /\ log' = log /\ indexFile' = indexFile /\ possible' = possible
      /\ status = "down" /\ phase = "idle"
      /\ \/ (status' = "up" /\ phase' = "idle" /\ call' = call)
         \/ (status' = "down" /\ phase' = "save" /\ call' = Opening)
      /\ status' = "up" => woffset' = Len(log) + 1
  BY DEF OpenLoaded, OpenRebuilt, Closed
<1>2. call = NoCall
  BY <1>1 DEF PromiseInv, TypeOK
<1>3. Inside(log, index') /\ Allowed(log, index')
  BY OpenAnswers
<1>4. HandleInv'
  BY <1>1, <1>2, <1>3, CallKinds DEF HandleInv, Logged, Inside, Allowed
<1>5. FileInv'
  BY <1>1 DEF PromiseInv, FileInv, Inside, Allowed
<1>6. OwnInv' /\ EmptyLogInv'
  BY <1>1 DEF PromiseInv, OwnInv, EmptyLogInv
<1>7. IndexTrustedInv'
  <2>1. "crashAppend" \in Faults /\ indexFile = Missing => ~OpenLoaded
    BY DEF OpenLoaded, FastPath, Missing
  <2>2. "crashAppend" \in Faults /\ indexFile = Missing => status' = "down"
    BY <1>1, <2>1 DEF OpenRebuilt
  <2> QED
    BY <1>1, <2>2 DEF PromiseInv, IndexTrustedInv
<1>8. LogTrustedInv'
  <2>1. ~Logged'
    BY <1>1, <1>2, CallKinds DEF Logged
  <2> QED
    BY <1>1, <2>1 DEF PromiseInv, LogTrustedInv, Replayed
<1> QED
  BY <1>4, <1>5, <1>6, <1>7, <1>8 DEF PromiseInv

\* Every step keeps the promise.
LEMMA PromiseNext ==
  ASSUME Reliable
  PROVE  PromiseInv /\ [Next]_vars => PromiseInv'
<1> SUFFICES ASSUME PromiseInv, [Next]_vars PROVE PromiseInv'
  OBVIOUS
<1> TypeOK /\ TypeOK'
  BY NextType DEF PromiseInv
<1> USE DEF PromiseInv
<1>1. CASE UNCHANGED vars
  BY <1>1 DEF vars, HandleInv, FileInv, OwnInv, EmptyLogInv, IndexTrustedInv,
     LogTrustedInv, Inside, Allowed, Logged, Served, Replayed
<1>2. CASE OpenLoaded
  BY <1>2, PromiseOpen
<1>3. CASE OpenRebuilt
  BY <1>3, PromiseOpen
<1>4. ASSUME NEW id \in Ids, NEW doc \in Docs, Insert(id, doc)
      PROVE  PromiseInv'
  <2>1. Writing("insert", id, doc) \in WriteCalls
    BY DEF Writing, WriteCalls, WriteTypes
  <2> QED
    BY <1>4, <2>1, PromiseStart DEF Insert
<1>5. ASSUME NEW id \in Ids, NEW doc \in Docs, Update(id, doc)
      PROVE  PromiseInv'
  <2> DEFINE old == ReadDocAt(log, index.primary[id])
  <2>1. old.doc \in Docs
    BY <1>5, ReadDocAtType DEF Update, TypeOK
  <2>2. Writing("update", id, MergeDoc(old.doc, doc)) \in WriteCalls
    BY <2>1, MergeDocType DEF Writing, WriteCalls, WriteTypes
  <2> QED
    BY <1>5, <2>2, PromiseStart DEF Update
<1>6. ASSUME NEW id \in Ids, Delete(id)
      PROVE  PromiseInv'
  <2>1. Writing("delete", id, EmptyDoc) \in WriteCalls
    BY EmptyDocType DEF Writing, WriteCalls, WriteTypes
  <2> QED
    BY <1>6, <2>1, PromiseStart DEF Delete
<1>7. CASE CountRead
  BY <1>7 DEF CountRead, HandleInv, FileInv, OwnInv, EmptyLogInv, IndexTrustedInv,
     LogTrustedInv, Inside, Allowed, Logged, Served, Replayed
<1>8. CASE AppendRecord
  BY <1>8, PromiseAppend
<1>9. CASE AppendFails
  BY <1>9 DEF AppendFails, Reliable, IndexTrusted, LogTrusted
<1>10. CASE SaveTruncate
  <2>1. HandleInv'
    BY <1>10 DEF SaveTruncate, HandleInv, Inside, Allowed, Logged, Served
  <2>2. FileInv' /\ OwnInv' /\ EmptyLogInv' /\ IndexTrustedInv'
    BY <1>10 DEF SaveTruncate, FileInv, OwnInv, EmptyLogInv, IndexTrustedInv, Corrupt, Missing
  <2>3. LogTrustedInv'
    BY <1>10 DEF SaveTruncate, LogTrustedInv, Logged, Replayed
  <2> QED
    BY <2>1, <2>2, <2>3
<1>11. CASE SaveWrite
  BY <1>11, PromiseReturn DEF SaveWrite
<1>12. CASE SaveFails
  BY <1>12, SaveSucceeds
<1>13. CASE Close
  <2>1. HandleInv'
    BY <1>13, CallKinds DEF Close, Ready, HandleInv, Inside, Allowed, Logged
  <2>2. FileInv' /\ OwnInv' /\ EmptyLogInv' /\ IndexTrustedInv'
    BY <1>13 DEF Close, Ready, FileInv, OwnInv, EmptyLogInv, IndexTrustedInv, Inside, Allowed
  <2>3. LogTrustedInv'
    BY <1>13, CallKinds DEF Close, LogTrustedInv, Logged, Replayed
  <2> QED
    BY <2>1, <2>2, <2>3
<1>14. CASE Exit
  BY <1>14, PromiseDie DEF Exit, Ready
<1>15. CASE CrashInAppend
  BY <1>15, PromiseCut
<1>16. CASE CrashBeforeSave
  BY <1>16, PromiseDie DEF CrashBeforeSave
<1>17. CASE CrashInSave
  <2>1. "crashAppend" \notin Faults
    BY <1>17 DEF CrashInSave, Reliable, IndexTrusted, LogTrusted
  <2> QED
    BY <1>17, <2>1, PromiseDie DEF CrashInSave
<1>18. CASE RemoveIndexFile
  <2>1. "crashAppend" \notin Faults
    BY <1>18 DEF RemoveIndexFile, Reliable, IndexTrusted, LogTrusted
  <2>2. HandleInv'
    BY <1>18 DEF RemoveIndexFile, HandleInv, Inside, Allowed, Logged, Served
  <2>3. FileInv' /\ OwnInv' /\ EmptyLogInv' /\ IndexTrustedInv'
    BY <1>18, <2>1 DEF RemoveIndexFile, Closed, FileInv, OwnInv, EmptyLogInv, IndexTrustedInv, Missing
  <2>4. LogTrustedInv'
    BY <1>18 DEF RemoveIndexFile, LogTrustedInv, Logged, Replayed
  <2> QED
    BY <2>2, <2>3, <2>4
<1> QED
  BY <1>1, <1>2, <1>3, <1>4, <1>5, <1>6, <1>7, <1>8, <1>9, <1>10, <1>11, <1>12,
     <1>13, <1>14, <1>15, <1>16, <1>17, <1>18 DEF Next, Steps, Reads, Get, Find

\* Between two calls, whatever crashes came before, every id answers with what
\* its last answered write left, or with a write that was never answered.
THEOREM AckedWritesAreServed ==
  ASSUME Reliable
  PROVE  Spec => []AckedWritesServed
<1>1. PromiseInv => AckedWritesServed
  BY DEF PromiseInv, HandleInv, Allowed, AckedWritesServed, Ready, Served
<1> QED
  BY <1>1, PromiseInit, PromiseNext, PTL DEF Spec

------------------------------------------------------------------------------
(* What an id answers changes by its own writes only.  This asks for none of *)
(* the assumptions above: it holds under every fault, whatever the documents *)
(* are and however far w.offset is behind.                                   *)

\* No index points behind the end of the log, where the next record goes.
Behind(l, ix) == \A id \in Ids : ix.primary[id] \in {Misaligned} \cup 0..Len(l)

OffsetInv ==
  /\ TypeOK
  /\ Behind(log, index)
  /\ indexFile.state = "saved" => Behind(log, indexFile.index)

\* An index that points into a log answers as before when the log grows.
LEMMA BehindAnswers ==
  ASSUME NEW l \in Seq(Chunks), NEW c \in Chunks, NEW ix, Behind(l, ix)
  PROVE  /\ Behind(Append(l, c), ix)
         /\ \A id \in Ids : Answer(Append(l, c), ix, id) = Answer(l, ix, id)
<1> SUFFICES ASSUME NEW id \in Ids
             PROVE  /\ ix.primary[id] \in {Misaligned} \cup 0..Len(Append(l, c))
                    /\ Answer(Append(l, c), ix, id) = Answer(l, ix, id)
  BY DEF Behind
<1>1. CASE ix.primary[id] = Misaligned
  <2>1. \A m \in Seq(Chunks) : ix.primary[id] \notin Readable(m)
    BY <1>1 DEF Misaligned, Readable, Full
  <2>2. Append(l, c) \in Seq(Chunks)
    OBVIOUS
  <2> QED
    BY <1>1, <2>1, <2>2 DEF Answer, ReadDocAt
<1>2. CASE ix.primary[id] \in 0..Len(l)
  BY <1>2, AnswerExtends
<1> QED
  BY <1>1, <1>2 DEF Behind

\* The log never loses a chunk.
LEMMA LogGrows ==
  ASSUME TypeOK, [Next]_vars
  PROVE  log' = log \/ \E c \in Chunks : log' = Append(log, c)
<1>1. CASE AppendRecord
  <2>1. call \in WriteCalls
    BY <1>1 DEF AppendRecord, TypeOK
  <2>2. CallRecord \in Chunks
    BY <2>1, ChunkTypes DEF CallRecord, WriteCalls
  <2> QED
    BY <1>1, <2>2 DEF AppendRecord
<1>2. CASE AppendFails \/ CrashInAppend
  <2>1. call \in WriteCalls
    BY <1>2 DEF AppendFails, CrashInAppend, TypeOK
  <2>2. CallRecord \in Chunks /\ TornRecords(call.doc) \subseteq Chunks
    BY <2>1, ChunkTypes DEF CallRecord, WriteCalls, TornRecords, Chunks
  <2> QED
    BY <1>2, <2>2 DEF AppendFails, CrashInAppend, CutLogs
<1>3. CASE ~(AppendRecord \/ AppendFails \/ CrashInAppend)
  BY <1>3 DEF Next, Steps, Reads, vars, OpenLoaded, OpenRebuilt, Insert, Update, Delete, StartWrite,
     Get, Find, CountRead, SaveTruncate, SaveWrite, SaveFails, Return, Close, Exit,
     CrashBeforeSave, CrashInSave, RemoveIndexFile
<1> QED
  BY <1>1, <1>2, <1>3

\* The offsets of the running call's record are behind the end it leaves.
LEMMA AppliedBehind ==
  ASSUME OffsetInv, AppendRecord
  PROVE  /\ Behind(log, index) => Behind(log', index')
         /\ call \in WriteCalls /\ call.id \in Ids
         /\ \A id \in Ids \ {call.id} : index'.primary[id] = index.primary[id]
<1>1. /\ call \in WriteCalls /\ call.id \in Ids /\ Len(log) < MaxLog
      /\ CallRecord \in Chunks /\ log' = Append(log, CallRecord)
      /\ log \in Seq(Chunks) /\ woffset \in {Misaligned} \cup 1..(Len(log) + 1)
      /\ woffset \in Offsets
  BY ChunkTypes, BoundsAssumption
     DEF OffsetInv, TypeOK, AppendRecord, CallRecord, WriteCalls, Offsets
<1>2. index'.primary =
        [index.primary EXCEPT ![call.id] = IF call.name = "delete" THEN Absent ELSE woffset]
  BY <1>1, AppliedPrimary DEF AppendRecord, OffsetInv
<1>3. Len(log') = Len(log) + 1
  BY <1>1
<1>4. index.primary \in [Ids -> Offsets]
  BY DEF OffsetInv, TypeOK, Indexes
<1> QED
  BY <1>1, <1>2, <1>3, <1>4 DEF Behind, Absent

\* So whatever a step does to the log, an index that points into it answers as before.
LEMMA GrownAnswers ==
  ASSUME TypeOK, [Next]_vars, NEW ix, Behind(log, ix)
  PROVE  Behind(log', ix) /\ \A id \in Ids : Answer(log', ix, id) = Answer(log, ix, id)
<1>1. CASE log' = log
  BY <1>1
<1>2. ASSUME NEW c \in Chunks, log' = Append(log, c)
      PROVE  Behind(log', ix) /\ \A id \in Ids : Answer(log', ix, id) = Answer(log, ix, id)
  <2>1. log \in Seq(Chunks)
    BY DEF TypeOK
  <2>2. /\ Behind(Append(log, c), ix)
        /\ \A id \in Ids : Answer(Append(log, c), ix, id) = Answer(log, ix, id)
    BY <2>1, BehindAnswers
  <2> QED
    BY <1>2, <2>2
<1> QED
  BY <1>1, <1>2, LogGrows

\* No step points behind the log.
LEMMA OffsetNext ==
  ASSUME OffsetInv, [Next]_vars
  PROVE  OffsetInv'
<1>1. TypeOK /\ TypeOK' /\ log \in Seq(Chunks)
  BY NextType DEF OffsetInv, TypeOK
<1>2. \A ix : Behind(log, ix) => Behind(log', ix)
  BY <1>1, GrownAnswers
<1>3. Behind(log, EmptyIndex)
  BY <1>1 DEF Behind, EmptyIndex, Absent
<1>4. ASSUME NEW V \in Scans(log)
      PROVE  Behind(log, RebuiltIndex(log, V))
  <2>1. V \in SUBSET DOMAIN log
    BY DEF Scans, Full
  <2> QED
    BY <1>1, <2>1, LiveOffsetType DEF Behind, RebuiltIndex
<1>5. Behind(log', index')
  <2>1. CASE UNCHANGED index
    BY <1>2, <2>1 DEF OffsetInv
  <2>2. CASE index' = EmptyIndex
    BY <1>2, <1>3, <2>2
  <2>3. CASE OpenLoaded
    BY <1>2, <2>3 DEF OpenLoaded, FastPath, OffsetInv
  <2>4. CASE OpenRebuilt
    BY <1>2, <1>4, <2>4 DEF OpenRebuilt
  <2>5. CASE AppendRecord
    BY <2>5, AppliedBehind DEF OffsetInv
  <2> QED
    BY <2>1, <2>2, <2>3, <2>4, <2>5
       DEF Next, Steps, Reads, vars, Insert, Update, Delete, StartWrite, Get, Find, CountRead,
           AppendFails, SaveTruncate, SaveWrite, SaveFails, Return, Close, Exit,
           CrashInAppend, CrashBeforeSave, CrashInSave, Die, Forget, RemoveIndexFile
<1>6. indexFile'.state = "saved" => Behind(log', indexFile'.index)
  <2>1. CASE UNCHANGED indexFile
    BY <1>2, <2>1 DEF OffsetInv
  <2>2. CASE indexFile' \in {Missing, Corrupt}
    BY <2>2 DEF Missing, Corrupt
  <2>3. CASE indexFile' = Saved(index)
    BY <1>2, <2>3 DEF OffsetInv, Saved
  <2> QED
    BY <2>1, <2>2, <2>3
       DEF Next, Steps, Reads, vars, OpenLoaded, OpenRebuilt, Insert, Update, Delete, StartWrite, Get,
           Find, CountRead, AppendRecord, AppendFails, SaveTruncate, SaveWrite, SaveFails,
           Close, Exit, CrashInAppend, CrashBeforeSave, CrashInSave, RemoveIndexFile
<1> QED
  BY <1>1, <1>5, <1>6 DEF OffsetInv

\* A step that changes what an id answers is the append of its record.
LEMMA AnswersStep ==
  ASSUME OffsetInv, [Next]_vars, status = "up", status' = "up",
         NEW id \in Ids, Served(id)' # Served(id)
  PROVE  call.name \in WriteTypes /\ call.id = id /\ phase' = "save"
<1>1. log \in Seq(Chunks) /\ TypeOK
  BY DEF OffsetInv, TypeOK
<1>2. \A ix : Behind(log, ix) => Answer(log', ix, id) = Answer(log, ix, id)
  BY <1>1, GrownAnswers
<1>3. index' # index
  BY <1>2 DEF OffsetInv, Served
<1>4. AppendRecord
  BY <1>3 DEF Next, Steps, Reads, vars, OpenLoaded, OpenRebuilt, Closed, Insert, Update, Delete,
     StartWrite, Get, Find, CountRead, AppendFails, SaveTruncate, SaveWrite, SaveFails,
     Return, Close, Exit, CrashInAppend, CrashBeforeSave, CrashInSave, Die, Forget,
     RemoveIndexFile
<1>5. call.name \in WriteTypes /\ phase' = "save"
  BY <1>4, AppliedBehind DEF AppendRecord, WriteCalls
<1>6. ASSUME id # call.id
      PROVE  FALSE
  <2>1. index'.primary[id] = index.primary[id]
    BY <1>4, <1>6, AppliedBehind
  <2>2. Answer(log', index', id) = Answer(log', index, id)
    BY <2>1, AnswerSameOffset
  <2> QED
    BY <1>2, <2>2 DEF OffsetInv, Served
<1> QED
  BY <1>5, <1>6

\* While a handle is open, an id's answer changes only when a record of that id
\* is logged: under every fault, and with any documents.
THEOREM AnswersChangeByOwnWrites == Spec => AnswersChangeByOwnWrite
<1>1. Init => OffsetInv
  <2> SUFFICES ASSUME Init PROVE OffsetInv
    OBVIOUS
  <2> QED
    BY InitType DEF Init, OffsetInv, Behind, EmptyIndex, Absent, Missing
<1>2. OffsetInv /\ [Next]_vars => OffsetInv'
  BY OffsetNext
<1>3. OffsetInv /\ [Next]_vars =>
        [status = "up" /\ status' = "up" =>
           \A id \in Ids :
             Served(id)' # Served(id) =>
               call.name \in WriteTypes /\ call.id = id /\ phase' = "save"]_vars
  BY AnswersStep
<1> QED
  BY <1>1, <1>2, <1>3, PTL DEF Spec, AnswersChangeByOwnWrite

------------------------------------------------------------------------------
(* The refinement of DocStore: what the open handle answers, seen through    *)
(* Promise's mapping, starts as DocStore starts, and every step is a step of *)
(* DocStore or leaves it unchanged.  Two more invariants follow from the one *)
(* this rests on.                                                            *)

\* The mapping of Promise.
View == [id \in Ids |-> IF status = "up" THEN Served(id) ELSE NotFound]
Pending == IF call \in WriteCalls /\ phase \in {"save", "write"}
             THEN {call.id} ELSE {}

\* What a writing call is about to log is something DocStore allows it to do.
EffectInv == phase = "append" => Outcome(call) \in Promise!Effects(call.id)

RefInv == PromiseInv /\ EffectInv

------------------------------------------------------------------------------
(* The invariant *)

\* The checks of the three writing calls are those of DocStore.
LEMMA EffectOfStart ==
  ASSUME PromiseInv, Ready,
         NEW c \in WriteCalls, StartWrite(c),
         \/ c.name = "insert" /\ Served(c.id) = NotFound
         \/ /\ c.name = "update"
            /\ Served(c.id).answer = "document"
            /\ \E partial \in Docs : c.doc = MergeDoc(Served(c.id).doc, partial)
         \/ c.name = "delete" /\ Served(c.id).answer = "document"
  PROVE  EffectInv'
<1>1. call' = c /\ log' = log /\ index' = index /\ status' = "up"
  BY DEF StartWrite, Ready
<1>2. c.id \in Ids /\ c.doc \in Docs
  BY DEF WriteCalls
<1>3. Served(c.id)' = Served(c.id)
  BY <1>1 DEF Served
<1>4. CASE c.name = "insert" /\ Served(c.id) = NotFound
  <2>1. Outcome(c) = Promise!Document(c.id, Promise!ReloadDoc(c.doc))
    BY <1>4 DEF Outcome, Document, Promise!Document, ReloadDoc, Promise!ReloadDoc
  <2>2. View'[c.id] = Promise!NotFound
    BY <1>1, <1>2, <1>3, <1>4 DEF View, NotFound, Promise!NotFound
  <2>3. Outcome(c) \in
          {Promise!Document(c.id, Promise!ReloadDoc(doc)) : doc \in Promise!Docs}
    BY <1>2, <2>1 DEF Docs, Promise!Docs
  <2> QED
    BY <1>1, <2>2, <2>3 DEF EffectInv, Promise!Effects, View, Outcome
<1>5. CASE c.name = "update" /\ Served(c.id).answer = "document"
  <2>1. Served(c.id) # NotFound
    BY <1>5 DEF NotFound
  <2>2. PICK partial \in Docs : c.doc = MergeDoc(Served(c.id).doc, partial)
    BY <1>5
  <2>3. View'[c.id] = Served(c.id) /\ View'[c.id] # Promise!NotFound
    BY <1>1, <1>2, <1>3, <2>1 DEF View, NotFound, Promise!NotFound
  <2>4. Outcome(c) =
          Promise!Document(c.id, Promise!ReloadDoc(Promise!MergeDoc(View'[c.id].doc, partial)))
    BY <1>5, <2>2, <2>3
       DEF Outcome, Document, Promise!Document, ReloadDoc, Promise!ReloadDoc,
           MergeDoc, Promise!MergeDoc
  <2>5. Outcome(c) \in
          {Promise!Document(c.id,
             Promise!ReloadDoc(Promise!MergeDoc(View'[c.id].doc, part))) : part \in Promise!Docs}
    BY <2>2, <2>4 DEF Docs, Promise!Docs
  <2> QED
    BY <1>1, <2>3, <2>5 DEF EffectInv, Promise!Effects, View, Outcome
<1>6. CASE c.name = "delete" /\ Served(c.id).answer = "document"
  <2>1. Served(c.id) # NotFound
    BY <1>6 DEF NotFound
  <2> QED
    BY <1>1, <1>2, <1>3, <1>6, <2>1
       DEF EffectInv, Outcome, Promise!Effects, Promise!NotFound, NotFound
<1> QED
  BY <1>4, <1>5, <1>6

\* Between its check and its append a call stays allowed.
LEMMA EffectNext ==
  ASSUME PromiseInv, EffectInv, [Next]_vars
  PROVE  EffectInv'
<1> TypeOK /\ TypeOK'
  BY NextType DEF PromiseInv
<1>1. CASE UNCHANGED vars
  BY <1>1 DEF vars, EffectInv, Outcome, Promise!Effects, Served
<1>2. ASSUME NEW id \in Ids, NEW doc \in Docs, Insert(id, doc)
      PROVE  EffectInv'
  <2> DEFINE c == Writing("insert", id, doc)
  <2>1. c \in WriteCalls /\ c.name = "insert" /\ c.id = id
    BY DEF Writing, WriteCalls, WriteTypes
  <2>2. Served(id) = NotFound
    BY <1>2 DEF Insert, Served, Answer
  <2> HIDE DEF c
  <2>3. Ready /\ StartWrite(c)
    BY <1>2 DEF Insert, c
  <2> QED
    BY <2>1, <2>2, <2>3, EffectOfStart
<1>3. ASSUME NEW id \in Ids, NEW partial \in Docs, Update(id, partial)
      PROVE  EffectInv'
  <2> DEFINE old == ReadDocAt(log, index.primary[id])
             c == Writing("update", id, MergeDoc(old.doc, partial))
  <2>1. old.doc \in Docs
    BY <1>3, ReadDocAtType DEF Update, TypeOK
  <2>2. c \in WriteCalls /\ c.name = "update" /\ c.id = id
        /\ c.doc = MergeDoc(old.doc, partial)
    BY <2>1, MergeDocType DEF Writing, WriteCalls, WriteTypes
  <2>3. Served(id).answer = "document" /\ Served(id).doc = old.doc
    BY <1>3 DEF Update, Served, Answer, Document
  <2>4. Ready /\ StartWrite(c)
    BY <1>3 DEF Update
  <2> HIDE DEF c, old
  <2> QED
    BY <2>2, <2>3, <2>4, EffectOfStart
<1>4. ASSUME NEW id \in Ids, Delete(id)
      PROVE  EffectInv'
  <2> DEFINE c == Writing("delete", id, EmptyDoc)
  <2>1. c \in WriteCalls /\ c.name = "delete" /\ c.id = id
    BY EmptyDocType DEF Writing, WriteCalls, WriteTypes
  <2>2. Served(id).answer = "document"
    BY <1>4 DEF Delete, Served, Answer, Document
  <2>3. Ready /\ StartWrite(c)
    BY <1>4 DEF Delete
  <2> HIDE DEF c
  <2> QED
    BY <2>1, <2>2, <2>3, EffectOfStart
<1>5. CASE \/ OpenLoaded \/ OpenRebuilt \/ AppendRecord \/ AppendFails
           \/ SaveTruncate \/ SaveWrite \/ SaveFails \/ Close \/ Exit
           \/ CrashInAppend \/ CrashBeforeSave \/ CrashInSave \/ RemoveIndexFile
           \/ Find \/ \E id \in Ids : Get(id)
  <2>1. phase' # "append"
    BY <1>5 DEF OpenLoaded, OpenRebuilt, Closed, AppendRecord, AppendFails,
       SaveTruncate, SaveWrite, SaveFails, Return, Close, Exit, Die,
       CrashInAppend, CrashBeforeSave, CrashInSave, RemoveIndexFile, Find, Get,
       Ready, CountRead
  <2> QED
    BY <2>1 DEF EffectInv
<1> QED
  BY <1>1, <1>2, <1>3, <1>4, <1>5 DEF Next, Steps, Reads

------------------------------------------------------------------------------
(* Steps *)

\* Steps that change neither the answers nor what is owed leave DocStore alone.
LEMMA Stutters ==
  ASSUME status' = status, possible' = possible, Pending' = Pending,
         status = "up" => \A id \in Ids : Served(id)' = Served(id)
  PROVE  UNCHANGED Promise!vars
BY DEF Promise!vars, Pending

\* An open is an open of DocStore when it serves what was promised.
LEMMA Opens ==
  ASSUME TypeOK, status = "down", status' = "up", possible' = possible,
         Pending = {}, Pending' = {},
         \A id \in Ids : Served(id)' \in possible[id]
  PROVE  Promise!Open
<1>1. Outcomes = Promise!Outcomes
  BY DEF Outcomes, Promise!Outcomes, NotFound, Promise!NotFound, Docs, Promise!Docs
<1>2. \A id \in Ids : Served(id)' \in Outcomes
  BY DEF TypeOK
<1> QED
  BY <1>1, <1>2 DEF Promise!Open, Pending

\* A close or a crash is DocStore going down.
LEMMA GoesDown ==
  ASSUME status = "up", status' = "down", possible' = possible, Pending' = {}
  PROVE  Promise!Down
BY DEF Promise!Down, Promise!NoView, Promise!NotFound, NotFound, Pending

\* An append changes no answer but that of its own id.
LEMMA AppendedOthers ==
  ASSUME PromiseInv, AppendRecord, NEW id \in Ids, id # call.id
  PROVE  Served(id)' = Served(id)
<1>1. /\ log \in Seq(Chunks) /\ call \in WriteCalls /\ call.id \in Ids
      /\ CallRecord \in Chunks /\ log' = Append(log, CallRecord)
      /\ woffset = Len(log) + 1 /\ woffset \in Offsets
  <2>1. phase = "append" /\ call \in WriteCalls /\ Len(log) < MaxLog /\ log \in Seq(Chunks)
    BY DEF AppendRecord, PromiseInv, TypeOK
  <2>2. woffset = Len(log) + 1
    BY <2>1 DEF PromiseInv, HandleInv
  <2> QED
    BY <2>1, <2>2, ChunkTypes, BoundsAssumption
       DEF AppendRecord, CallRecord, WriteCalls, Offsets
<1>2. index'.primary =
        [index.primary EXCEPT ![call.id] = IF call.name = "delete" THEN Absent ELSE woffset]
  BY <1>1, AppliedPrimary DEF AppendRecord, PromiseInv
<1>3. index'.primary[id] = index.primary[id]
  BY <1>1, <1>2 DEF PromiseInv, TypeOK, Indexes
<1>4. Answer(log', index', id) = Answer(log', index, id)
  BY <1>3, AnswerSameOffset
<1>5. index.primary[id] \in 0..Len(log)
  BY DEF PromiseInv, HandleInv, Inside
<1>6. Answer(log', index, id) = Answer(log, index, id)
  BY <1>1, <1>5, AnswerExtends
<1> QED
  BY <1>4, <1>6 DEF Served

\* A logged record is a write of DocStore that takes effect.
LEMMA Applies ==
  ASSUME PromiseInv, EffectInv, Reliable, AppendRecord, PromiseInv'
  PROVE  \E id \in Ids : Promise!Apply(id)
<1> DEFINE id == call.id
           out == Outcome(call)
<1>1. /\ phase = "append" /\ phase' = "save" /\ call' = call /\ status' = status
      /\ possible' = [possible EXCEPT ![id] = @ \cup {out}]
      /\ call \in WriteCalls /\ id \in Ids
  BY DEF AppendRecord, PromiseInv, TypeOK, WriteCalls
<1>2. status = "up"
  BY <1>1, CallKinds DEF PromiseInv, HandleInv
<1>3. out \in Promise!Effects(id)
  BY <1>1 DEF EffectInv
<1>4. Served(id)' = out
  BY <1>1 DEF PromiseInv, HandleInv, Logged, Outcome
<1>5. \A other \in Ids \ {id} : Served(other)' = Served(other)
  BY AppendedOthers
<1>6. View' = [View EXCEPT ![id] = out]
  BY <1>1, <1>2, <1>4, <1>5 DEF View
<1>7. Pending = {} /\ Pending' = {id}
  BY <1>1 DEF Pending
<1> QED
  BY <1>1, <1>2, <1>3, <1>6, <1>7 DEF Promise!Apply, View, Pending

\* The process dies while it appends: the write may yet be found.
LEMMA LosesWrite ==
  ASSUME PromiseInv, EffectInv, CrashInAppend
  PROVE  Promise!Down
<1>1. /\ phase = "append" /\ status' = "down" /\ phase' = "idle"
      /\ possible' = [possible EXCEPT ![call.id] = @ \cup {Outcome(call)}]
      /\ call \in WriteCalls /\ call.id \in Ids
  BY DEF CrashInAppend, Die, Forget, PromiseInv, TypeOK, WriteCalls
<1>2. status = "up"
  BY <1>1, CallKinds DEF PromiseInv, HandleInv
<1>3. Pending = {} /\ Pending' = {}
  BY <1>1 DEF Pending
<1>4. Promise!Lose(call.id)
  BY <1>1, <1>2 DEF Promise!Lose, EffectInv
<1> QED
  BY <1>1, <1>2, <1>3, <1>4 DEF Promise!Down, Promise!NoView, Promise!NotFound, NotFound, Pending

\* The end of a call: a write is answered, Open opens, Close closes.
LEMMA Returns ==
  ASSUME PromiseInv, Return, phase \in {"save", "write"}, TypeOK', PromiseInv'
  PROVE  [Promise!Next]_(Promise!vars)
<1>1. phase' = "idle" /\ call' = NoCall /\ log' = log /\ Pending' = {} /\ possible' = Settled
  BY DEF Return, Pending
<1>2. CASE call \in WriteCalls
  <2>1. status = "up" /\ status' = "up" /\ index' = index
    BY <1>2, CallKinds DEF Return, PromiseInv, HandleInv
  <2>2. Served(call.id) = Outcome(call) /\ call.id \in Ids
    BY <1>2 DEF PromiseInv, HandleInv, Logged, WriteCalls
  <2>3. possible' = [possible EXCEPT ![call.id] = {Outcome(call)}]
    BY <1>1, <1>2 DEF Settled
  <2>4. Pending = {call.id}
    BY <1>2 DEF Pending
  <2>5. View' = View
    BY <1>1, <2>1 DEF View, Served
  <2>6. View[call.id] = Outcome(call)
    BY <2>1, <2>2 DEF View
  <2>7. Promise!Acknowledge(call.id)
    BY <1>1, <2>1, <2>2, <2>3, <2>4, <2>5, <2>6 DEF Promise!Acknowledge, View, Pending
  <2> QED
    BY <2>2, <2>7 DEF Promise!Next
<1>3. CASE call = Opening
  <2>1. call \notin WriteCalls
    BY <1>3, CallKinds
  <2>2. possible' = possible /\ Pending = {}
    BY <1>1, <2>1 DEF Settled, Pending
  <2>3. status = "down" /\ status' = "up" /\ index' = index
    BY <1>3, CallKinds DEF Return, PromiseInv, HandleInv, TypeOK
  <2>4. \A id \in Ids : Served(id)' \in possible[id]
    BY <1>1, <1>3, <2>3 DEF PromiseInv, HandleInv, Allowed, Served
  <2> QED
    BY <1>1, <2>2, <2>3, <2>4, Opens DEF Promise!Next, PromiseInv
<1>4. CASE call = Closing
  <2>1. call \notin WriteCalls
    BY <1>4, CallKinds
  <2>2. possible' = possible
    BY <1>1, <2>1 DEF Settled
  <2>3. status = "up" /\ status' = "down"
    BY <1>4, <2>1, CallKinds DEF Return, Forget, PromiseInv, HandleInv
  <2> QED
    BY <1>1, <2>2, <2>3, GoesDown DEF Promise!Next
<1> QED
  BY <1>2, <1>3, <1>4 DEF Return

\* Every step is a step of DocStore or none.
LEMMA PromiseStep ==
  ASSUME Reliable, RefInv, [Next]_vars, PromiseInv'
  PROVE  [Promise!Next]_(Promise!vars)
<1> USE DEF RefInv
<1> TypeOK /\ TypeOK'
  BY DEF PromiseInv
<1>1. CASE UNCHANGED vars
  BY <1>1, Stutters DEF vars, Pending, Served
<1>2. CASE OpenLoaded
  <2>1. status = "down" /\ status' = "up" /\ possible' = possible /\ phase = "idle" /\ phase' = "idle"
    BY <1>2 DEF OpenLoaded, Closed
  <2>2. \A id \in Ids : Served(id)' \in possible[id]
    BY <2>1 DEF PromiseInv, HandleInv, Allowed, Served
  <2> QED
    BY <2>1, <2>2, Opens DEF Promise!Next, Pending
<1>3. CASE OpenRebuilt
  <2>1. status = "down" /\ status' = status /\ possible' = possible /\ phase = "idle" /\ call' = Opening
    BY <1>3 DEF OpenRebuilt, Closed
  <2> QED
    BY <2>1, CallKinds, Stutters DEF Pending
<1>4. ASSUME NEW c, Ready, StartWrite(c)
      PROVE  UNCHANGED Promise!vars
  BY <1>4, Stutters DEF Ready, StartWrite, Pending, Served
<1>5. CASE CountRead
  BY <1>5, Stutters DEF CountRead, Pending, Served
<1>6. CASE AppendRecord
  BY <1>6, Applies DEF Promise!Next
<1>7. CASE AppendFails
  BY <1>7 DEF AppendFails, Reliable, IndexTrusted, LogTrusted
<1>8. CASE SaveTruncate
  BY <1>8, Stutters DEF SaveTruncate, Pending, Served
<1>9. CASE SaveWrite \/ SaveFails
  <2>1. Return /\ phase \in {"save", "write"}
    BY <1>9 DEF SaveWrite, SaveFails
  <2> QED
    BY <2>1, Returns
<1>10. CASE Close
  BY <1>10, CallKinds, Stutters DEF Close, Ready, Pending, Served
<1>11. CASE CrashInAppend
  BY <1>11, LosesWrite DEF Promise!Next
<1>12. CASE Exit \/ CrashBeforeSave \/ CrashInSave
  <2>1. status' = "down" /\ phase' = "idle" /\ call' = NoCall /\ possible' = possible
    BY <1>12 DEF Exit, CrashBeforeSave, CrashInSave, Die, Forget
  <2>2. Pending' = {}
    BY <2>1 DEF Pending
  <2>3. CASE status = "up"
    BY <2>1, <2>2, <2>3, GoesDown DEF Promise!Next
  <2>4. CASE status # "up"
    <3>1. status = "down" /\ call \notin WriteCalls
      BY <2>4 DEF TypeOK, PromiseInv, HandleInv
    <3> QED
      BY <2>1, <2>2, <3>1, Stutters DEF Pending
  <2> QED
    BY <2>3, <2>4
<1>13. CASE RemoveIndexFile
  BY <1>13, Stutters DEF RemoveIndexFile, Closed, Pending, Served
<1> QED
  BY <1>1, <1>2, <1>3, <1>4, <1>5, <1>6, <1>7, <1>8, <1>9, <1>10, <1>11, <1>12,
     <1>13 DEF Next, Steps, Reads, Insert, Update, Delete, Get, Find

------------------------------------------------------------------------------

\* The initial states are those of DocStore.
LEMMA RefInit ==
  ASSUME Init
  PROVE  RefInv /\ Promise!Init
<1>1. PromiseInv
  BY PromiseInit
<1>2. EffectInv
  BY DEF Init, EffectInv
<1>3. Promise!Init
  BY CallKinds DEF Init, Promise!Init, Promise!NoView, Promise!NotFound, NotFound
<1> QED
  BY <1>1, <1>2, <1>3 DEF RefInv

\* DiskDB implements DocStore: every run of the database, with the crashes that
\* leave index.json or the log to be trusted, is one the promise allows.
THEOREM DiskDBKeepsPromise ==
  ASSUME Reliable
  PROVE  Spec => KeepsPromise
<1>1. Init => RefInv /\ Promise!Init
  BY RefInit
<1>2. RefInv /\ [Next]_vars => RefInv'
  BY PromiseNext, EffectNext DEF RefInv
<1>3. RefInv /\ RefInv' /\ [Next]_vars => [Promise!Next]_(Promise!vars)
  BY PromiseStep DEF RefInv
<1> QED
  BY <1>1, <1>2, <1>3, PTL DEF Spec, KeepsPromise, Promise!Spec

\* A document read through the index is that of the id it was asked for.
THEOREM DocumentsAreOwn ==
  ASSUME Reliable
  PROVE  Spec => []OwnDocument
<1>1. PromiseInv => OwnDocument
  <2> SUFFICES ASSUME PromiseInv, Ready, NEW id \in Ids, Served(id).answer = "document"
               PROVE  Served(id).id = id
    BY DEF OwnDocument
  <2>1. Served(id) \in possible[id]
    BY DEF PromiseInv, HandleInv, Allowed, Ready, Served
  <2>2. Served(id) # NotFound
    BY DEF NotFound
  <2> QED
    BY <2>1, <2>2 DEF PromiseInv, OwnInv
<1> QED
  BY <1>1, PromiseInit, PromiseNext, PTL DEF Spec

\* A closed database can always be opened again: its index.json passes the spot
\* check, or its log is whole and its replay does not fail.
THEOREM AlwaysOpenable ==
  ASSUME Reliable
  PROVE  Spec => []Openable
<1>1. PromiseInv => Openable
  <2> SUFFICES ASSUME PromiseInv, Closed, ~FastPath
               PROVE  \E V \in Scans(log) : ~ReplayMustFail(log, V)
    BY DEF Openable
  <2> USE DEF PromiseInv
  <2>1. indexFile.state # "saved"
    BY AllowedPassesCheck DEF FastPath, FileInv
  <2>2. indexFile \in {Missing, Corrupt}
    BY <2>1 DEF TypeOK, IndexFiles
  <2>3. Full(log) = DOMAIN log
    <3>1. CASE "crashAppend" \in Faults
      BY <2>2, <3>1 DEF IndexTrustedInv, Closed, Full
    <3>2. CASE "crashAppend" \notin Faults
      BY <3>2 DEF LogTrustedInv
    <3> QED
      BY <3>1, <3>2
  <2>4. DOMAIN log \in Scans(log)
    BY <2>3 DEF Scans
  <2>5. log \in Seq(Chunks)
    BY DEF TypeOK
  <2>6. ~ReplayMustFail(log, DOMAIN log)
    BY <2>5 DEF ReplayMustFail
  <2> QED
    BY <2>4, <2>6
<1> QED
  BY <1>1, PromiseInit, PromiseNext, PTL DEF Spec
==============================================================================
