-------------------------------- MODULE DiskDB --------------------------------
(***************************************************************************)
(* The disk mode of api/db.go: the write-ahead log, the three in-memory    *)
(* indexes and their image in index.json, through the calls of DB (Open,   *)
(* Insert, Get, Update, Delete, Find, Close), the ends of the process and  *)
(* the failures of the file system.                                        *)
(*                                                                         *)
(* Every call but Close runs under db.mu, so calls do not interleave here; *)
(* what interleaves with the steps of a call is its failure.  A writing    *)
(* call is three steps: "append" (wal.Append, then the in-memory indexes), *)
(* "save" (os.WriteFile truncates index.json) and "write" (it is written,  *)
(* and the call returns).                                                  *)
(***************************************************************************)
EXTENDS LogFile

CONSTANTS
  Unsaveable, \* range keys json.Marshal refuses: the infinities and NaN
  Faults,     \* which of FaultKinds may happen
  MaxLog,     \* bound: the number of chunks the log may reach
  MaxReads    \* bound: the value the reads counter may reach

FaultKinds ==
  {"crashAppend",  \* the process dies while a record is being written
   "crashLogged",  \* ... once it is logged, before index.json is touched
   "crashSave",    \* ... while index.json is being written
   "appendError",  \* Write or Sync of the log returns an error
   "saveError",    \* WriteFile of index.json returns an error
   "removeIndex"}  \* index.json is removed between two sessions

ASSUME UnsaveableAssumption == Unsaveable \subseteq Int
ASSUME FaultsAssumption == Faults \subseteq FaultKinds
ASSUME BoundsAssumption == MaxLog \in Nat /\ MaxReads \in Nat

VARIABLES
  log,       \* data.log
  indexFile, \* index.json
  status,    \* "up" while a DB handle is open
  index,     \* db.index, db.secondary and db.rangeIdx
  woffset,   \* w.offset: where the log believes its next record will start
  phase,     \* the step the running call is at
  call,      \* the running call
  stats,     \* db.stats
  possible   \* history: what each id may hold, given the answers of the calls

vars == <<log, indexFile, status, index, woffset, phase, call, stats, possible>>

------------------------------------------------------------------------------
(* Indexes *)

\* The keys the range index may hold.
RangeNums == {Num[v] : v \in NumericVals}

Offsets == {Misaligned, Absent} \cup 1..MaxLog
Indexes ==
  [primary   : [Ids -> Offsets],
   secondary : SUBSET ((Fields \X Prints) \X Offsets),
   range     : SUBSET ((Fields \X RangeNums) \X Offsets)]

EmptyIndex ==
  [primary |-> [id \in Ids |-> Absent], secondary |-> {}, range |-> {}]

Indexed(ix) == {id \in Ids : ix.primary[id] # Absent}

SetPrimary(ix, id, offset) == [ix EXCEPT !.primary[id] = offset]

\* The entries that file offset under each of keys.
Entries(keys, offset) == {<<k, offset>> : k \in keys}

AddDoc(ix, doc, offset) ==
  [ix EXCEPT !.secondary = @ \cup Entries(SecondaryKeys(doc), offset),
             !.range     = @ \cup Entries(RangeKeys(doc), offset)]

\* (A mutant of RemoveDoc: the entries of the range index stay.)
RemoveDocSecondary(ix, doc, offset) ==
  [ix EXCEPT !.secondary = @ \ Entries(SecondaryKeys(doc), offset)]

RemoveDoc(ix, doc, offset) ==
  [ix EXCEPT !.secondary = @ \ Entries(SecondaryKeys(doc), offset),
             !.range     = @ \ Entries(RangeKeys(doc), offset)]

\* (A mutant of RebuiltIndex: superseded records are filed too.)
RebuiltIndexOfAll(l, V) ==
  LET Doc(i) == ReadDocAt(l, i).doc
      docs == V \cap Readable(l)
  IN  [primary   |-> [id \in Ids |-> LiveOffset(l, V, id)],
       secondary |-> UNION {Entries(SecondaryKeys(Doc(i)), i) : i \in docs},
       range     |-> UNION {Entries(RangeKeys(Doc(i)), i) : i \in docs}]

\* The indexes replayed from the log l by the scan V.
RebuiltIndex(l, V) ==
  LET live == [id \in Ids |-> LiveOffset(l, V, id)]
      docs == {i \in V : \E id \in Ids : live[id] = i}
      Doc(i) == ReadDocAt(l, i).doc
  IN  [primary   |-> live,
       secondary |-> UNION {Entries(SecondaryKeys(Doc(i)), i) : i \in docs},
       range     |-> UNION {Entries(RangeKeys(Doc(i)), i) : i \in docs}]

\* json.Marshal of the three indexes succeeds.
Saveable(ix) == \A e \in ix.range : e[1][2] \notin Unsaveable

Missing == [state |-> "missing"]
Corrupt == [state |-> "corrupt"]
Saved(ix) == [state |-> "saved", index |-> ix]
IndexFiles == {Missing, Corrupt} \cup [state : {"saved"}, index : Indexes]

------------------------------------------------------------------------------
(* Answers *)

NotFound == [answer |-> "notFound"]
Failure == [answer |-> "error"]
Document(id, doc) == [answer |-> "document", id |-> id, doc |-> doc]
Outcomes == {NotFound} \cup [answer : {"document"}, id : Ids, doc : Docs]

\* What a reader of the log l gets for id through the index ix.
Answer(l, ix, id) ==
  LET offset == ix.primary[id]
      read == ReadDocAt(l, offset)
  IN  IF offset = Absent THEN NotFound
      ELSE IF read.ok THEN Document(read.id, read.doc)
      ELSE Failure

Served(id) == Answer(log, index, id)

\* What the writing call c leaves under its id.
Outcome(c) ==
  IF c.name = "delete" THEN NotFound ELSE Document(c.id, ReloadDoc(c.doc))

NoCall == [name |-> "none"]
Opening == [name |-> "open"]
Closing == [name |-> "close"]
Writing(type, id, doc) == [name |-> type, id |-> id, doc |-> doc]
WriteCalls == [name : WriteTypes, id : Ids, doc : Docs]
Calls == {NoCall, Opening, Closing} \cup WriteCalls

ZeroStats == [reads |-> 0, writes |-> 0, deletes |-> 0]

TypeOK ==
  /\ log \in Seq(Chunks)
  /\ Len(log) <= MaxLog
  /\ indexFile \in IndexFiles
  /\ status \in {"up", "down"}
  /\ index \in Indexes
  /\ woffset \in {Misaligned} \cup 1..(Len(log) + 1)
  /\ phase \in {"idle", "append", "save", "write"}
  /\ call \in Calls
  /\ phase = "idle" <=> call = NoCall
  /\ phase = "append" => call \in WriteCalls /\ Len(log) < MaxLog
  /\ stats \in [reads : Nat, writes : Nat, deletes : Nat]
  /\ possible \in [Ids -> SUBSET Outcomes]

\* An empty directory and no process.
Init ==
  /\ log = <<>>
  /\ indexFile = Missing
  /\ status = "down"
  /\ index = EmptyIndex
  /\ woffset = 1
  /\ phase = "idle"
  /\ call = NoCall
  /\ stats = ZeroStats
  /\ possible = [id \in Ids |-> {NotFound}]

------------------------------------------------------------------------------
(* Calls that write a record *)

Ready == status = "up" /\ phase = "idle"

\* (A mutant of StartWrite: index.json is truncated before the append.)
StartWriteTruncating(c) ==
  /\ Len(log) < MaxLog
  /\ phase' = "append"
  /\ call' = c
  /\ indexFile' = Corrupt
  /\ UNCHANGED <<log, status, index, woffset, stats, possible>>

\* A writing call has taken the lock, made its checks and encoded its record.
StartWrite(c) ==
  /\ Len(log) < MaxLog
  /\ phase' = "append"
  /\ call' = c
  /\ UNCHANGED <<log, indexFile, status, index, woffset, stats, possible>>

\* (A mutant of Insert: it does not look for a document of that id.)
InsertOver(id, doc) ==
  /\ Ready
  /\ StartWrite(Writing("insert", id, doc))

Insert(id, doc) ==
  /\ Ready
  /\ index.primary[id] = Absent
  /\ StartWrite(Writing("insert", id, doc))

Update(id, partial) ==
  LET old == ReadDocAt(log, index.primary[id])
  IN  /\ Ready
      /\ index.primary[id] # Absent
      /\ old.ok
      /\ StartWrite(Writing("update", id, MergeDoc(old.doc, partial)))

Delete(id) ==
  /\ Ready
  /\ index.primary[id] # Absent
  /\ ReadDocAt(log, index.primary[id]).ok
  /\ StartWrite(Writing("delete", id, EmptyDoc))

CallRecord == Record(call.name, call.id, call.doc)

\* (Mutants of AdvancedOffsets: the record's length is added twice, or never.)
TwiceAdvancedOffsets == {woffset + 2}
SameOffsets == {woffset}

\* w.offset follows the end of the file only while it started there: after a
\* failed Append it stays behind by the bytes that Append left in the file.
AdvancedOffsets ==
  IF woffset = Len(log) + 1
    THEN {woffset + 1}
    ELSE {Misaligned} \cup {i \in 1..(Len(log) + 1) : i > woffset}

\* (A mutant of AppliedIndex: Delete does not remove the id from db.index.)
AppliedKeepingPrimary(offset) ==
  LET old == index.primary[call.id]
      cleared == IF call.name = "insert" THEN index
                 ELSE RemoveDoc(index, ReadDocAt(log, old).doc, old)
  IN  IF call.name = "delete" THEN cleared
      ELSE AddDoc(SetPrimary(cleared, call.id, offset), call.doc, offset)

\* The indexes after the record of the running call went to offset.
AppliedIndex(offset) ==
  LET old == index.primary[call.id]
      cleared == IF call.name = "insert" THEN index
                 ELSE RemoveDoc(index, ReadDocAt(log, old).doc, old)
  IN  IF call.name = "delete"
        THEN SetPrimary(cleared, call.id, Absent)
        ELSE AddDoc(SetPrimary(cleared, call.id, offset), call.doc, offset)

\* The record is written and synced; the indexes in memory follow.
AppendRecord ==
  /\ phase = "append"
  /\ log' = Append(log, CallRecord)
  /\ woffset' \in AdvancedOffsets
  /\ index' = AppliedIndex(woffset)
  /\ possible' = [possible EXCEPT ![call.id] = @ \cup {Outcome(call)}]
  /\ phase' = "save"
  /\ UNCHANGED <<indexFile, status, call, stats>>

\* What Append leaves in the file when it does not return: nothing, or a part.
CutLogs == {log} \cup {Append(log, torn) : torn \in TornRecords(call.doc)}

\* (A mutant of AppendFails: the indexes are updated before the append.)
AppendFailsIndexed ==
  /\ "appendError" \in Faults
  /\ phase = "append"
  /\ log' \in CutLogs \cup {Append(log, CallRecord)}
  /\ index' = AppliedIndex(woffset)
  /\ possible' = [possible EXCEPT ![call.id] = @ \cup {Outcome(call)}]
  /\ phase' = "idle"
  /\ call' = NoCall
  /\ UNCHANGED <<indexFile, status, woffset, stats>>

\* Append returns an error, and so does the call: a short write, or a failed
\* Sync of a record that is whole.  w.offset is not advanced.
AppendFails ==
  /\ "appendError" \in Faults
  /\ phase = "append"
  /\ log' \in CutLogs \cup {Append(log, CallRecord)}
  /\ possible' = [possible EXCEPT ![call.id] = @ \cup {Outcome(call)}]
  /\ phase' = "idle"
  /\ call' = NoCall
  /\ UNCHANGED <<indexFile, status, index, woffset, stats>>

------------------------------------------------------------------------------
(* index.json, the end of a call *)

\* The answer of a writing call settles what its id holds.
Settled ==
  IF call \in WriteCalls
    THEN [possible EXCEPT ![call.id] = {Outcome(call)}]
    ELSE possible

Counted ==
  CASE call.name \in {"insert", "update"} -> [stats EXCEPT !.writes = @ + 1]
    [] call.name = "delete" -> [stats EXCEPT !.deletes = @ + 1]
    [] OTHER -> ZeroStats

\* What goes with the process: the handle and all it has in memory.
Forget ==
  /\ status' = "down"
  /\ index' = EmptyIndex
  /\ woffset' = 1
  /\ stats' = ZeroStats

\* The running call returns: Open with the handle, Close without it.
Return ==
  /\ phase' = "idle"
  /\ call' = NoCall
  /\ possible' = Settled
  /\ \/ /\ call \in WriteCalls
        /\ stats' = Counted
        /\ UNCHANGED <<status, index, woffset>>
     \/ /\ call = Opening
        /\ status' = "up"
        /\ woffset' = Len(log) + 1
        /\ UNCHANGED <<index, stats>>
     \/ /\ call = Closing
        /\ Forget
  /\ UNCHANGED log

SaveTruncate ==
  /\ phase = "save"
  /\ Saveable(index)
  /\ indexFile' = Corrupt
  /\ phase' = "write"
  /\ UNCHANGED <<log, status, index, woffset, call, stats, possible>>

SaveWrite ==
  /\ phase = "write"
  /\ indexFile' = Saved(index)
  /\ Return

\* saveIndex fails: the indexes cannot be marshalled, index.json cannot be
\* opened, or its new content cannot be written.  The call succeeds all the same.
SaveFails ==
  /\ \/ phase = "save" /\ ~Saveable(index)
     \/ phase \in {"save", "write"} /\ "saveError" \in Faults
  /\ UNCHANGED indexFile
  /\ Return

------------------------------------------------------------------------------
(* Reads *)

CountRead ==
  /\ stats.reads < MaxReads
  /\ stats' = [stats EXCEPT !.reads = @ + 1]
  /\ UNCHANGED <<log, indexFile, status, index, woffset, phase, call, possible>>

\* A Get that finds no document, or cannot read it, changes nothing at all.
Get(id) == Ready /\ Served(id).answer = "document" /\ CountRead

\* ExecuteFind returns no error, whatever it could not read.
Find == Ready /\ CountRead

------------------------------------------------------------------------------
(* Open, Close and the end of the process *)

\* The entries spotCheck looks at: the first and the last of the sorted slice.
Extremes(S) ==
  {id \in S : (\A other \in S : id <= other) \/ (\A other \in S : other <= id)}

SpotCheck(ix) ==
  \A id \in Extremes(Indexed(ix)) :
    LET read == ReadDocAt(log, ix.primary[id]) IN read.ok /\ read.id = id

FastPath == indexFile.state = "saved" /\ SpotCheck(indexFile.index)

Closed == status = "down" /\ phase = "idle"

\* index.json is loaded and believed; the log is opened at its end.
OpenLoaded ==
  /\ Closed
  /\ FastPath
  /\ index' = indexFile.index
  /\ status' = "up"
  /\ woffset' = Len(log) + 1
  /\ UNCHANGED <<log, indexFile, phase, call, stats, possible>>

\* index.json is missing, corrupt or disbelieved: the log is replayed, and the
\* indexes are saved before the log is opened.
OpenRebuilt ==
  /\ Closed
  /\ ~FastPath
  /\ \E V \in Scans(log) :
       /\ ~ReplayMustFail(log, V)
       /\ index' = RebuiltIndex(log, V)
  /\ phase' = "save"
  /\ call' = Opening
  /\ UNCHANGED <<log, indexFile, status, woffset, stats, possible>>

Close ==
  /\ Ready
  /\ phase' = "save"
  /\ call' = Closing
  /\ UNCHANGED <<log, indexFile, status, index, woffset, stats, possible>>

Die ==
  /\ Forget
  /\ phase' = "idle"
  /\ call' = NoCall

\* The REPL leaves with os.Exit, between two calls and without a Close.
Exit ==
  /\ Ready
  /\ Die
  /\ UNCHANGED <<log, indexFile, possible>>

CrashInAppend ==
  /\ "crashAppend" \in Faults
  /\ phase = "append"
  /\ Die
  /\ log' \in CutLogs
  /\ possible' = [possible EXCEPT ![call.id] = @ \cup {Outcome(call)}]
  /\ UNCHANGED indexFile

CrashBeforeSave ==
  /\ "crashLogged" \in Faults
  /\ phase = "save"
  /\ Die
  /\ UNCHANGED <<log, indexFile, possible>>

\* index.json is cut short, or whole when the process dies before it answers.
CrashInSave ==
  /\ "crashSave" \in Faults
  /\ phase = "write"
  /\ Die
  /\ indexFile' \in {Corrupt, Saved(index)}
  /\ UNCHANGED <<log, possible>>

RemoveIndexFile ==
  /\ "removeIndex" \in Faults
  /\ Closed
  /\ indexFile' = Missing
  /\ UNCHANGED <<log, status, index, woffset, phase, call, stats, possible>>

------------------------------------------------------------------------------

Reads ==
  \/ \E id \in Ids : Get(id)
  \/ Find

\* What moves more than the counter of reads.
Steps ==
  \/ OpenLoaded
  \/ OpenRebuilt
  \/ \E id \in Ids, doc \in Docs : Insert(id, doc) \/ Update(id, doc)
  \/ \E id \in Ids : Delete(id)
  \/ AppendRecord
  \/ AppendFails
  \/ SaveTruncate
  \/ SaveWrite
  \/ SaveFails
  \/ Close
  \/ Exit
  \/ CrashInAppend
  \/ CrashBeforeSave
  \/ CrashInSave
  \/ RemoveIndexFile

Next == Steps \/ Reads

Spec == Init /\ [][Next]_vars

------------------------------------------------------------------------------
(* Properties *)

\* Whoever reads an id between two calls gets what the last answered write of
\* it left, or what a write of it that was never answered would have left:
\* nothing older, nothing of another document and never an error.  This is the
\* promise "todo escrito sobrevive a un reinicio" through Open, the crashes and
\* both ways of building the indexes.
AckedWritesServed ==
  Ready => \A id \in Ids : Served(id) \in possible[id]

\* The secondary and the range index hold the keys of the documents the primary
\* index points at, each under the offset it points at, and nothing else: the
\* entries Update and Delete take out, found again from the document read back
\* from the log, are those Insert put in, over restarts and stale index files.
ExactIndex(l, ix) ==
  LET Offset(id) == ix.primary[id]
      Doc(id) == l[ix.primary[id]].doc
  IN  /\ \A id \in Indexed(ix) :
           /\ Offset(id) \in Full(l)
           /\ l[Offset(id)].id = id
           /\ l[Offset(id)].type # "delete"
      /\ ix.secondary =
           UNION {Entries(SecondaryKeys(Doc(id)), Offset(id)) : id \in Indexed(ix)}
      /\ ix.range =
           UNION {Entries(RangeKeys(Doc(id)), Offset(id)) : id \in Indexed(ix)}

IndexesExact ==
  /\ ExactIndex(log, index)
  /\ indexFile.state = "saved" => ExactIndex(log, indexFile.index)

\* While a handle is open, what an id answers changes only when a record of
\* that id has been logged and synced: not by a write of another id, not by a
\* write that fails at whatever byte, not by saving the indexes or failing to.
AnswersChangeByOwnWrite ==
  [][status = "up" /\ status' = "up" =>
       \A id \in Ids :
         Served(id)' # Served(id) =>
           call.name \in WriteTypes /\ call.id = id /\ phase' = "save"]_vars

\* A document read through the index carries the id it was asked for.
OwnDocument ==
  Ready => \A id \in Ids : Served(id).answer = "document" => Served(id).id = id

\* A closed database can be opened: some way of building the indexes works.
Openable ==
  Closed => FastPath \/ \E V \in Scans(log) : ~ReplayMustFail(log, V)

------------------------------------------------------------------------------
(* Refinement *)

\* The promise: DocStore, seen through the open handle.  A write takes effect
\* when its record is logged and is answered when index.json has been dealt with.
Promise ==
  INSTANCE DocStore WITH
    up <- status = "up",
    view <- [id \in Ids |-> IF status = "up" THEN Served(id) ELSE NotFound],
    pending <- IF call \in WriteCalls /\ phase \in {"save", "write"}
                 THEN {call.id} ELSE {},
    may <- possible

\* Every run of the database is one the promise allows: a read answers with the
\* last logged write, an insert is of an id that had no document, an update is
\* laid over the document served, an answered write is served for good, and an
\* unanswered one is either kept or gone at the next Open.
KeepsPromise == Promise!Spec
=============================================================================
