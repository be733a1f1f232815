------------------------------- MODULE Migrate -------------------------------
(***************************************************************************)
(* cmd/migrate: a log of the old format (12-byte headers) is replayed, its *)
(* live documents are appended to an output in the new format (13 bytes),  *)
(* and the output is renamed over the source.  The tool may stop at any    *)
(* step and be run again; the database may be opened before and after.     *)
(*                                                                         *)
(* A log is a sequence of chunks as in LogFile.  A record says how it is   *)
(* framed and marked ("v1", or the version byte) and how its payload is    *)
(* encoded; a "skipped" one has a wrong CRC32, or a payload that does not  *)
(* decode or names no _id.  No log mixes the two sizes of header.  A       *)
(* reader that takes headers of the other size reads every payload one     *)
(* byte off: no CRC32 is right, and it finds nothing.                      *)
(***************************************************************************)
EXTENDS Naturals, Sequences, FiniteSets

CONSTANTS
  Ids,        \* document ids: numbers, in the order in which strings sort
  Vals,       \* documents
  NoVal,      \* what an id holds that has no document
  Migratable, \* the generations of logs that the tool is run on
  MaxLog,     \* records the source has at most
  MaxOutput   \* records the output has at most

ASSUME IdsAssumption == Ids \subseteq Nat /\ IsFiniteSet(Ids)
ASSUME ValuesAssumption == NoVal \notin Vals
ASSUME BoundsAssumption == MaxLog \in Nat /\ MaxOutput \in Nat
ASSUME MigratableAssumption == Migratable \subseteq {"old", "new"}

VARIABLES
  src,        \* the source log
  generation, \* the program it is for, "old" or "new"
  dst,        \* the output, empty when there is none
  step,       \* the tool is "idle" or it is to "write"
  docs,       \* the documents its replay has found
  todo,       \* the ids it has still to write
  format,     \* the -format of the run
  index,      \* index.json and the generation of the log its offsets are from
  opened,     \* the database is open
  primary     \* db.index

toolVars == <<step, docs, todo, format>>
fileVars == <<src, generation, dst>>
dbVars == <<index, opened, primary>>
vars == <<src, generation, dst, step, docs, todo, format, index, opened, primary>>

Formats == {"json", "msgpack"}
Forms == {"v1"} \cup Formats
TornParts == {"cutHeader", "noPayload", "cutPayload"}

Records ==
  [part : {"full"}, form : Forms, encoding : Formats,
   type : {"insert", "update", "delete"}, id : Ids, val : Vals \cup {NoVal}]
Chunks == Records \cup [part : TornParts \cup {"skipped"}, form : Forms]
Collections == [Ids -> Vals \cup {NoVal}]

Record(form, encoding, type, id, val) ==
  [part |-> "full", form |-> form, encoding |-> encoding,
   type |-> type, id |-> id, val |-> val]

Absent == 0
NoEntries == [id \in Ids |-> Absent]
NoDocs == [id \in Ids |-> NoVal]
NoIndex == [of |-> "none", entries |-> NoEntries]

------------------------------------------------------------------------------
(* Reading a log *)

HeaderSize(form) == IF form = "v1" THEN 12 ELSE 13

\* The serializer the version byte selects; what it does not know is JSON.
SerializerOf(form) == IF form = "msgpack" THEN "msgpack" ELSE "json"

\* No record is torn but the last, as in a log that nobody has appended to since.
Whole(log) == \A i \in DOMAIN log : i < Len(log) => log[i].part \notin TornParts

\* The records that a reader with headers of that size can go from end to end of.
Framed(log, header) ==
  {i \in DOMAIN log : log[i].part \notin TornParts /\ HeaderSize(log[i].form) = header}

\* The scans of a log the code may make, as in LogFile: what is framed is read in
\* order, and a torn record takes its missing bytes from the chunk behind it.
Aligned(V, i) == i = 1 \/ i - 1 \in V
Scans(log, header) ==
  {V \in SUBSET Framed(log, header) :
     \A i \in DOMAIN log :
       Aligned(V, i) => IF i \in Framed(log, header) THEN i \in V ELSE i + 1 \notin V}

Readable(log) ==
  {i \in DOMAIN log : log[i].part = "full" /\ log[i].encoding = SerializerOf(log[i].form)}

\* Where the last record of the scan lies that names id, unless it is a delete.
LiveOffset(log, V, id) ==
  LET M == {i \in V \cap Readable(log) : log[i].id = id}
      live == {i \in M : (\A j \in M : j <= i) /\ log[i].type # "delete"}
  IN  IF live = {} THEN Absent ELSE CHOOSE i \in live : TRUE

\* (A mutant of Replay: delete records are not looked at.)
ReplayWithoutDeletes(log, V) ==
  [id \in Ids |->
     LET M == {i \in V \cap Readable(log) : log[i].id = id /\ log[i].type # "delete"}
     IN  IF M = {} THEN NoVal ELSE log[CHOOSE i \in M : \A j \in M : j <= i].val]

\* replayV1 and ReplayWAL alike: the live documents of a scan.
Replay(log, V) ==
  [id \in Ids |-> LET i == LiveOffset(log, V, id)
                  IN  IF i = Absent THEN NoVal ELSE log[i].val]

\* The scan ends with a complete header and no byte of its payload: ReadFull
\* returns io.EOF, which neither replay takes for the end of the log.
ReplayFails(log, V, header) ==
  LET n == Len(log)
  IN  /\ n > 0 /\ Aligned(V, n)
      /\ log[n].part = "noPayload" /\ HeaderSize(log[n].form) = header

ReadDocAt(log, i) ==
  IF i \in Readable(log) THEN [ok |-> TRUE, id |-> log[i].id, val |-> log[i].val]
  ELSE [ok |-> FALSE]

------------------------------------------------------------------------------
(* The source: whatever a program of that generation may have left *)

\* The documents of a log as somebody would say who wrote it, whatever its format
\* and whoever reads it: for each id what the last record says that names it and
\* lies before any torn one.
Contents(log) ==
  [id \in Ids |->
     LET M == {i \in DOMAIN log : /\ log[i].part = "full" /\ log[i].id = id
                                 /\ \A j \in 1..i : log[j].part \notin TornParts}
     IN  IF M = {} THEN NoVal ELSE log[CHOOSE i \in M : \A j \in M : j <= i].val]

\* The writes of a log come from calls that succeeded.
Lawful(log) ==
  \A i \in DOMAIN log : log[i].part = "full" =>
    ((log[i].type = "insert") <=> (Contents(SubSeq(log, 1, i - 1))[log[i].id] = NoVal))

Written(form) ==
  {Record(form, SerializerOf(form), type, id, val) :
     type \in {"insert", "update"}, id \in Ids, val \in Vals}
  \cup {Record(form, SerializerOf(form), "delete", id, NoVal) : id \in Ids}
  \cup {[part |-> "skipped", form |-> form]}

WholeLogs(form) ==
  {log \in UNION {[1..n -> Written(form)] : n \in 0..MaxLog} : Lawful(log)}

Sources(form) ==
  WholeLogs(form)
  \cup {Append(log, chunk) : log \in WholeLogs(form),
                             chunk \in [part : TornParts, form : {form}]}

TypeOK ==
  /\ src \in Seq(Chunks)
  /\ generation \in {"old", "new"}
  /\ dst \in Seq(Chunks) /\ Len(dst) <= MaxOutput + 1
  /\ step \in {"idle", "write"}
  /\ docs \in Collections
  /\ todo \subseteq Ids
  /\ format \in Formats
  /\ index \in [of : {"none", "old", "new"}, entries : [Ids -> 0..Len(src)]]
  /\ opened \in BOOLEAN
  /\ primary \in [Ids -> 0..Len(src)]

Init ==
  /\ generation \in Migratable
  /\ src \in Sources(IF generation = "old" THEN "v1" ELSE "json")
  /\ dst = <<>>
  /\ step = "idle" /\ docs = NoDocs /\ todo = {} /\ format = "json"
  /\ index = NoIndex
  /\ opened = FALSE /\ primary = NoEntries

------------------------------------------------------------------------------
(* The tool *)

\* Replay of the source and OpenWAL of the output, which appends to what is there,
\* whatever it ends with.
Start(f) ==
  /\ step = "idle" /\ ~opened
  /\ generation \in Migratable
  /\ Len(dst) + Cardinality(Ids) <= MaxOutput
  /\ \E V \in Scans(src, 12) :
       /\ ~ReplayFails(src, V, 12)
       /\ docs' = Replay(src, V)
  /\ todo' = {id \in Ids : docs'[id] # NoVal}
  /\ step' = "write"
  /\ format' = f
  /\ UNCHANGED <<fileVars, dbVars>>

\* (A mutant of OutputRecord: the version byte is that of JSON in every output.)
OutputRecordAsJSON(id) == Record("json", format, "insert", id, docs[id])

OutputRecord(id) == Record(format, format, "insert", id, docs[id])

\* (A mutant of WriteDoc: an error of Append is logged and the loop goes on.)
WriteDocOrSkip(id) ==
  /\ step = "write" /\ id \in todo
  /\ \/ dst' = Append(dst, OutputRecord(id))
     \/ UNCHANGED dst
  /\ todo' = todo \ {id}
  /\ UNCHANGED <<src, generation, step, docs, format, dbVars>>

\* (A mutant of WriteDoc: the same document is written again and again.)
WriteDocAgain(id) ==
  /\ step = "write" /\ id \in todo
  /\ dst' = Append(dst, OutputRecord(id))
  /\ UNCHANGED <<src, generation, step, docs, todo, format, dbVars>>

\* One turn of the loop, which walks a map: the documents come in any order.
WriteDoc(id) ==
  /\ step = "write" /\ id \in todo
  /\ dst' = Append(dst, OutputRecord(id))
  /\ todo' = todo \ {id}
  /\ UNCHANGED <<src, generation, step, docs, format, dbVars>>

Leave ==
  /\ step' = "idle" /\ docs' = NoDocs /\ todo' = {} /\ format' = "json"

\* The output is complete and closed, and takes the place of the source.
Replace ==
  /\ step = "write" /\ todo = {}
  /\ src' = dst
  /\ generation' = "new"
  /\ dst' = <<>>
  /\ Leave
  /\ UNCHANGED dbVars

\* A crash, or an error of Append, Close or Rename, all of which are fatal: any
\* part of the record that is written may stay behind.
Interrupted ==
  /\ step = "write"
  /\ \/ UNCHANGED dst
     \/ /\ todo # {}
        /\ \E part \in TornParts : dst' = Append(dst, [part |-> part, form |-> format])
  /\ Leave
  /\ UNCHANGED <<src, generation, dbVars>>

RemoveOutput ==
  /\ step = "idle" /\ dst # <<>>
  /\ dst' = <<>>
  /\ UNCHANGED <<src, generation, toolVars, dbVars>>

------------------------------------------------------------------------------
(* The database, with the indexes that follow the primary one left out *)

\* The ids at both ends of index.json can be read where it says.
SpotCheck ==
  LET filed == {id \in Ids : index.entries[id] # Absent}
      Ends == {id \in filed : (\A other \in filed : id <= other)
                              \/ (\A other \in filed : id >= other)}
  IN  \A id \in Ends : LET read == ReadDocAt(src, index.entries[id])
                       IN  read.ok /\ read.id = id

\* Open believes an index.json that passes the spot check, whatever log it was
\* made from, and else replays the log.
Open ==
  /\ step = "idle" /\ ~opened
  /\ \/ /\ index.of # "none" /\ SpotCheck
        /\ primary' = index.entries
        /\ UNCHANGED index
     \/ /\ index.of = "none" \/ ~SpotCheck
        /\ \E V \in Scans(src, 13) :
             /\ ~ReplayFails(src, V, 13)
             /\ primary' = [id \in Ids |-> LiveOffset(src, V, id)]
        /\ index' = [of |-> generation, entries |-> primary']
  /\ opened' = TRUE
  /\ UNCHANGED <<fileVars, toolVars>>

Close ==
  /\ opened
  /\ opened' = FALSE /\ primary' = NoEntries
  /\ index' = [index EXCEPT !.entries = primary]
  /\ UNCHANGED <<fileVars, toolVars>>

RemoveIndex ==
  /\ ~opened /\ index.of # "none"
  /\ index' = NoIndex
  /\ UNCHANGED <<fileVars, toolVars, opened, primary>>

Next ==
  \/ \E f \in Formats : Start(f)
  \/ \E id \in Ids : WriteDoc(id)
  \/ Replace \/ Interrupted \/ RemoveOutput
  \/ Open \/ Close \/ RemoveIndex

Spec == Init /\ [][Next]_vars

------------------------------------------------------------------------------
(* Properties *)

Documents == Contents(src)

\* What is about to take the place of the source gives a replay no document that
\* the source does not hold, however many runs have written to it and wherever
\* they stopped; and all of them, unless a run has written behind a torn record.
\* This is the check of integrity (same number of documents, same content) that
\* the documents of the repository describe and the tool does not make.
OutputComplete ==
  step = "write" /\ todo = {} =>
    \A V \in Scans(dst, 13), id \in Ids :
      \/ Replay(dst, V)[id] = Documents[id]
      \/ ~Whole(dst) /\ Replay(dst, V)[id] = NoVal

\* Wherever the tool stops, and however often it is run again into what an
\* earlier run has left, the source is wholly the old log or wholly the new one.
\* No document changes, and none is lost but by an output with a torn record
\* before its end.
Promise == INSTANCE Migration WITH docs <- Documents, whole <- Whole(dst)

KeepsDocuments == Promise!Spec

\* An open database answers val for id, or that it has no document of it.
Answers(id, val) ==
  IF primary[id] = Absent THEN val = NoVal
  ELSE LET read == ReadDocAt(src, primary[id])
       IN  read.ok /\ read.id = id /\ read.val = val

\* A database on a migrated log answers for each id with the document of the log,
\* by whichever way of starting, in whatever mixture of formats the output was
\* written; behind a torn record it may or may not find one more.  On an
\* index.json from before the migration it answers for no id at all.
Served ==
  opened /\ generation = "new" =>
    \A id \in Ids :
      IF index.of = "new"
        THEN \/ Answers(id, Documents[id])
             \/ /\ ~Whole(src) /\ Documents[id] = NoVal
                /\ \E val \in Vals : Answers(id, val)
        ELSE Answers(id, NoVal)

\* After a migration the documents are intact, document by document: a database
\* opened on the log that has replaced the old one serves them.
MigrationIntact ==
  opened /\ generation = "new" /\ Whole(src) =>
    \A id \in Ids : Answers(id, Documents[id])
==============================================================================
