------------------------------- MODULE LogFile -------------------------------
(***************************************************************************)
(* data.log, the write-ahead log, and the two ways of reading it: one      *)
(* record at a known offset (ReadDocAt) and the scan from the first byte   *)
(* that recovery does (ReplayWAL).                                         *)
(*                                                                         *)
(* The file is a sequence of chunks, one per Append that wrote anything.   *)
(* A chunk is a whole record, or what is left of one whose write stopped   *)
(* half way: part of the header ("cutHeader"), the header alone            *)
(* ("noPayload"), the header and part of the payload ("cutPayload").  A    *)
(* byte offset is the number of the chunk that starts there; Misaligned    *)
(* stands for the offsets inside a chunk and Absent for no offset at all.  *)
(*                                                                         *)
(* Bytes that are not a record's are taken never to have a right CRC32.    *)
(***************************************************************************)
EXTENDS Documents, Sequences

Absent == 0
Misaligned == -1

WriteTypes == {"insert", "update", "delete"}
TornParts == {"cutHeader", "noPayload", "cutPayload"}

Records == [part : {"full"}, type : WriteTypes, id : Ids, doc : Docs]
Chunks == Records \cup [part : TornParts]

Record(type, id, doc) == [part |-> "full", type |-> type, id |-> id, doc |-> doc]

\* What the file may end with when the write of a record stops early.  The
\* payload of a document that cannot be encoded is empty, so that only its
\* header can be cut.
TornRecords(doc) ==
  [part : IF Encodable(doc) THEN TornParts ELSE {"cutHeader"}]

Full(log) == {i \in DOMAIN log : log[i].part = "full"}
Readable(log) == {i \in Full(log) : Encodable(log[i].doc)}

ReadError == [ok |-> FALSE]

\* One record, read where the index says it starts.  Its type is not looked at.
ReadDocAt(log, offset) ==
  IF offset \in Readable(log)
    THEN [ok |-> TRUE, id |-> log[offset].id, doc |-> ReloadDoc(log[offset].doc)]
    ELSE ReadError

\* The scan V of a log: the whole records that are framed as such.  The reader
\* is aligned on chunk i when it looks for a header at its first byte.
Aligned(V, i) == i = 1 \/ i - 1 \in V

\* The scans of a log the code may make.  A record the reader is aligned on is
\* framed.  A torn chunk it is aligned on takes its missing bytes from the
\* chunk behind it, which is lost; from then on the reader is wherever the
\* bytes take it, to the end or back on the start of some later chunk.
Scans(log) ==
  {V \in SUBSET Full(log) :
     \A i \in DOMAIN log :
       Aligned(V, i) => IF i \in Full(log) THEN i \in V ELSE i + 1 \notin V}

\* The last header of the scan is complete and not one byte of payload follows:
\* ReadFull returns io.EOF, not ErrUnexpectedEOF, and the replay fails.
ReplayMustFail(log, V) ==
  LET n == Len(log)
  IN  n > 0 /\ n \notin V /\ Aligned(V, n) /\ log[n].part = "noPayload"

\* The last record of the scan that names id wins.
Mentions(log, V, id) == {i \in V \cap Readable(log) : log[i].id = id}
\* (IsFirst is a mutant of IsLast: an older record is never superseded.)
IsFirst(S, i) == i \in S /\ \A j \in S : i <= j
IsLast(S, i) == i \in S /\ \A j \in S : j <= i

\* (A mutant of LiveOffset: the replay files delete records like updates.)
LiveOffsetWithDeletes(log, V, id) ==
  LET M == Mentions(log, V, id)
      live == {i \in M : IsLast(M, i)}
  IN  IF live = {} THEN Absent ELSE CHOOSE i \in live : TRUE

LiveOffset(log, V, id) ==
  LET M == Mentions(log, V, id)
      live == {i \in M : IsLast(M, i) /\ log[i].type # "delete"}
  IN  IF live = {} THEN Absent ELSE CHOOSE i \in live : TRUE
=============================================================================
