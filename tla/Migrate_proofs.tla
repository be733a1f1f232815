---------------------------- MODULE Migrate_proofs ----------------------------
(***************************************************************************)
(* Run on logs of the old format only, the tool changes no document, for   *)
(* any number of ids, any source and any output: a later run ends with an  *)
(* output that holds them all, unless it has written behind a torn record. *)
(* The database that opens the log serves them, unless its index.json is   *)
(* from before the migration.                                              *)
(***************************************************************************)
EXTENDS Migrate, FiniteSetTheorems, WellFoundedInduction, TLAPS

\* The tool is run on logs of the old format, as its usage says.
OnOldLogs == Migratable = {"old"}

\* A log that one generation of the program can have left: all headers have one
\* size, and each record is encoded as it says.
LogOK(log, header) ==
  \A i \in DOMAIN log :
    /\ HeaderSize(log[i].form) = header
    /\ log[i].part = "full" =>
         /\ log[i].encoding = SerializerOf(log[i].form)
         /\ log[i].type = "delete" <=> log[i].val = NoVal

\* The records from which Contents takes the document of id.
Named(log, id) ==
  {i \in DOMAIN log : /\ log[i].part = "full" /\ log[i].id = id
                      /\ \A j \in 1..i : log[j].part \notin TornParts}

\* No two records of a log have different documents of one id, and none deletes.
Agree(log) ==
  /\ \A i, j \in DOMAIN log :
       log[i].part = "full" /\ log[j].part = "full" /\ log[i].id = log[j].id =>
         log[i].val = log[j].val
  /\ \A i \in DOMAIN log : log[i].part = "full" => log[i].val # NoVal

Mentions(log, id) == {i \in DOMAIN log : log[i].part = "full" /\ log[i].id = id}

LiveOffsets(log, V) == [id \in Ids |-> LiveOffset(log, V, id)]

SourceInv ==
  /\ generation = "old" => LogOK(src, 12) /\ Whole(src)
  /\ generation = "new" => LogOK(src, 13) /\ Agree(src) /\ step = "idle" /\ dst = <<>>

\* Every record of the output inserts a document that the source holds.
OutputInv ==
  /\ LogOK(dst, 13)
  /\ \A i \in DOMAIN dst : dst[i].part = "full" =>
       dst[i].val = Documents[dst[i].id] /\ dst[i].val # NoVal

\* While the tool writes, each document is still to be written or in the output.
WriteInv ==
  step = "write" =>
    /\ generation = "old" /\ ~opened
    /\ docs = Documents
    /\ \A id \in todo : docs[id] # NoVal
    /\ \A id \in Ids \ todo : docs[id] # NoVal => Mentions(dst, id) # {}
    /\ Len(dst) + Cardinality(todo) <= MaxOutput

\* An open database has the offsets of index.json; those made from the migrated log
\* are what a replay of it finds, and those made from the old one are none.
IndexInv ==
  /\ opened => primary = index.entries
  /\ ~opened => primary = NoEntries
  /\ index.of = "new" =>
       generation = "new" /\ \E V \in Scans(src, 13) : index.entries = LiveOffsets(src, V)
  /\ index.of # "new" => index.entries = NoEntries

Inv == TypeOK /\ SourceInv /\ OutputInv /\ WriteInv /\ IndexInv

------------------------------------------------------------------------------
(* Reading *)

\* A set of positions that is not empty has a greatest one.
LEMMA Greatest ==
  ASSUME NEW n \in Nat, NEW T \in SUBSET (1..n), T # {}
  PROVE  \E x \in T : \A y \in T : y <= x
<1> DEFINE R == {ss \in Nat \X Nat : ss[1] < ss[2]}
           S == {d \in Nat : \E y \in T : d = n - y}
<1>1. IsWellFoundedOn(R, Nat)
  BY NatLessThanWellFounded DEF OpToRel
<1>2. S \subseteq Nat /\ S # {}
  <2>1. PICK y \in T : TRUE
    OBVIOUS
  <2>2. n - y \in S
    BY <2>1
  <2> QED
    BY <2>2
<1> HIDE DEF R
<1>3. PICK d \in S : \A e \in S : <<e, d>> \notin R
  BY <1>1, <1>2, WFMin
<1>4. PICK x \in T : d = n - x
  OBVIOUS
<1>5. ASSUME NEW y \in T
      PROVE  y <= x
  <2>1. n - y \in S /\ n - y \in Nat /\ d \in Nat
    OBVIOUS
  <2>2. ~(n - y < d)
    BY <2>1, <1>3 DEF R
  <2> QED
    BY <2>1, <2>2, <1>4
<1> QED
  BY <1>5

\* And a set of numbers a least one.
LEMMA Least ==
  ASSUME NEW T \in SUBSET Nat, T # {}
  PROVE  \E x \in T : \A y \in T : x <= y
<1> DEFINE R == {ss \in Nat \X Nat : ss[1] < ss[2]}
<1>1. IsWellFoundedOn(R, Nat)
  BY NatLessThanWellFounded DEF OpToRel
<1> HIDE DEF R
<1>2. PICK x \in T : \A y \in T : <<y, x>> \notin R
  BY <1>1, WFMin
<1>3. ASSUME NEW y \in T
      PROVE  x <= y
  <2>1. x \in Nat /\ y \in Nat /\ ~(y < x)
    BY <1>2 DEF R
  <2> QED
    BY <2>1
<1> QED
  BY <1>3

LEMMA ChunkFields ==
  ASSUME NEW c \in Chunks, c.part = "full"
  PROVE  /\ c \in Records
         /\ c.id \in Ids /\ c.val \in Vals \cup {NoVal}
BY DEF Chunks, Records, TornParts

\* A reader with the right size of header finds every record before a torn one.
LEMMA NamedAreRead ==
  ASSUME NEW log \in Seq(Chunks), NEW header, LogOK(log, header),
         NEW V \in Scans(log, header), NEW id, NEW i \in Named(log, id)
  PROVE  i \in V \cap Readable(log)
<1>1. /\ i \in DOMAIN log /\ i \in 1..Len(log) /\ Len(log) \in Nat /\ log[i].part = "full"
      /\ \A j \in 1..i : j \in DOMAIN log /\ log[j].part \notin TornParts
  BY DEF Named
<1>2. \A j \in 1..i : j \in Framed(log, header)
  BY <1>1 DEF Framed, LogOK
<1>3. i \in V
  <2> SUFFICES ASSUME i \notin V PROVE FALSE
    OBVIOUS
  <2> DEFINE T == {j \in 1..i : j \notin V}
  <2>1. T \in SUBSET Nat /\ T # {}
    BY <1>1
  <2> HIDE DEF T
  <2>2. PICK x \in T : \A y \in T : x <= y
    BY <2>1, Least
  <2>3. x \in 1..i /\ x \notin V
    BY <2>2 DEF T
  <2>4. Aligned(V, x)
    <3>1. CASE x = 1
      BY <3>1 DEF Aligned
    <3>2. CASE x # 1
      <4>1. x - 1 \in 1..i /\ ~(x <= x - 1)
        BY <3>2, <2>3, <1>1
      <4>2. x - 1 \notin T
        BY <4>1, <2>2
      <4> QED
        BY <4>1, <4>2 DEF T, Aligned
    <3> QED
      BY <3>1, <3>2
  <2> QED
    BY <1>1, <1>2, <2>3, <2>4 DEF Scans
<1> QED
  BY <1>1, <1>3 DEF Readable, LogOK

\* Before the end of a log without a torn record nothing is in the way.
LEMMA NamedAreMentions ==
  ASSUME NEW log \in Seq(Chunks), Whole(log), NEW id
  PROVE  Named(log, id) = Mentions(log, id)
<1>1. ASSUME NEW i \in Mentions(log, id), NEW j \in 1..i
      PROVE  log[j].part \notin TornParts
  <2>1. i \in 1..Len(log) /\ Len(log) \in Nat /\ log[i].part = "full"
    BY DEF Mentions
  <2>2. CASE j = i
    BY <2>1, <2>2 DEF TornParts
  <2>3. CASE j # i
    <3>1. j \in DOMAIN log /\ j < Len(log)
      BY <2>1, <2>3
    <3> QED
      BY <3>1 DEF Whole
  <2> QED
    BY <2>2, <2>3
<1> QED
  BY <1>1 DEF Named, Mentions

\* So it finds every record of a log without a torn one before its end.
LEMMA ReadsAll ==
  ASSUME NEW log \in Seq(Chunks), NEW header, LogOK(log, header), Whole(log),
         NEW V \in Scans(log, header), NEW id
  PROVE  {i \in V \cap Readable(log) : log[i].id = id} = Named(log, id)
<1>1. ASSUME NEW i \in V \cap Readable(log), log[i].id = id
      PROVE  i \in Named(log, id)
  BY <1>1, NamedAreMentions DEF Readable, Mentions
<1> QED
  BY <1>1, NamedAreRead DEF Named

\* And one with the wrong size finds nothing.
LEMMA ReadsNothing ==
  ASSUME NEW log \in Seq(Chunks), LogOK(log, 12), NEW V \in Scans(log, 13)
  PROVE  V = {}
BY DEF Scans, Framed, LogOK

\* What Contents says of an id is what one of the records says that name it.
LEMMA ContentsFrom ==
  ASSUME NEW log \in Seq(Chunks), NEW id \in Ids
  PROVE  \/ Named(log, id) = {} /\ Contents(log)[id] = NoVal
         \/ \E k \in Named(log, id) : /\ \A j \in Named(log, id) : j <= k
                                      /\ Contents(log)[id] = log[k].val
<1> DEFINE M == Named(log, id)
           k == CHOOSE i \in M : \A j \in M : j <= i
<1>1. Contents(log)[id] = IF M = {} THEN NoVal ELSE log[k].val
  BY DEF Contents, Named
<1>2. M \in SUBSET (1..Len(log)) /\ Len(log) \in Nat
  BY DEF Named
<1> HIDE DEF M
<1>3. CASE M # {}
  <2>1. \E x \in M : \A y \in M : y <= x
    BY <1>2, <1>3, Greatest
  <2>2. k \in M /\ \A j \in M : j <= k
    BY <2>1
  <2> QED
    BY <1>1, <1>3, <2>2 DEF M
<1> QED
  BY <1>1, <1>3 DEF M

\* Where a replay files an id, a record of the scan names it.
LEMMA LiveOffsetType ==
  ASSUME NEW log \in Seq(Chunks), NEW V, NEW id \in Ids
  PROVE  LET i == LiveOffset(log, V, id)
         IN  /\ i \in 0..Len(log)
             /\ i # Absent => i \in V \cap Readable(log) /\ log[i].id = id
<1> DEFINE M == {i \in V \cap Readable(log) : log[i].id = id}
           live == {i \in M : (\A j \in M : j <= i) /\ log[i].type # "delete"}
<1>1. LiveOffset(log, V, id) = IF live = {} THEN Absent ELSE CHOOSE i \in live : TRUE
  BY DEF LiveOffset
<1>2. live \subseteq M /\ M \subseteq 1..Len(log) /\ Len(log) \in Nat
  BY DEF Readable
<1>3. CASE live = {}
  BY <1>1, <1>2, <1>3 DEF Absent
<1>4. CASE live # {}
  <2>1. LiveOffset(log, V, id) \in live
    BY <1>1, <1>4
  <2> QED
    BY <2>1, <1>2
<1> QED
  BY <1>3, <1>4

\* What a replay files under an id is the last record that names it.
LEMMA LiveOffsetFacts ==
  ASSUME NEW log \in Seq(Chunks), NEW header, LogOK(log, header), Whole(log),
         NEW V \in Scans(log, header), NEW id \in Ids
  PROVE  LET i == LiveOffset(log, V, id)
         IN  /\ i = Absent => Contents(log)[id] = NoVal
             /\ i # Absent => log[i].val = Contents(log)[id]
<1> DEFINE M == {i \in V \cap Readable(log) : log[i].id = id}
           live == {i \in M : (\A j \in M : j <= i) /\ log[i].type # "delete"}
<1>1. M = Named(log, id)
  BY ReadsAll
<1>2. LiveOffset(log, V, id) = IF live = {} THEN Absent ELSE CHOOSE i \in live : TRUE
  BY DEF LiveOffset
<1>3. M \subseteq 1..Len(log) /\ Len(log) \in Nat
  BY DEF Readable
<1> HIDE DEF M
<1>4. CASE M = {} /\ Contents(log)[id] = NoVal
  BY <1>2, <1>4 DEF Absent
<1>5. ASSUME NEW k \in M, \A j \in M : j <= k, Contents(log)[id] = log[k].val
      PROVE  LET i == LiveOffset(log, V, id)
             IN  /\ i = Absent => Contents(log)[id] = NoVal
                 /\ i # Absent => log[i].val = Contents(log)[id]
  <2>1. \A i \in M : (\A j \in M : j <= i) => i = k
    BY <1>3, <1>5
  <2>2. log[k].type = "delete" <=> log[k].val = NoVal
    BY <1>1 DEF LogOK, Named
  <2>3. k # Absent
    BY <1>3 DEF Absent
  <2>4. CASE log[k].type = "delete"
    <3>1. live = {}
      BY <2>1, <2>4
    <3> QED
      BY <3>1, <1>2, <1>5, <2>2, <2>4 DEF Absent
  <2>5. CASE log[k].type # "delete"
    <3>1. live = {k}
      BY <1>5, <2>1, <2>5
    <3>2. LiveOffset(log, V, id) = k
      BY <3>1, <1>2
    <3> QED
      BY <3>2, <2>3, <1>5
  <2> QED
    BY <2>4, <2>5
<1> QED
  BY <1>1, <1>4, <1>5, ContentsFrom

\* What a replay finds are the documents of the log.
LEMMA ReplayIsContents ==
  ASSUME NEW log \in Seq(Chunks), NEW header, LogOK(log, header), Whole(log),
         NEW V \in Scans(log, header)
  PROVE  Replay(log, V) = Contents(log)
<1>1. ASSUME NEW id \in Ids
      PROVE  Replay(log, V)[id] = Contents(log)[id]
  BY LiveOffsetFacts DEF Replay
<1> QED
  BY <1>1 DEF Replay, Contents

LEMMA ContentsType ==
  ASSUME NEW log \in Seq(Chunks)
  PROVE  Contents(log) \in Collections
<1>1. ASSUME NEW id \in Ids
      PROVE  Contents(log)[id] \in Vals \cup {NoVal}
  <2>1. ASSUME NEW k \in Named(log, id)
        PROVE  log[k].val \in Vals \cup {NoVal}
    <3>1. log[k] \in Chunks /\ log[k].part = "full"
      BY DEF Named
    <3> QED
      BY <3>1, ChunkFields
  <2> QED
    BY <2>1, ContentsFrom
<1> QED
  BY <1>1 DEF Contents, Collections

\* A log of the old format is empty for the present program.
LEMMA OldLogEmpty ==
  ASSUME NEW log \in Seq(Chunks), LogOK(log, 12), NEW V \in Scans(log, 13)
  PROVE  LiveOffsets(log, V) = NoEntries
<1>1. ASSUME NEW id \in Ids
      PROVE  LiveOffset(log, V, id) = Absent
  BY ReadsNothing DEF LiveOffset
<1> QED
  BY <1>1 DEF LiveOffsets, NoEntries

LEMMA LiveOffsetsType ==
  ASSUME NEW log \in Seq(Chunks), NEW V
  PROVE  LiveOffsets(log, V) \in [Ids -> 0..Len(log)]
BY LiveOffsetType DEF LiveOffsets

------------------------------------------------------------------------------
(* The initial states *)

LEMMA SourceTypes ==
  ASSUME NEW log \in Sources("v1")
  PROVE  log \in Seq(Chunks) /\ LogOK(log, 12) /\ Whole(log)
<1> DEFINE WrittenOK(w) ==
             /\ w \in Seq(Chunks)
             /\ \A i \in DOMAIN w :
                  /\ w[i].part \notin TornParts /\ w[i].form = "v1"
                  /\ w[i].part = "full" =>
                       /\ w[i].encoding = "json"
                       /\ w[i].type = "delete" <=> w[i].val = NoVal
<1>1. ASSUME NEW r \in Written("v1")
      PROVE  /\ r \in Chunks
             /\ r.part \notin TornParts /\ r.form = "v1"
             /\ r.part = "full" =>
                  r.encoding = "json" /\ (r.type = "delete" <=> r.val = NoVal)
  BY ValuesAssumption
  DEF Written, Record, SerializerOf, Chunks, Records, Forms, Formats, TornParts
<1>2. ASSUME NEW n \in 0..MaxLog, NEW w \in [1..n -> Written("v1")]
      PROVE  WrittenOK(w)
  <2>1. n \in Nat /\ DOMAIN w = 1..n
    BY BoundsAssumption
  <2>2. \A i \in 1..n : w[i] \in Written("v1")
    OBVIOUS
  <2>3. w \in [1..n -> Chunks]
    BY <2>2, <1>1
  <2> QED
    BY <2>1, <2>2, <2>3, <1>1
<1> HIDE DEF WrittenOK
<1>3. PICK w : /\ WrittenOK(w)
               /\ log = w \/ \E c \in [part : TornParts, form : {"v1"}] : log = Append(w, c)
  <2>1. \A w \in WholeLogs("v1") : WrittenOK(w)
    BY <1>2 DEF WholeLogs
  <2> QED
    BY <2>1 DEF Sources
<1>4. CASE log = w
  BY <1>3, <1>4 DEF WrittenOK, LogOK, HeaderSize, SerializerOf, Whole
<1>5. ASSUME NEW c \in [part : TornParts, form : {"v1"}], log = Append(w, c)
      PROVE  log \in Seq(Chunks) /\ LogOK(log, 12) /\ Whole(log)
  <2>1. c \in Chunks /\ c.form = "v1" /\ c.part # "full"
    BY DEF Chunks, Forms, TornParts
  <2>2. w \in Seq(Chunks)
    BY <1>3 DEF WrittenOK
  <2>3. /\ log \in Seq(Chunks) /\ Len(log) = Len(w) + 1 /\ DOMAIN log = 1..(Len(w) + 1)
        /\ log[Len(w) + 1] = c /\ \A i \in 1..Len(w) : log[i] = w[i]
    BY <1>5, <2>1, <2>2
  <2>4. ASSUME NEW i \in DOMAIN log
        PROVE  /\ HeaderSize(log[i].form) = 12
               /\ i < Len(log) => log[i].part \notin TornParts
               /\ log[i].part = "full" =>
                    /\ log[i].encoding = SerializerOf(log[i].form)
                    /\ log[i].type = "delete" <=> log[i].val = NoVal
    <3>1. CASE i = Len(w) + 1
      BY <3>1, <2>1, <2>3 DEF HeaderSize
    <3>2. CASE i # Len(w) + 1
      <4>1. i \in DOMAIN w /\ log[i] = w[i]
        BY <3>2, <2>2, <2>3
      <4> QED
        BY <4>1, <1>3 DEF WrittenOK, HeaderSize, SerializerOf
    <3> QED
      BY <3>1, <3>2
  <2> QED
    BY <2>3, <2>4 DEF LogOK, Whole
<1> QED
  BY <1>3, <1>4, <1>5

LEMMA InitInv ==
  ASSUME OnOldLogs, Init
  PROVE  Inv
<1>1. generation = "old" /\ src \in Seq(Chunks) /\ LogOK(src, 12) /\ Whole(src)
  BY SourceTypes DEF Init, OnOldLogs
<1>2. dst = <<>> /\ step = "idle" /\ docs = NoDocs /\ todo = {} /\ format = "json"
  BY DEF Init
<1>3. index = NoIndex /\ opened = FALSE /\ primary = NoEntries
  BY DEF Init
<1>4. TypeOK
  <2>1. NoDocs \in Collections
    BY DEF NoDocs, Collections
  <2>2. Len(src) \in Nat /\ NoEntries \in [Ids -> 0..Len(src)]
    BY <1>1 DEF NoEntries, Absent
  <2>3. index \in [of : {"none", "old", "new"}, entries : [Ids -> 0..Len(src)]]
    BY <1>3, <2>2 DEF NoIndex
  <2>4. dst \in Seq(Chunks) /\ Len(dst) <= MaxOutput + 1
    BY <1>2, BoundsAssumption
  <2> QED
    BY <1>1, <1>2, <1>3, <2>1, <2>2, <2>3, <2>4 DEF TypeOK, Formats
<1>5. SourceInv
  BY <1>1 DEF SourceInv
<1>6. OutputInv
  BY <1>2 DEF OutputInv, LogOK
<1>7. WriteInv
  BY <1>2 DEF WriteInv
<1>8. IndexInv
  BY <1>1, <1>3 DEF IndexInv, NoIndex
<1> QED
  BY <1>4, <1>5, <1>6, <1>7, <1>8 DEF Inv

------------------------------------------------------------------------------
(* The output *)

\* Documents and what the log answers depend on the source only.
LEMMA SourceSame ==
  ASSUME src' = src
  PROVE  /\ Documents' = Documents /\ Scans(src, 13)' = Scans(src, 13)
         /\ \A V : LiveOffsets(src, V)' = LiveOffsets(src, V)
BY DEF Documents, Contents, LiveOffsets, LiveOffset, Readable, Scans, Framed

\* A chunk behind an output leaves it in order.
LEMMA OutputGrows ==
  ASSUME TypeOK, OutputInv, NEW c \in Chunks,
         HeaderSize(c.form) = 13,
         c.part = "full" =>
           /\ c.encoding = SerializerOf(c.form) /\ c.type = "insert"
           /\ c.val = Documents[c.id] /\ c.val # NoVal,
         dst' = Append(dst, c), src' = src
  PROVE  /\ OutputInv'
         /\ dst' \in Seq(Chunks) /\ Len(dst') = Len(dst) + 1
         /\ \A id : Mentions(dst, id) \subseteq Mentions(dst', id)
         /\ c.part = "full" => Mentions(dst', c.id) # {}
<1>1. /\ dst \in Seq(Chunks) /\ dst' \in Seq(Chunks)
      /\ Len(dst') = Len(dst) + 1 /\ DOMAIN dst' = 1..(Len(dst) + 1)
      /\ DOMAIN dst = 1..Len(dst) /\ Len(dst) \in Nat
      /\ dst'[Len(dst) + 1] = c /\ \A i \in DOMAIN dst : dst'[i] = dst[i]
  BY DEF TypeOK
<1>2. Documents' = Documents
  BY SourceSame
<1>3. \A i \in DOMAIN dst' : i \in DOMAIN dst \/ i = Len(dst) + 1
  BY <1>1
<1>4. LogOK(dst', 13)
  BY <1>1, <1>3 DEF OutputInv, LogOK
<1>5. \A i \in DOMAIN dst' : dst'[i].part = "full" =>
        dst'[i].val = Documents[dst'[i].id] /\ dst'[i].val # NoVal
  BY <1>1, <1>3 DEF OutputInv
<1>6. OutputInv'
  BY <1>2, <1>4, <1>5 DEF OutputInv
<1>7. \A id : Mentions(dst, id) \subseteq Mentions(dst', id)
  BY <1>1 DEF Mentions
<1>8. ASSUME c.part = "full"
      PROVE  Mentions(dst', c.id) # {}
  <2>1. Len(dst) + 1 \in Mentions(dst', c.id)
    BY <1>1, <1>8 DEF Mentions
  <2> QED
    BY <2>1
<1> QED
  BY <1>1, <1>6, <1>7, <1>8

\* A replay of the output finds no document but those of the source; it finds them
\* all, as Contents does, when no torn record is in the way.
LEMMA OutputIsComplete ==
  ASSUME Inv, step = "write", todo = {}, NEW id \in Ids
  PROVE  /\ Contents(dst)[id] \in {Documents[id], NoVal}
         /\ \A V \in Scans(dst, 13) : Replay(dst, V)[id] \in {Documents[id], NoVal}
         /\ Whole(dst) => /\ Contents(dst)[id] = Documents[id]
                          /\ \A V \in Scans(dst, 13) : Replay(dst, V)[id] = Documents[id]
<1>1. dst \in Seq(Chunks) /\ LogOK(dst, 13)
  BY DEF Inv, TypeOK, OutputInv
<1>2. \A i \in DOMAIN dst : dst[i].part = "full" /\ dst[i].id = id => dst[i].val = Documents[id]
  BY DEF Inv, OutputInv
<1>3. ASSUME NEW V \in Scans(dst, 13)
      PROVE  Replay(dst, V)[id] \in {Documents[id], NoVal}
  <2> DEFINE i == LiveOffset(dst, V, id)
  <2>1. i = Absent \/ (i \in Readable(dst) /\ dst[i].id = id)
    BY <1>1, LiveOffsetType
  <2>2. Replay(dst, V)[id] = IF i = Absent THEN NoVal ELSE dst[i].val
    BY DEF Replay
  <2> HIDE DEF i
  <2> QED
    BY <2>1, <2>2, <1>2 DEF Readable
<1>4. Contents(dst)[id] \in {Documents[id], NoVal}
  BY <1>1, <1>2, ContentsFrom DEF Named
<1>5. ASSUME Whole(dst)
      PROVE  Contents(dst)[id] = Documents[id]
  <2>1. CASE Named(dst, id) = {} /\ Contents(dst)[id] = NoVal
    <3>1. Mentions(dst, id) = {}
      BY <2>1, <1>1, <1>5, NamedAreMentions
    <3> QED
      BY <2>1, <3>1 DEF Inv, WriteInv
  <2>2. ASSUME NEW k \in Named(dst, id), Contents(dst)[id] = dst[k].val
        PROVE  Contents(dst)[id] = Documents[id]
    BY <2>2, <1>2 DEF Named
  <2> QED
    BY <1>1, <2>1, <2>2, ContentsFrom
<1> QED
  BY <1>1, <1>3, <1>4, <1>5, ReplayIsContents

------------------------------------------------------------------------------
(* The steps of the tool *)

\* While neither the log nor the database changes, what they owe each other stays.
LEMMA IndexSame ==
  ASSUME Inv, UNCHANGED <<src, generation, dbVars>>
  PROVE  IndexInv'
BY SourceSame DEF Inv, IndexInv, dbVars

LEMMA StartInv ==
  ASSUME OnOldLogs, Inv, NEW f \in Formats, Start(f)
  PROVE  Inv'
<1>1. generation = "old" /\ UNCHANGED <<src, generation, dst, index, opened, primary>>
  BY DEF Start, OnOldLogs, fileVars, dbVars
<1>2. src \in Seq(Chunks) /\ LogOK(src, 12) /\ Whole(src)
  BY <1>1 DEF Inv, TypeOK, SourceInv
<1>3. (\A V \in Scans(src, 12) : Replay(src, V) = Documents) /\ Documents \in Collections
  BY <1>2, ReplayIsContents, ContentsType DEF Documents
<1>4. docs' = Documents /\ todo' = {id \in Ids : Documents[id] # NoVal}
  BY <1>3 DEF Start
<1>5. Documents' = Documents
  BY <1>1, SourceSame
<1>6. TypeOK'
  BY <1>1, <1>3, <1>4 DEF Inv, TypeOK, Start
<1>7. SourceInv' /\ OutputInv'
  BY <1>1, <1>5 DEF Inv, SourceInv, OutputInv
<1>8. WriteInv'
  <2>1. Len(dst) + Cardinality(Ids) <= MaxOutput /\ ~opened
    BY DEF Start
  <2>2. /\ IsFiniteSet(todo') /\ Cardinality(todo') \in Nat
        /\ Cardinality(todo') <= Cardinality(Ids) /\ Cardinality(Ids) \in Nat
    <3>1. todo' \subseteq Ids
      BY <1>4
    <3> QED
      BY <3>1, IdsAssumption, FS_Subset, FS_CardinalityType
  <2>3. Len(dst) \in Nat
    BY DEF Inv, TypeOK
  <2>4. Len(dst) + Cardinality(todo') <= MaxOutput
    BY <2>1, <2>2, <2>3, BoundsAssumption
  <2>5. (\A id \in todo : docs[id] # NoVal)'
    BY <1>4
  <2>6. (\A id \in Ids \ todo : docs[id] # NoVal => Mentions(dst, id) # {})'
    BY <1>4
  <2> QED
    BY <1>1, <1>4, <1>5, <2>1, <2>4, <2>5, <2>6 DEF WriteInv, Start
<1>9. IndexInv'
  BY <1>1, IndexSame DEF dbVars
<1> QED
  BY <1>6, <1>7, <1>8, <1>9 DEF Inv

LEMMA WriteDocInv ==
  ASSUME Inv, NEW id \in Ids, WriteDoc(id)
  PROVE  Inv'
<1> DEFINE r == OutputRecord(id)
<1>1. /\ step = "write" /\ id \in todo /\ dst' = Append(dst, r) /\ todo' = todo \ {id}
      /\ UNCHANGED <<src, generation, step, docs, format, index, opened, primary>>
  BY DEF WriteDoc, dbVars
<1>2. /\ generation = "old" /\ ~opened /\ docs = Documents
      /\ \A e \in todo : docs[e] # NoVal
      /\ \A e \in Ids \ todo : docs[e] # NoVal => Mentions(dst, e) # {}
      /\ Len(dst) + Cardinality(todo) <= MaxOutput
  BY <1>1 DEF Inv, WriteInv
<1>3. /\ r \in Chunks /\ r.part = "full" /\ r.id = id /\ HeaderSize(r.form) = 13
      /\ r.encoding = SerializerOf(r.form) /\ r.type = "insert"
      /\ r.val = Documents[r.id] /\ r.val # NoVal
  <2>1. format \in Formats /\ docs[id] \in Vals \cup {NoVal} /\ docs[id] # NoVal
    BY <1>1, <1>2 DEF Inv, TypeOK, Collections
  <2>2. r = [part |-> "full", form |-> format, encoding |-> format,
             type |-> "insert", id |-> id, val |-> docs[id]]
    BY DEF OutputRecord, Record
  <2>3. r \in Records
    BY <2>1, <2>2 DEF Records, Forms
  <2> QED
    BY <2>1, <2>2, <2>3, <1>2 DEF Chunks, HeaderSize, SerializerOf, Formats
<1> HIDE DEF r
<1>4. /\ OutputInv' /\ dst' \in Seq(Chunks) /\ Len(dst') = Len(dst) + 1
      /\ \A e : Mentions(dst, e) \subseteq Mentions(dst', e)
      /\ Mentions(dst', id) # {}
  BY <1>1, <1>2, <1>3, OutputGrows DEF Inv
<1>5. /\ Cardinality(todo') = Cardinality(todo) - 1
      /\ Cardinality(todo) \in Nat /\ Cardinality(todo') \in Nat /\ Len(dst) \in Nat
  <2>1. IsFiniteSet(todo)
    BY IdsAssumption, FS_Subset DEF Inv, TypeOK
  <2>2. IsFiniteSet(todo \ {id}) /\ Cardinality(todo \ {id}) = Cardinality(todo) - 1
    BY <2>1, <1>1, FS_RemoveElement
  <2> QED
    BY <2>1, <2>2, <1>1, FS_CardinalityType DEF Inv, TypeOK
<1>6. Len(dst') + Cardinality(todo') <= MaxOutput
  BY <1>2, <1>4, <1>5, BoundsAssumption
<1>7. TypeOK'
  <2>1. Len(dst') <= MaxOutput + 1
    BY <1>4, <1>5, <1>6, BoundsAssumption
  <2> QED
    BY <1>1, <1>4, <2>1 DEF Inv, TypeOK
<1>8. SourceInv'
  BY <1>1, <1>2 DEF Inv, SourceInv
<1>9. WriteInv'
  <2>1. Documents' = Documents
    BY <1>1, SourceSame
  <2>2. ASSUME NEW e \in Ids \ todo', docs'[e] # NoVal
        PROVE  Mentions(dst', e) # {}
    BY <2>2, <1>1, <1>2, <1>4
  <2> QED
    BY <1>1, <1>2, <1>4, <1>6, <2>1, <2>2 DEF WriteInv
<1>10. IndexInv'
  BY <1>1, IndexSame DEF dbVars
<1> QED
  BY <1>4, <1>7, <1>8, <1>9, <1>10 DEF Inv

LEMMA ReplaceInv ==
  ASSUME Inv, Replace
  PROVE  /\ Inv' /\ generation = "old" /\ generation' = "new" /\ dst' = <<>>
         /\ Documents' \in Collections
         /\ \A id \in Ids : Documents'[id] \in {Documents[id], NoVal}
         /\ Whole(dst) => Documents' = Documents
<1>1. /\ step = "write" /\ todo = {} /\ src' = dst /\ generation' = "new" /\ dst' = <<>>
      /\ step' = "idle" /\ docs' = NoDocs /\ todo' = {} /\ format' = "json"
      /\ UNCHANGED <<index, opened, primary>>
  BY DEF Replace, Leave, dbVars
<1>2. generation = "old" /\ ~opened /\ dst \in Seq(Chunks) /\ LogOK(dst, 13)
  BY <1>1 DEF Inv, WriteInv, OutputInv, TypeOK
<1>3. /\ Documents' \in Collections
      /\ \A id \in Ids : Documents'[id] \in {Documents[id], NoVal}
      /\ Whole(dst) => Documents' = Documents
  <2>1. Documents' = Contents(dst)
    BY <1>1 DEF Documents, Contents
  <2>2. Documents' \in Collections
    BY <1>2, <2>1, ContentsType
  <2>3. Documents \in Collections
    BY ContentsType DEF Inv, TypeOK, Documents
  <2>4. \A id \in Ids : /\ Documents'[id] \in {Documents[id], NoVal}
                        /\ Whole(dst) => Documents'[id] = Documents[id]
    BY <1>1, <2>1, OutputIsComplete
  <2> QED
    BY <2>2, <2>3, <2>4 DEF Collections
<1>4. NoEntries \in [Ids -> 0..Len(dst)]
  <2>1. Len(dst) \in Nat
    BY <1>2
  <2> QED
    BY <2>1 DEF NoEntries, Absent
<1>5. primary = NoEntries /\ index.of # "new" /\ index.entries = NoEntries
  BY <1>2 DEF Inv, IndexInv
<1>6. TypeOK'
  <2>1. docs' \in Collections
    BY <1>1 DEF NoDocs, Collections
  <2>2. index' \in [of : {"none", "old", "new"}, entries : [Ids -> 0..Len(src')]]
    BY <1>1, <1>4, <1>5 DEF Inv, TypeOK
  <2>3. dst' \in Seq(Chunks) /\ Len(dst') <= MaxOutput + 1
    BY <1>1, BoundsAssumption
  <2> QED
    BY <1>1, <1>2, <1>4, <1>5, <2>1, <2>2, <2>3 DEF Inv, TypeOK, Formats
<1>7. SourceInv'
  <2>1. Agree(dst)
    BY DEF Inv, OutputInv, Agree
  <2> QED
    BY <1>1, <1>2, <2>1 DEF SourceInv
<1>8. OutputInv' /\ WriteInv'
  BY <1>1 DEF OutputInv, WriteInv, LogOK
<1>9. IndexInv'
  BY <1>1, <1>2, <1>5 DEF IndexInv
<1> QED
  BY <1>1, <1>2, <1>3, <1>6, <1>7, <1>8, <1>9 DEF Inv

LEMMA InterruptedInv ==
  ASSUME Inv, Interrupted
  PROVE  Inv'
<1>1. /\ step = "write" /\ step' = "idle" /\ docs' = NoDocs /\ todo' = {} /\ format' = "json"
      /\ UNCHANGED <<src, generation, index, opened, primary>>
  BY DEF Interrupted, Leave, dbVars
<1>2. generation = "old" /\ Len(dst) + Cardinality(todo) <= MaxOutput
  BY <1>1 DEF Inv, WriteInv
<1>3. OutputInv' /\ dst' \in Seq(Chunks) /\ Len(dst') <= MaxOutput + 1
  <2>1. CASE dst' = dst
    <3>1. Documents' = Documents
      BY <1>1, SourceSame
    <3> QED
      BY <2>1, <3>1 DEF Inv, TypeOK, OutputInv
  <2>2. CASE dst' # dst
    <3>1. PICK part \in TornParts : dst' = Append(dst, [part |-> part, form |-> format])
      BY <2>2 DEF Interrupted
    <3> DEFINE c == [part |-> part, form |-> format]
    <3>2. c \in Chunks /\ c.part # "full" /\ HeaderSize(c.form) = 13
      BY DEF Inv, TypeOK, Chunks, Forms, Formats, TornParts, HeaderSize
    <3> HIDE DEF c
    <3>3. dst' = Append(dst, c)
      BY <3>1 DEF c
    <3>4. OutputInv' /\ dst' \in Seq(Chunks) /\ Len(dst') = Len(dst) + 1
      BY <1>1, <1>2, <3>2, <3>3, OutputGrows DEF Inv
    <3>5. Len(dst) \in Nat /\ Cardinality(todo) \in Nat
      <4>1. IsFiniteSet(todo)
        BY IdsAssumption, FS_Subset DEF Inv, TypeOK
      <4> QED
        BY <4>1, FS_CardinalityType DEF Inv, TypeOK
    <3> QED
      BY <1>2, <3>4, <3>5, BoundsAssumption
  <2> QED
    BY <2>1, <2>2
<1>4. TypeOK'
  BY <1>1, <1>3 DEF Inv, TypeOK, NoDocs, Collections, Formats
<1>5. SourceInv' /\ WriteInv'
  BY <1>1, <1>2 DEF Inv, SourceInv, WriteInv
<1>6. IndexInv'
  BY <1>1, IndexSame DEF dbVars
<1> QED
  BY <1>3, <1>4, <1>5, <1>6 DEF Inv

LEMMA RemoveOutputInv ==
  ASSUME Inv, RemoveOutput
  PROVE  Inv'
<1>1. /\ step = "idle" /\ dst' = <<>>
      /\ UNCHANGED <<src, generation, step, docs, todo, format, index, opened, primary>>
  BY DEF RemoveOutput, toolVars, dbVars
<1>2. TypeOK'
  <2>1. dst' \in Seq(Chunks) /\ Len(dst') <= MaxOutput + 1
    BY <1>1, BoundsAssumption
  <2> QED
    BY <1>1, <2>1 DEF Inv, TypeOK
<1>3. SourceInv' /\ OutputInv' /\ WriteInv'
  BY <1>1 DEF Inv, SourceInv, OutputInv, WriteInv, LogOK
<1>4. IndexInv'
  BY <1>1, IndexSame DEF dbVars
<1> QED
  BY <1>2, <1>3, <1>4 DEF Inv

------------------------------------------------------------------------------
(* The steps of the database *)

\* Open and Close leave the files of the tool alone.
LEMMA FilesSame ==
  ASSUME Inv, step = "idle", UNCHANGED <<fileVars, toolVars>>
  PROVE  SourceInv' /\ OutputInv' /\ WriteInv'
<1>1. Documents' = Documents
  BY SourceSame DEF fileVars
<1>2. UNCHANGED <<src, generation, dst, step>>
  BY DEF fileVars, toolVars
<1> QED
  BY <1>1, <1>2 DEF Inv, SourceInv, OutputInv, WriteInv

LEMMA OpenInv ==
  ASSUME Inv, Open
  PROVE  Inv'
<1>1. /\ step = "idle" /\ ~opened /\ opened' = TRUE
      /\ UNCHANGED <<fileVars, toolVars>>
      /\ UNCHANGED <<src, generation, dst, step, docs, todo, format>>
  BY DEF Open, fileVars, toolVars
<1>2. src \in Seq(Chunks) /\ generation \in {"old", "new"}
  BY DEF Inv, TypeOK
<1>3. SourceInv' /\ OutputInv' /\ WriteInv'
  BY <1>1, FilesSame
<1>4. CASE index.of # "none" /\ primary' = index.entries /\ UNCHANGED index
  <2>1. TypeOK'
    BY <1>1, <1>4 DEF Inv, TypeOK
  <2>2. IndexInv'
    BY <1>1, <1>4, SourceSame DEF Inv, IndexInv
  <2> QED
    BY <1>3, <2>1, <2>2 DEF Inv
<1>5. ASSUME NEW V \in Scans(src, 13),
             primary' = [id \in Ids |-> LiveOffset(src, V, id)],
             index' = [of |-> generation, entries |-> primary']
      PROVE  Inv'
  <2>1. primary' = LiveOffsets(src, V)
    BY <1>5 DEF LiveOffsets
  <2>2. primary' \in [Ids -> 0..Len(src)]
    BY <2>1, <1>2, LiveOffsetsType
  <2>3. TypeOK'
    BY <1>1, <1>2, <1>5, <2>2 DEF Inv, TypeOK
  <2>4. generation = "old" => primary' = NoEntries
    BY <1>2, <2>1, OldLogEmpty DEF Inv, SourceInv
  <2>5. IndexInv'
    <3>1. V \in Scans(src, 13)' /\ LiveOffsets(src, V)' = LiveOffsets(src, V)
      BY <1>1, SourceSame
    <3> QED
      BY <1>1, <1>2, <1>5, <2>1, <2>4, <3>1 DEF IndexInv
  <2> QED
    BY <1>3, <2>3, <2>5 DEF Inv
<1> QED
  BY <1>4, <1>5 DEF Open

LEMMA CloseInv ==
  ASSUME Inv, Close
  PROVE  Inv'
<1>1. /\ opened /\ opened' = FALSE /\ primary' = NoEntries
      /\ index' = [index EXCEPT !.entries = primary]
      /\ UNCHANGED <<fileVars, toolVars>>
      /\ UNCHANGED <<src, generation, dst, step, docs, todo, format>>
  BY DEF Close, fileVars, toolVars
<1>2. index' = index
  <2>1. primary = index.entries
    BY <1>1 DEF Inv, IndexInv
  <2> QED
    BY <1>1, <2>1 DEF Inv, TypeOK
<1>3. TypeOK'
  <2>1. Len(src) \in Nat
    BY DEF Inv, TypeOK
  <2>2. primary' \in [Ids -> 0..Len(src')]
    BY <1>1, <2>1 DEF NoEntries, Absent
  <2> QED
    BY <1>1, <1>2, <2>2 DEF Inv, TypeOK
<1>4. IndexInv'
  BY <1>1, <1>2, SourceSame DEF Inv, IndexInv
<1>5. step = "idle"
  BY <1>1 DEF Inv, TypeOK, WriteInv
<1> QED
  BY <1>1, <1>3, <1>4, <1>5, FilesSame DEF Inv

LEMMA RemoveIndexInv ==
  ASSUME Inv, RemoveIndex
  PROVE  Inv'
<1>1. /\ ~opened /\ index' = NoIndex
      /\ UNCHANGED <<src, generation, dst, step, docs, todo, format, opened, primary>>
  BY DEF RemoveIndex, fileVars, toolVars
<1>2. Documents' = Documents /\ Len(src) \in Nat
  BY <1>1, SourceSame DEF Inv, TypeOK
<1>3. TypeOK'
  BY <1>1, <1>2 DEF Inv, TypeOK, NoIndex, NoEntries, Absent
<1>4. SourceInv' /\ OutputInv' /\ WriteInv'
  BY <1>1, <1>2 DEF Inv, SourceInv, OutputInv, WriteInv, Whole, Mentions
<1>5. IndexInv'
  BY <1>1 DEF Inv, TypeOK, IndexInv, NoIndex
<1> QED
  BY <1>3, <1>4, <1>5 DEF Inv

LEMMA StutterInv ==
  ASSUME Inv, UNCHANGED vars
  PROVE  Inv'
<1>1. UNCHANGED <<src, generation, dst, step, docs, todo, format, index, opened, primary>>
  BY DEF vars
<1>2. Documents' = Documents
  BY <1>1, SourceSame
<1>3. TypeOK'
  BY <1>1 DEF Inv, TypeOK
<1>4. SourceInv' /\ OutputInv' /\ WriteInv'
  BY <1>1, <1>2 DEF Inv, SourceInv, OutputInv, WriteInv, Whole, Mentions
<1>5. IndexInv'
  BY <1>1, IndexSame DEF dbVars
<1> QED
  BY <1>1, <1>2, <1>3, <1>4, <1>5 DEF Inv

------------------------------------------------------------------------------
(* The theorems *)

\* A step that leaves the source alone is at most one of the output.
LEMMA SourceStays ==
  ASSUME Inv, UNCHANGED <<src, generation>>, generation = "new" => dst' = dst
  PROVE  [Promise!Switch \/ Promise!Rewrite]_<<generation, Documents, Whole(dst)>>
<1>1. Documents' = Documents /\ generation' = generation
  BY SourceSame
<1>2. CASE generation = "new"
  <2>1. Whole(dst)' = Whole(dst)
    BY <1>2 DEF Whole
  <2> QED
    BY <1>1, <2>1
<1>3. CASE generation = "old"
  <2>1. Whole(dst)' \in BOOLEAN
    BY DEF Whole
  <2> QED
    BY <1>1, <1>3, <2>1 DEF Promise!Rewrite
<1> QED
  BY <1>2, <1>3 DEF Inv, TypeOK

\* Every step keeps the invariant, and is one of Migration.
LEMMA StepInv ==
  ASSUME OnOldLogs, Inv, [Next]_vars
  PROVE  Inv' /\ [Promise!Switch \/ Promise!Rewrite]_<<generation, Documents, Whole(dst)>>
<1>1. generation = "new" => step = "idle" /\ dst = <<>>
  BY DEF Inv, SourceInv
<1>2. ASSUME NEW f \in Formats, Start(f)
      PROVE  Inv' /\ UNCHANGED fileVars
  BY <1>2, StartInv DEF Start
<1>3. ASSUME NEW id \in Ids, WriteDoc(id)
      PROVE  Inv' /\ UNCHANGED <<src, generation>> /\ generation # "new"
  BY <1>1, <1>3, WriteDocInv DEF WriteDoc
<1>4. CASE Replace
  <2>1. Whole(dst)' = TRUE /\ Whole(dst) \in BOOLEAN
    BY <1>4, ReplaceInv DEF Whole
  <2>2. Promise!Switch
    BY <1>4, <2>1, ReplaceInv DEF Promise!Switch, Collections
  <2> QED
    BY <1>4, <2>2, ReplaceInv
<1>5. CASE Interrupted
  <2>1. UNCHANGED <<src, generation>> /\ generation # "new"
    BY <1>1, <1>5 DEF Interrupted
  <2> QED
    BY <1>5, <2>1, InterruptedInv, SourceStays
<1>6. CASE RemoveOutput
  <2>1. UNCHANGED <<src, generation>> /\ generation # "new"
    BY <1>1, <1>6 DEF RemoveOutput
  <2> QED
    BY <1>6, <2>1, RemoveOutputInv, SourceStays
<1>7. CASE Open \/ Close \/ RemoveIndex \/ UNCHANGED vars
  <2>1. UNCHANGED <<src, generation, dst>>
    BY <1>7 DEF Open, Close, RemoveIndex, fileVars, vars
  <2> QED
    BY <1>7, <2>1, OpenInv, CloseInv, RemoveIndexInv, StutterInv, SourceStays
<1> QED
  BY <1>2, <1>3, <1>4, <1>5, <1>6, <1>7, SourceStays DEF Next, fileVars

LEMMA Invariance ==
  ASSUME OnOldLogs
  PROVE  Spec => []Inv
<1>1. Init => Inv
  BY InitInv
<1>2. Inv /\ [Next]_vars => Inv'
  BY StepInv
<1> QED
  BY <1>1, <1>2, PTL DEF Spec

\* The variables of Migrate stay within their types.
THEOREM TypeCorrect ==
  ASSUME OnOldLogs
  PROVE  Spec => []TypeOK
<1>1. Inv => TypeOK
  BY DEF Inv
<1> QED
  BY <1>1, Invariance, PTL

\* An output that is about to take the place of the source gives a replay its
\* documents and nothing else, after any number of runs that stopped anywhere
\* (main's loop over the documents); all of them, when no run has written behind
\* a torn record.
THEOREM OutputsAreComplete ==
  ASSUME OnOldLogs
  PROVE  Spec => []OutputComplete
<1>1. Inv => OutputComplete
  BY OutputIsComplete DEF OutputComplete
<1> QED
  BY <1>1, Invariance, PTL

\* The log is replaced at one moment (main's os.Rename), and its documents outlive
\* that whenever the output is without a torn record before its end; none changes
\* even then.
THEOREM MigrationKeepsDocuments ==
  ASSUME OnOldLogs
  PROVE  Spec => KeepsDocuments
<1>1. Init => Promise!Init
  <2> SUFFICES ASSUME Init PROVE Promise!Init
    OBVIOUS
  <2>1. generation = "old" /\ src \in Seq(Chunks) /\ dst = <<>>
    BY SourceTypes DEF Init, OnOldLogs
  <2>2. Whole(dst) = TRUE
    BY <2>1 DEF Whole
  <2> QED
    BY <2>1, <2>2, ContentsType DEF Promise!Init, Documents, Collections
<1>2. Inv /\ [Next]_vars =>
        [Promise!Switch \/ Promise!Rewrite]_<<generation, Documents, Whole(dst)>>
  BY StepInv
<1> QED
  BY <1>1, <1>2, Invariance, PTL DEF Spec, KeepsDocuments, Promise!Spec

\* What the database answers after a migration, opened by an index.json made from
\* the migrated log or by a replay of it, are the documents of the log; opened by
\* one from before, it answers nothing.
THEOREM MigratedLogsAreServed ==
  ASSUME OnOldLogs
  PROVE  Spec => []Served
<1>1. Inv => Served
  <2> SUFFICES ASSUME Inv, opened, generation = "new", NEW id \in Ids
               PROVE  IF index.of = "new"
                        THEN \/ Answers(id, Documents[id])
                             \/ /\ ~Whole(src) /\ Documents[id] = NoVal
                                /\ \E val \in Vals : Answers(id, val)
                        ELSE Answers(id, NoVal)
    BY DEF Served
  <2>1. CASE index.of # "new"
    <3>1. primary[id] = Absent
      BY <2>1 DEF Inv, IndexInv, NoEntries
    <3> QED
      BY <2>1, <3>1 DEF Answers
  <2>2. CASE index.of = "new"
    <3>1. src \in Seq(Chunks) /\ LogOK(src, 13) /\ Agree(src)
      BY DEF Inv, TypeOK, SourceInv
    <3>2. PICK V \in Scans(src, 13) : primary[id] = LiveOffset(src, V, id)
      BY <2>2 DEF Inv, IndexInv, LiveOffsets
    <3> DEFINE i == primary[id]
    <3>3. i = Absent \/ (i \in Readable(src) /\ src[i].id = id)
      BY <3>1, <3>2, LiveOffsetType
    <3> HIDE DEF i
    <3>4. ASSUME NEW val
          PROVE  Answers(id, val) <=> val = IF i = Absent THEN NoVal ELSE src[i].val
      BY <3>3 DEF Answers, ReadDocAt, i
    <3>5. CASE Whole(src)
      <4>1. /\ i = Absent => Documents[id] = NoVal
            /\ i # Absent => src[i].val = Documents[id]
        BY <3>1, <3>2, <3>5, LiveOffsetFacts DEF Documents, i
      <4> QED
        BY <2>2, <3>4, <4>1
    <3>6. CASE ~Whole(src) /\ Documents[id] # NoVal /\ i # Absent
      <4>1. PICK k \in Named(src, id) : Documents[id] = src[k].val
        BY <3>1, <3>6, ContentsFrom DEF Documents
      <4>2. src[i].val = src[k].val
        BY <3>1, <3>3, <3>6, <4>1 DEF Agree, Readable, Named
      <4> QED
        BY <2>2, <3>4, <3>6, <4>1, <4>2
    <3>7. CASE ~Whole(src) /\ Documents[id] = NoVal
      <4>1. CASE i = Absent
        BY <2>2, <3>4, <3>7, <4>1
      <4>2. CASE i # Absent
        <5>1. src[i] \in Chunks /\ src[i].part = "full" /\ src[i].val # NoVal
          BY <3>1, <3>3, <4>2 DEF Agree, Readable
        <5>2. src[i].val \in Vals
          BY <5>1, ChunkFields
        <5> QED
          BY <2>2, <3>4, <3>7, <4>2, <5>2
      <4> QED
        BY <4>1, <4>2
    <3>8. i # Absent \/ Documents[id] = NoVal
      <4> SUFFICES ASSUME NEW k \in Named(src, id) PROVE i # Absent
        BY <3>1, ContentsFrom DEF Documents
      <4> DEFINE M == {j \in V \cap Readable(src) : src[j].id = id}
                 live == {j \in M : (\A h \in M : h <= j) /\ src[j].type # "delete"}
      <4>1. k \in M
        BY <3>1, NamedAreRead DEF Named
      <4>2. M \in SUBSET (1..Len(src)) /\ Len(src) \in Nat
        BY <3>1 DEF Readable
      <4>3. \A j \in M : src[j].type # "delete"
        BY <3>1 DEF Readable, Agree, LogOK
      <4> HIDE DEF M
      <4>4. live # {}
        BY <4>1, <4>2, <4>3, Greatest
      <4>5. i \in live
        <5>1. LiveOffset(src, V, id) = IF live = {} THEN Absent ELSE CHOOSE j \in live : TRUE
          BY DEF LiveOffset, M
        <5> QED
          BY <3>2, <4>4, <5>1 DEF i
      <4> QED
        BY <4>2, <4>5 DEF Absent
    <3> QED
      BY <3>5, <3>6, <3>7, <3>8
  <2> QED
    BY <2>1, <2>2
<1> QED
  BY <1>1, Invariance, PTL
==============================================================================
