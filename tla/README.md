# A verification project for my-non-relational

`my-non-relational` is an embedded document database in Go. `api/db.go` is the
whole public interface (`Open`, `Insert`, `Get`, `Update`, `Delete`, `Find`,
`Stats`, `Close`); `engine/` holds the structures it is made of. This directory
holds TLA+ modules of both, configurations that model-check them with TLC, and
proofs that TLAPS checks. Paths below are relative to the repository.

## 1. The system

### Components, their state, and what makes each correct

| component | state | operations | correct when |
|---|---|---|---|
| `DB`, disk mode (`api/db.go`) | handle, `db.mu`, three indexes, `wal`, `index.json`, counters | every call, `saveIndex`, `loadIndex`, `spotCheck`, `rebuildFromWAL` | an answered write is served from then on, over restarts; an unanswered one is kept or gone, never half there; what an id answers changes by its own writes only |
| write-ahead log (`engine/wal.go`, `storage.go`, `recovery.go`) | the file, `w.offset` | `Append`, `ReadDocAt`, `ReplayWAL` | an offset that was returned reads back the record that was written; a replay finds the last record of each id |
| primary index and Bloom filter (`engine/index.go`, `bloom.go`) | sorted entries, bits | `Add`, `Remove`, `Lookup`, `Entries` | an id is looked up exactly when it is live |
| secondary index (`engine/index.go`) | lists of offsets by `field:value` | `AddDoc`, `RemoveDoc`, `Lookup` | the lists hold the live documents, each under the values it was filed with, once |
| range index (`engine/range_avl.go`, `avl.go`) | an AVL tree per field | `Insert`, `Delete`, `Range`, `GreaterThan`, `LessThan` | ordered, balanced, and its pruned walk is exact |
| query engine (`engine/query.go`, `heap.go`) | none | `ExecuteFind`, `matchesAll`, `topK`, `sortAll`, `project` | an index answers what a scan would; a limit keeps the best |
| hash map, and `DB` in memory (`engine/hashmap.go`) | buckets with their `dib` | `Set`, `Get`, `Delete`, `All`, `rehash` | a dictionary |
| locking (`api/db.go`, `sync.RWMutex`) | `db.mu` | every call but `Close` | a call is atomic for its caller; everyone gets in |
| counters (`engine/stats.go`) | three atomics | `Snapshot` | count the calls that succeeded |
| migration (`cmd/migrate`) | two logs, the documents still to write | replay, write, rename | no document changes, and none is lost, whenever it stops and however often it runs; the database then serves them all |
| plain search tree of phase 5a (`engine/bst.go`) | tree, counter of keys | `Insert`, `Remove`, `Query`, `All` | a bag of (key, offset) pairs that answers as the AVL tree that replaced it |
| Count-Min Sketch, HyperLogLog (`engine/cms.go`, `hll.go`; nothing calls them yet) | counters, registers | `Add`, `AddN`, `Estimate`, `Merge` | never undercounts; the registers depend on the set of values only |
| shell (`cmd/repl.go`) | none | parses a line, calls the database | a typed condition finds what it reads as |
| seeder, output, logging | - | input and output | see section 6 |

### How they interact

A writing call takes `db.mu`, looks in the primary index, for an update or a
delete reads the document at its offset in the log, encodes the new record,
appends it and syncs, then changes primary, secondary and range index one after
the other, and last rewrites `index.json`; that this last step may fail is
logged and otherwise ignored. `Open` believes `index.json` when the records of
its first and last entry can be read back (*fast path*) and else replays the log
and saves what it built. `Find` asks the secondary index for one `eq` filter, a
tree for one range filter, and otherwise scans. The log is append-only, so an
offset that was good stays good. `cmd/migrate` works on the files of a closed database: it
replays a log with the headers of the old format, appends the live documents to an output
with headers of the new one, and renames that over the source; `index.json` it leaves as
it is. The shell turns a line into a request and prints what the database answers.

### What is hard here

- *Partial failure and crashes.* Log and `index.json` are two files, written one
  after the other; a crash or an error may come between the two or inside either.
  Which of them the next `Open` believes decides what is served.
- *Bookkeeping over long sequences.* A write files the document of the caller; update
  and delete take entries out of the indexes with keys computed from the document read
  back from the log, and a filter sees that one, too. An int comes back from JSON as a
  float64 and from MsgPack as an int8, int16, ...: it may print otherwise, and be no
  number to `isNumeric`. The hash map and the AVL tree have invariants that break many operations before a wrong
  answer shows.
- *Concurrency.* Readers and writers share the indexes, which a writer changes
  step by step; the package comment promises linearizability and that nobody
  starves.
- *Repeated runs.* The migration appends to whatever output an earlier run has left, behind
  a torn record too, and nothing tells it a log it has migrated from one it has not, or tells
  the database an `index.json` of the old log from one of the new.
- *Boundaries.* Binary searches, the end of the table, `gt` and `lt` made of
  inclusive ranges by 1e-15, infinite numbers beyond the largest finite one that stands
  for the end of an open range, a heap at its capacity, sums of hashes and counters that wrap,
  `>=` beside `>` and `=`.

`PROJECT.json` lists each hazard at its line with the properties that would catch it.

## 2. Modules and how they correspond to the code

`PROJECT.json` maps each definition to its lines. Definitions whose comment starts
with "(A mutant of" are faulty variants of the one below; no specification uses them.

**Disk mode**

- `Documents`: a document is a function from fields to opaque values. What the code
  can tell of a value is given by constants: `Reload` (what it is once written and
  read again: JSON turns an int into a float64, MsgPack into an int8 or the like), `Printed` (`%v`), `NumericVals`
  and `Num` (`isNumeric`, `toFloat`), `Unencodable` (`Marshal` fails).
- `LogFile`: `data.log` as a sequence of chunks, one per `Append` that wrote
  anything: a whole record, part of a header, a header alone, or a header and part
  of a payload. An offset is the number of the chunk that starts there, with
  `Misaligned` for the inside of one. `Scans(log)` are the sets of records a replay
  may come to: what follows a torn record depends on its missing bytes, and is left
  open as far as the code leaves it open. Bytes that are no record are taken never
  to have a right CRC32.
- `DiskDB`: the state machine. Every call but `Close` runs under `db.mu`, so calls
  do not interleave here; what interleaves is failure. A writing call is three
  steps, `append` (`wal.Append` and the in-memory indexes), `save` (`WriteFile`
  truncates `index.json`), `write` (it is written, the call returns). `Open`, `Close`,
  `Exit` (the shell's `os.Exit` without `Close`), crashes in each step, and errors
  of the file system are actions, each of the last two kinds allowed by `Faults`.
  `possible` is a history variable: what each id may hold given the answers so far.
- `DocStore`: what the disk mode promises, without files. A write takes effect at
  once, survives the process when it was answered, may or may not when it was not.

**In-memory mode.** `HashMap` (Robin Hood table: `Set` with displacements, `Get` and
`Delete` with their early exit, backward shift, `rehash`), `MemDB` (the calls on it,
for every hash function of a set), `Dictionary` (what it promises). The loops of the code
are functions of the number of turns, here and in the indexes: `turn[n]` is the state of
a loop's variables after `n` of them, and a turn of a loop that is over changes nothing.

**Range index.** `AVLTree` (insertion, deletion with successor swap, the four
rotations, heights as they are *stored*, the pruned walk), `BST` (the plain tree with the
counter of keys its recursion carries along), `RangeTree` (either of them under any
sequence of calls and reloads, and what they answer side by side), `Multimap` and
`KeyedBag` (what each promises: the plain tree files a pair twice that it is given twice).

**Indexes and queries.** `PrimaryIndex` (sorted entries, both binary searches), `Bloom`
(its filter: double hashing in arithmetic that wraps), `SecondaryIndex` (lists of offsets by
field and value), `IndexEntries`: the two indexes through the writing calls and both ways of
starting. `Collection` is `IndexEntries` with the trees of the range index beside it; each of
its steps is one of `IndexEntries` and what it does to the trees. An offset is the record
there, with the document *as it reads back* (`ReloadDoc`). A write files the caller's
document, or the merged one, unread; an update merges into the document read back, and with a
delete takes entries out by it; a rebuild files what was read; `Find` reads each candidate back
before it filters and sorts. `filed` is a history variable: the document each live record was
filed as. Where every value reads back as it was written, the two modules justify the maps and
sets that `DiskDB` takes the indexes for; elsewhere they say what may be left behind.
`MinHeap` and `Query` (`ExecuteFind` with its three strategies, `topK`, `sortAll`, `project`)
answer from them. `CommandLine` is the
grammar of the shell's `find` (`cmdFind`, whose loop is `ParseTurn` word by word, and
`parseFilterToken`) on words cut into operators and what is between them, `Shell` puts it on
top of the collection.

**Sketches.** `CountMinSketch` (rows of counters that wrap) and `HyperLogLog` (registers of
several shards, `Add` and `Merge`), side by side in `SketchPair`; they share no step.

**Migration.** `Migrate`: the steps of the tool (`Start`, `WriteDoc` in any order, `Replace`,
`Interrupted` at any of them with any part of a record left behind), `Open` and `Close` of
the present program before and after, on the primary index. A record says the size of its
header and its encoding, so that a log is read by the wrong program, or with records of
both formats, as the code would; it may also be one that is skipped, for its CRC32 or its
payload. `Start` opens the output whatever it ends with, and `Open` believes an `index.json` that
passes the spot check whatever log it was made from, as the code does; that an old output or the
old `index.json` is removed by hand is an action, which may happen or not. `Migration` is what the
tool promises, with the one way to lose a document that it has: a run that writes behind a torn
record of an earlier one. What whoever runs the tool must do, and the code does not check, is in
two guards: the database is closed meanwhile, and the tool is run on the generations of logs in
`Migratable`.

**Concurrency.** `ConcurrentDB`: goroutines that make calls; the steps of a call that
a missing lock would let others into; `sync.RWMutex` as it is implemented (a writer
takes the writers' mutex, readers that come are parked, the writer waits for the
readers inside; `Unlock` lets in the parked readers before the next writer).
`AtomicStore`: each call takes effect at one moment between invocation and return.

`MC*` modules give the constants their values; `*_proofs` modules hold the proofs.

## 3. The runs

| run | question | bounds |
|---|---|---|
| `disk_crash` | does the database keep its promise if the process may die at any point, inside an append or inside the rewriting of `index.json`, and that file may be removed, as long as not both files are damaged? | 2 ids, 1 field, 2 values, 3 chunks, 1 read; two kits of faults |
| `disk_errors` | may errors of the file system, an index that cannot be saved, or a document that cannot be encoded change an answer of another id while the handle lives, after whatever crashes? | 2 ids, 2 values, 3 chunks; all six faults |
| `mem_dictionary` | is the Robin Hood table a dictionary? | 4 ids, table of 4 slots doubled by the third entry, 4 slots to fall on |
| `range_trees` | is the AVL tree a balanced, ordered multimap with exact ranges, is the plain tree a bag, and where do they answer alike? | 8 keys, both infinities among them, one with two offsets; 5 keys for the plain tree |
| `collection` | what do the index structures hold when a value need not read back as it was written, does every strategy of `Find` agree with a scan as far as it can, and does a typed `find` answer what it reads as? | 4 ids, 1 field, 5 values; 2 places for the records of an id, 1 record left behind; 5 bits, 2 of them for each id |
| `concurrent_calls` | is each call atomic, and does it return? | 3 goroutines, 1 id, 2 documents |
| `sketches` | does the Count-Min Sketch never undercount, and do the registers depend on the set of values only? | 3 keys in 2 rows of 2 columns, counters modulo 8; 4 values, 2 shards, hashes of 6 bits |
| `migrate` | does an old log keep its documents over the migration, whenever it stops and however often it is run, and what is served then? | 2 ids, 2 documents, 3 records and a torn one; an output of 4 records, torn ones among them, and a torn one |

The runs that are expected to find a violation show where the code does not do what
a document or comment of the repository says (the findings of `PROJECT.json` quote it):

| run | what it shows |
|---|---|
| `disk_append_error` | after a failed `Append` that left bytes in the file, `w.offset` is behind: the next document is filed under the offset of the failed one, and `Get` returns the wrong document |
| `disk_torn_tail` | a torn record is never truncated: records answered after it are lost when `index.json` has to be rebuilt. The output of the migration is opened in the same way, and what a second run writes behind the torn record of a first is lost at the rename, which contradicts `README.md:645` and `:677` |
| `migrate_stale_index` | a database that is opened on an old log finds nothing in it and saves an empty `index.json`; after the migration that is believed, and hides every document |
| `migrate_new_log` | run on a log of the present program, as a document of the repository has the reader do, the tool finds nothing and makes an empty output, which takes the place of the log |

*Why the bounds are enough.* Two ids are both ends of the index, which is what `spotCheck` looks
at, and let one write disturb another. The two kits of faults of `disk_crash` (`MCDiskCrash`)
are those of the proofs: an `index.json` that is never cut or removed over a log that may be
torn, and a log that is never torn under an `index.json` that may be cut or gone; with both
damaged the promise fails (`disk_torn_tail`). Reads move one counter only and are left to one
kit, and `disk_errors`, whose property is about answers and not about the counter, has none.
Three chunks hold a torn record with a record before and behind it, and insert, update and
delete of one id; every scenario of the findings needs no more. Four ids in a table of four
slots wrap around its end, displace, shift back and rehash. Eight keys make balanced trees of
four levels, two of them are nearer than 1e-15, one is too large to be moved by it, and two are
infinite; the plain tree takes far more shapes, of which five keys show every case of a
deletion. The five values of `collection` are an int and what MsgPack makes of it, an int and
what JSON makes of it, and an infinity. Two places (`Places`) let the record of an update, or of
a new insert, differ from the old one it leaves behind in a list or a tree; `MCStrays` allows
one to be left in all. The fourth document is kept beside three others only, all of two values
that read back as written: it is there for the binary searches, the filter and the heap. Four
ids give the binary searches intervals of every parity and a heap that fills, and two of them
have all their Bloom bits set by others. A count of 5 in one column with another of 5 passes the
modulus of 8. Three records replace, delete and insert again; an output of four holds what two
runs over two documents write. Two goroutines exclude each other; a third is needed to keep one
of two waiting for ever. `MaxLog` bounds the log, `MaxReads` the counter of reads, `MaxOutput`
the output of the migration and `MaxCount` the count of a key; all are in guards, as are
`MCStrays` and the condition for a fourth document. `CHECK_DEADLOCK FALSE` is set for three disk
runs (`disk_errors` and the two violations): in those a log that cannot be replayed leaves a
database that cannot be opened, or one whose bound is reached with nothing left to do. A closed
database whose log is full can otherwise always be opened and closed again.

Every property of a passing run has a mutant in `PROJECT.json`: a change of a definition
that a plausible bug would make, under which the run finds the property violated.

## 4. Fairness

Only `ConcurrentDB` assumes any. Each goroutine's steps are weakly fair: the Go scheduler
runs who can run, and no step of a call waits for anything but the lock. `Lock` is
strongly fair: the writers' mutex is a `sync.Mutex`, which in starvation mode is
handed to the one that waits longest. Nothing makes anybody call. That a waiting writer is
not passed by readers, and readers not by writers, is not assumed: it follows from the
steps of `RLock`, `Drained` and `Unlock`, and `EveryCallReturns` fails without them
(its mutant lets a reader pass). The other modules promise safety only: nothing in the code
retries, and no call waits for another but through the lock.

## 5. What is proved

The proofs hold for all values of the constants that satisfy the named assumptions of the
modules (`IdsAssumption`, `ValuesAssumption`, ...): any number of ids, fields, values,
goroutines, and any bound on the log.

**`LoopLemmas`.** What the other proofs need of induction. The library's induction
theorems take formulas as parameters; here a set of naturals stands for the formula
(`AllNaturals`). With it, a loop of N turns has its states (`LoopExists`), so that a function
that is defined by recursion over the turns satisfies its equation, and what a turn preserves
holds after every turn (`LoopInvariant`). The same for trees: what holds of the empty tree and
passes from the two subtrees to their node holds of every tree (`TreeInduction`), and a
recursion over the nodes of a tree has a solution (`FoldExists`).

**`DiskDB_proofs`.** `Spec => []TypeOK` under every fault. The parts of `TypeOK` about
`phase`, `call` and the length of the log are what makes it inductive. And
`IndexesExact`, if documents are read back as they were
written and no `Append` fails in a process that lives on (`Faithful`); crashes and failures
to save are all allowed. The invariant adds the image in `index.json`, and that `w.offset`
is the end of the file. `RemoveDoc` takes out what `AddDoc` put in because the document
read back is the one that was filed, and a record is filed under one offset only.

Under `Reliable`, that is, either

- `IndexTrusted`: crashes while a record is appended or right after, but `index.json` is
  never cut or removed, so it is only ever behind by writes that were not answered; or
- `LogTrusted`: crashes after the append or inside `WriteFile`, `index.json` may be
  removed, but no record is ever cut, so that a replay finds all of them;

with every value encodable and every range key saveable, the promise holds: `AckedWritesServed`,
`DiskDB` implements `DocStore` (`KeepsPromise`), `OwnDocument` and `Openable`.
`AckedWritesServed` says nothing of a closed database, so the inductive invariant `PromiseInv`
carries what the *next* `Open` will serve: for the indexes in memory, for `index.json` when it
is there, and for a replay of the log. What a replay finds is the largest offset of an id; the
proofs reason about that record with well-founded least elements rather than by induction over
the log. The run `disk_crash` puts the two side by side; each theorem is about `DiskDB` under
one of them, for any bounds. The runs `disk_append_error` and `disk_torn_tail` show what happens
when a part of these assumptions is dropped. `AnswersChangeByOwnWrite` is proved there with no
assumption at all: no index points behind the end of the log, so what is appended there changes
no answer.

**`MemDB_proofs`.** `TypeOK`, `RobinHood`, `EveryEntryFound`, `Room`, and that `MemDB`
implements `Dictionary` (`IsDictionary`), for any capacity, any ids and any hash function.
`RobinHood` is not inductive: a `Delete` that loses an entry keeps it. The invariant
(`IInv`) says what the table holds: every entry in the slot its `dib` says (`Placed`), a
`dib` at most one above that of the slot before (`Stepping`), and exactly the documents of
the dictionary, each once (`Holding`); `Room`, that `Set` leaves a free slot, is part of it
as the loops stop nowhere else; and that the capacity is the initial one doubled. From
`Stepping` follows that the entries before one of distance d have at least d - 1, d - 2, ...
(`Chain`), which is why a probe may stop at a `dib` smaller than its own. The loop of `Set`
has an invariant for the entry in hand (`Waiting`: all but it are filed), that of `Delete` one for
the hole that moves through the chain, and `rehash` and `All` one for the slots gone over so
far. No `Set` inside `rehash` rehashes again (`RehashedOnce`), which the model takes from the
code's arithmetic.

**`Collection_proofs`.** `TypeOK`, `LookupsExact`, `ListsRepresent`, `TreesRepresent`,
`FindAnswersScan`, `BestFirst` and `ShellFinds`, for any documents, any finite set of them live,
any round trip of a value through the log (`Reload`), any bits of the filter, and any order in
which Go walks a map. The invariant (`IInv`) says that the entries are sorted by id and are
those of the live documents and that the filter has all their bits (`PrimaryHolds`), and that
lists and trees hold (`Held`) a set of pairs of a key and a record: the list of each key has its
records once (`ListsHold`), and the tree of each field is sound and has its pairs (`TreesHold`;
what an operation does to a tree is taken from `RangeTree_proofs`). What is in that set is the
same for both (`Placed`): a live record is there under the keys of the document it was filed as,
all of them and no others; a record no longer live is there only under stray keys, which some
document that reads back as it does has, and it has not (`Stray`); and no record is there under
two keys of one field, without which a range might answer it twice. Filing a record where
nothing refers to it, taking one out by what it reads back as, and filing all anew keep this
(`PlacedWith`, `PlacedWithout`, `PlacedAsRead`). Of the live records nothing more may be said:
that the keys are those of the document *read back* holds after a rebuild, and otherwise only
where the values of a document read back as they were written. The binary searches have the
invariant one would expect, that the id is between the bounds when it is there at all, and a
measure that shows the turns to be enough. `FindAnswersScan` follows from the invariant: a scan,
a list and a walk of a tree each read their records once (`ScanReads`, `ListReads`,
`RangeReads`), what the filter then keeps it keeps once (`MatchedAre`), and the bounds with
which a tree is asked let through what matches, but for keys that 1e-15 skips and infinities on
the open side (`RangeBounds`). This assumes that `_id` is no field of a document
(`IdFieldAssumption`). `BestFirst` needs the sorts besides. A sift leaves at most one item out
of order, below its parent (`HeapedAbove`) or above its children (`HeapedBelow`), and moves it
until none is (`SiftUpHeaps`, `SiftDownHeaps`); the first item of a heap is then the least
(`RootIsLeast`), so that a heap drains in order (`DrainIs`). The heap of `topK` keeps the
records of the k greatest weights seen, a weight being the number sorted by or its negative: one
that is thrown away weighs no more than any that stays (`OfferedKeeps`, `TopKIsBest`). The
insertion sort keeps what it has in order (`SunkAt`, `SortAllSorts`). That the two answers then
weigh the same, place by place, is a matter of counting (`BestWeighSame`): if the i-th of one
weighed more, i records would have to be among the first i - 1 of the other. The two need not be
the same records where weights are equal.

`ShellFinds` follows the line that is typed to the answer. An operator reads in a word when it
stands there with something before and behind it (`Reads`), its place is the first that has its
characters (`PositionOfOne`, `PositionOfTwo`), and the first of the five that reads is the one,
so that `>=` is not taken for `>` (`TypedReads`). The loop over the words has its states
(`ParseRuns`), and each word changes one part of the request and leaves the others alone
(`TurnSort`, `TurnLimit`, `TurnFilter`, ...), so that four clauses in any of the orders ask for
the same (`OrdersAsk`, `LineRead`); a line whose first turn is refused is refused whatever
follows (`FirstTurnRefused`). What the condition then finds is what is meant (`ConditionFinds`,
from the lemmas behind `FindAnswersScan`, where documents were filed as they read back,
`FiledAsRead`: the shell stores JSON input, whose numbers are float64 already; text that is no
printed value is under no key and prints for no document), and the two best of it come from
`TopKIsBest`. This assumes that a number that is typed is a key (`TypedAssumption`; `ParseFloat`
also takes `nan` and `inf`, which are left out), that no operator is a number, and that a field
is not named as an operator, a number, or a direction (`Names`): those words mean something else
to the parser.

**`RangeTree_proofs`.** `Balanced`, `Ordered`, `RangesExact`, that the balanced tree implements
`Multimap` (`IsMultimap`) and the plain one `KeyedBag` (`IsBag`), and that the two answer alike
(`SameAnswers`), for any finite set of keys, on either side of the largest finite one, any
offsets and any effect of 1e-15. The invariant (`TreeInv`) says of the tree that it is a search
tree (`Search`: each node's key is between those of its subtrees and has offsets filed under it,
each once) and that every stored height is real and no node leans by more than one level
(`AllTight`), and of `size` that it is the number of pairs. Each operation is first shown to
keep this as an operator on trees, by induction over the tree: `Rebalance` makes up for two
subtrees that differ by two levels and leaves a tree of the height of the higher one or one more
(`RebalanceGood`), and the pairs filed are those before, with the one that came (`InsertKeeps`)
or without the one that went, through the swap with the successor (`DeleteKeeps`). A search tree
has no more levels than keys, which is why `Trees` may be the trees of so many levels. The walk
lists what is filed in order (`CollectLists`); the pruned walk is the choice from it
(`RangeChooses`), as the subtrees it leaves out hold no key in range.

The plain tree may file a pair twice, so that what is said of it is said of the *list* of its
pairs. Its invariant (`PlainInv`) is that the tree is ordered by key and that the counter is the
number of its keys. An insertion puts the pair into the list behind those with its key
(`Grown`); a deletion takes one occurrence out of it, and counts one key less if that was the last
(`Shrunk`), which has three cases for a node that goes and in the last of them a successor that
must be found and taken out without a second correction of the counter (`UnlinkKeeps`). A reload
files a list that is in order, which therefore comes out as it went in. A pair more in a list is
one occurrence more of it and none of any other (`MoreCounts`), which is what a bag is about.
For `AnswersAgree` the balanced tree is shown to treat its list in the same way: a rotation leaves it
alone (`RebalanceLists`), a new pair goes behind those with its key (`InsertLists`), so that a list
that is loaded is listed again (`LoadLists`). The two trees then list the same pairs, and the
walk of either is the choice from that list (`RangeChooses`, `PlainRangeChooses`), once the bounds of
the two are seen to let the same keys through (`SameBounds`), which is where the hypotheses
about 1e-15 and about infinities on the open side are needed.

**`SketchPair_proofs`.** `NeverUndercounts` and `RegistersOfUnion`, for any keys, rows,
columns, modulus, hashes and number of register bits. A counter is the sum of the counts of
the keys of its column, modulo the modulus (`CountersHold`); sums over finite sets are
handled an element at a time as `MapThenSumSet` adds them (`SumIs`). A register is at least
the rank of each of its values and the rank of one (`RegistersHold`); that the rank
`LeadingZeros64` gives of the shifted bits is the place of the first 1, however the sentinel
bits stand behind it, is arithmetic on powers of two (`RankIs`).

**`ConcurrentDB_proofs`.** `TypeOK`, `Exclusive`, `IndexesAgree`, and that `ConcurrentDB`
implements `AtomicStore` (`Linearizable`), for any number of goroutines. The invariant says
of each step who holds the lock (`LockInv`), what call and reply a goroutine has there
(`CallInv`), that what a writer has read is still there when it writes (`OldInv`), and how
far the secondary index has followed the primary one (`SecondaryInv`). A write takes effect
with the change of the primary index, a refused one with the check, a read with its lookup.

**`Migrate_proofs`.** `TypeOK`, `OutputComplete`, `Served`, and that `Migrate` implements
`Migration` (`KeepsDocuments`), when the tool is run on logs of the old format only
(`OnOldLogs`), for any source that generation can have left, torn or not, with records that are
skipped or not, and any number of runs. Nothing is assumed of what an output ends with or of
which `index.json` is there: `OutputComplete` and `KeepsDocuments` say that no document changes
and that none is lost but by a run that writes behind a torn record; `Served`, that a database on
a migrated log serves it, or nothing at all when it believes an `index.json` of the old log. The
invariant says that every record of an output, from whichever run, inserts the document the source
has for its id (`OutputInv`), so that it does not matter which record of an id is last, or which
of them a replay comes to; that a document still to be written is in `todo` and every other one in
the output (`WriteInv`); and that an open database and an `index.json` made from the migrated log
have the offsets a replay finds, and one made from the old log none (`IndexInv`).
`migrate_new_log` shows why the assumption is needed.

**Model-checked only.** Liveness (`EveryCallReturns`), which the provers cannot do. The
violation runs are counterexamples, which need no proof.

## 6. What is not modelled, and why

- *`Close` while calls are in flight*: `Close` takes no lock. A hazard is listed for what it
  may do to a writer; the code promises nothing of such calls, so that there is no property
  to check them against.
- *Power loss.* `index.json` is written without a sync; the models lose nothing that a
  write has returned. A crash is the end of the process.
- *Bytes.* An offset is the number of a record. That the bytes of a log of the old format
  might pass for a record of the new one at an offset that an older `index.json` holds, which
  takes a header and a CRC32 to fit by chance, is left out, and so is the first offset, 0,
  which fits always and is right when the log has one document.
- *Writes to an old log that has not been migrated*: the present program finds nothing in it,
  and what it appended would mix headers of two sizes, which no reader of either generation goes
  through. Nor is the tool run while the database is open.
- *An `index.json` that the program of the old format left*: what its offsets would mean to the
  present one; the old program is not in the repository.
- *NaN*, which is smaller, larger and equal to nothing: the comparisons of the trees take it for
  the key of whatever node they come to. `nan` can be typed into a filter and stored with MsgPack.
- *Logs of several formats in `DiskDB`*: one serializer per run there; `Migrate` has logs that
  mix them.
- *Generated ids*: wall clock and a counter that starts at one in every process.
- *Colliding keys of the secondary index* (`"a:b"` with `"c"`, `"a"` with `"b:c"`): a
  key is a pair here. What 1e-15 does to a key is a constant. Hashes are constants too,
  chosen to collide. `RebuildBloom` has no caller.
- *Estimates.* The formula of HyperLogLog, the sizing of the Bloom filter and the error bounds
  of the sketches are floating point and probability; what is modelled is what their
  registers, bits and counters hold.
- *The other commands of the shell*, which hand their JSON to one call of the database.
- *Memory, sizes, performance*, the wording of errors, log lines, and `internal/views`.

Things a reader of the models may be surprised by, which are what the code does:

- an `eq` filter on `_id` alone finds nothing in the disk mode, and in company of another
  filter it finds the document;
- a string counts as 0 for a range filter that is evaluated by a scan and is absent from the
  range index; `gt` and `lt` on an index return the bound itself when the number is too large
  for 1e-15 to move it, and leave out a key nearer to it than that and, as `gte` and `lte` do,
  the infinity on the open side;
- an int that is stored through the API comes back from JSON as a float64 and from MsgPack as
  an int8 or the like. A list or a tree may then keep the record after an update or a deletion,
  and a range may answer a deleted document through it. An int8 counts as 0 for a filter: until
  the next rebuild a range finds the document when it holds both 0 and the number that was
  stored, and then no more;
- `>=1`, typed without a field, is read as the condition that the field `>` equals `1`;
- a log that ends with a header and no payload byte makes the replay, and `Open`, fail
  (`Openable` holds where `index.json` can be trusted);
- an infinite number in a document stops `index.json` from being saved while the document
  lives, and the next `Open` believes the file that was saved before; with JSON records, an
  error of `Marshal` is dropped, and an insert of such a document answers and cannot be read;
- a counter of the Count-Min Sketch wraps past 2^64, which two calls of `AddN` can reach;
  `NeverUndercounts` speaks of counters that have not.

## 7. Plan

Done, in order of importance: disk mode and its promise; proofs about it; in-memory mode;
range index, the tree it replaced, and that the two answer alike; index structures, Bloom
filter, queries and the shell's `find`; concurrency and its proofs; migration and its proofs;
sketches; proofs about the hash map, the balanced tree, the sketches, the three indexes of the
disk mode, the strategies of `Find` and its two sorts, and the shell's `find` on top of
them; the round trip of a document through the log in all of these; the index and the output
that are left beside a migrated log. Left:

1. Generated ids of two sessions.
2. The logs of mixed header sizes that writing to an old log would make.
