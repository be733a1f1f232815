----------------------------- MODULE ConcurrentDB -----------------------------
(***************************************************************************)
(* The calls of api/db.go made by several goroutines: db.mu, the steps of  *)
(* a call while it holds it, and Go's sync.RWMutex, from whose side the    *)
(* promise of no write starvation comes.                                   *)
(*                                                                         *)
(* The collection is what a step can leave half done: the primary index    *)
(* and the secondary index, which a writer changes one after the other.    *)
(* The log is append-only, so that an offset is the record that is there:  *)
(* the primary index holds documents, and the secondary index pairs of a   *)
(* document and its id.  Append may fail, saveIndex changes nothing here.  *)
(* Every document is one value, which Find asks for.                       *)
(***************************************************************************)
EXTENDS Naturals

CONSTANTS
  Procs,  \* the goroutines
  Ids,
  Vals,   \* documents
  Merge,  \* Merge[old, partial], what an update leaves
  NoVal,  \* what an id holds that has no document
  NoProc  \* nobody holds the lock for writing

ASSUME ValuesAssumption ==
  /\ NoVal \notin Vals
  /\ Merge \in [Vals \X Vals -> Vals]
ASSUME NoProcAssumption == NoProc \notin Procs

VARIABLES
  pc,        \* the step each goroutine is at
  call,      \* the call it is in
  reply,     \* what the call will answer, once that is decided
  old,       \* the document a writing call has read
  primary,   \* db.index
  secondary, \* db.secondary
  writer,    \* who holds db.mu for writing, or waits for its readers to leave
  readers    \* who holds db.mu for reading

lockVars == <<writer, readers>>
dataVars == <<primary, secondary>>
vars == <<pc, call, reply, old, primary, secondary, writer, readers>>

WriteCalls ==
  [name : {"insert", "update"}, id : Ids, val : Vals]
  \cup [name : {"delete"}, id : Ids]
ReadCalls == [name : {"get"}, id : Ids] \cup [name : {"find"}, val : Vals]
Calls == WriteCalls \cup ReadCalls

NoCall == [name |-> "none"]

NoReply == [answer |-> "none"]
Done(answer) == [answer |-> answer]
Documents(vals) == [answer |-> "documents", of |-> vals]
Replies ==
  [answer : {"none", "ok", "refused", "error"}]
  \cup [answer : {"documents"}, of : (SUBSET (Vals \cup {NoVal})) \cup (SUBSET Ids)]

WriteSteps == {"check", "append", "remove", "put", "file", "unlock"}
ReadSteps == {"lookup", "read", "runlock"}
Steps == {"idle", "lock", "drain", "rlock", "parked"} \cup WriteSteps \cup ReadSteps

TypeOK ==
  /\ pc \in [Procs -> Steps]
  /\ call \in [Procs -> Calls \cup {NoCall}]
  /\ reply \in [Procs -> Replies]
  /\ old \in [Procs -> Vals \cup {NoVal}]
  /\ primary \in [Ids -> Vals \cup {NoVal}]
  /\ secondary \subseteq Vals \X Ids
  /\ writer \in Procs \cup {NoProc}
  /\ readers \subseteq Procs

Init ==
  /\ pc = [p \in Procs |-> "idle"]
  /\ call = [p \in Procs |-> NoCall]
  /\ reply = [p \in Procs |-> NoReply]
  /\ old = [p \in Procs |-> NoVal]
  /\ primary = [id \in Ids |-> NoVal]
  /\ secondary = {}
  /\ writer = NoProc
  /\ readers = {}

GoTo(p, step) == pc' = [pc EXCEPT ![p] = step]
Decide(p, answer) == reply' = [reply EXCEPT ![p] = answer]

Invoke(p, c) ==
  /\ pc[p] = "idle"
  /\ call' = [call EXCEPT ![p] = c]
  /\ GoTo(p, IF c \in WriteCalls THEN "lock" ELSE "rlock")
  /\ UNCHANGED <<reply, old, dataVars, lockVars>>

------------------------------------------------------------------------------
(* sync.RWMutex *)

\* (A mutant of Lock: a second writer is not kept out.)
LockAgain(p) ==
  /\ pc[p] = "lock"
  /\ writer' = p
  /\ GoTo(p, "drain")
  /\ UNCHANGED <<call, reply, old, dataVars, readers>>

\* Lock: the mutex of the writers is taken, and readers that come are parked...
Lock(p) ==
  /\ pc[p] = "lock"
  /\ writer = NoProc
  /\ writer' = p
  /\ GoTo(p, "drain")
  /\ UNCHANGED <<call, reply, old, dataVars, readers>>

\* (A mutant of Drained: the readers that are in are not waited for.)
DrainedAtOnce(p) ==
  /\ pc[p] = "drain"
  /\ GoTo(p, "check")
  /\ UNCHANGED <<call, reply, old, dataVars, lockVars>>

\* ... and the writer is in when those that were there before have left.
Drained(p) ==
  /\ pc[p] = "drain"
  /\ readers = {}
  /\ GoTo(p, "check")
  /\ UNCHANGED <<call, reply, old, dataVars, lockVars>>

\* Unlock lets in every reader that is parked, before the next writer; the call
\* returns with it, as it is deferred.
Unlock(p) ==
  LET parked == {q \in Procs : pc[q] = "parked"}
  IN  /\ pc[p] = "unlock"
      /\ writer' = NoProc
      /\ readers' = readers \cup parked
      /\ pc' = [q \in Procs |-> IF q = p THEN "idle"
                                ELSE IF q \in parked THEN "lookup" ELSE pc[q]]
      /\ call' = [call EXCEPT ![p] = NoCall]
      /\ reply' = [reply EXCEPT ![p] = NoReply]
      /\ old' = [old EXCEPT ![p] = NoVal]
      /\ UNCHANGED dataVars

\* (A mutant of RLock: a reader passes a writer that waits.)
RLockPassing(p) ==
  /\ pc[p] = "rlock"
  /\ \A q \in Procs : writer = q => pc[q] = "drain"
  /\ readers' = readers \cup {p}
  /\ GoTo(p, "lookup")
  /\ UNCHANGED <<call, reply, old, dataVars, writer>>

RLock(p) ==
  /\ pc[p] = "rlock"
  /\ \/ /\ writer = NoProc
        /\ readers' = readers \cup {p}
        /\ GoTo(p, "lookup")
     \/ /\ writer # NoProc
        /\ GoTo(p, "parked")
        /\ UNCHANGED readers
  /\ UNCHANGED <<call, reply, old, dataVars, writer>>

RUnlock(p) ==
  /\ pc[p] = "runlock"
  /\ readers' = readers \ {p}
  /\ GoTo(p, "idle")
  /\ call' = [call EXCEPT ![p] = NoCall]
  /\ reply' = [reply EXCEPT ![p] = NoReply]
  /\ UNCHANGED <<old, dataVars, writer>>

------------------------------------------------------------------------------
(* Insert, Update, Delete *)

\* The lookup, and for an update or a delete the read of the document.
Check(p) ==
  LET found == primary[call[p].id]
      allowed == IF call[p].name = "insert" THEN found = NoVal ELSE found # NoVal
  IN  /\ pc[p] = "check"
      /\ old' = [old EXCEPT ![p] = found]
      /\ \/ /\ allowed
            /\ GoTo(p, "append")
            /\ UNCHANGED reply
         \/ /\ ~allowed
            /\ GoTo(p, "unlock")
            /\ Decide(p, Done("refused"))
      /\ UNCHANGED <<call, dataVars, lockVars>>

\* Only an update takes the old document out of the secondary index first.
AppendRecord(p) ==
  /\ pc[p] = "append"
  /\ \/ /\ GoTo(p, IF call[p].name = "update" THEN "remove" ELSE "put")
        /\ UNCHANGED reply
     \/ /\ GoTo(p, "unlock")
        /\ Decide(p, Done("error"))
  /\ UNCHANGED <<call, old, dataVars, lockVars>>

RemoveOld(p) ==
  /\ pc[p] = "remove"
  /\ secondary' = secondary \ {<<old[p], call[p].id>>}
  /\ GoTo(p, "put")
  /\ UNCHANGED <<call, reply, old, primary, lockVars>>

\* The document the call leaves, NoVal when it leaves none.
New(p) ==
  CASE call[p].name = "insert" -> call[p].val
    [] call[p].name = "update" -> Merge[old[p], call[p].val]
    [] OTHER -> NoVal

Put(p) ==
  /\ pc[p] = "put"
  /\ primary' = [primary EXCEPT ![call[p].id] = New(p)]
  /\ Decide(p, Done("ok"))
  /\ GoTo(p, "file")
  /\ UNCHANGED <<call, old, secondary, lockVars>>

\* (A mutant of File: a delete leaves the old document in the secondary index.)
FileNew(p) ==
  /\ pc[p] = "file"
  /\ secondary' = IF call[p].name = "delete" THEN secondary
                  ELSE secondary \cup {<<New(p), call[p].id>>}
  /\ GoTo(p, "unlock")
  /\ UNCHANGED <<call, reply, old, primary, lockVars>>

\* (A mutant of File: a delete files what it leaves, which is no document.)
FileAlways(p) ==
  /\ pc[p] = "file"
  /\ secondary' = secondary \cup {<<New(p), call[p].id>>}
  /\ GoTo(p, "unlock")
  /\ UNCHANGED <<call, reply, old, primary, lockVars>>

\* The secondary index follows: the new document in, or the deleted one out.
File(p) ==
  /\ pc[p] = "file"
  /\ secondary' = IF call[p].name = "delete"
                    THEN secondary \ {<<old[p], call[p].id>>}
                    ELSE secondary \cup {<<New(p), call[p].id>>}
  /\ GoTo(p, "unlock")
  /\ UNCHANGED <<call, reply, old, primary, lockVars>>

------------------------------------------------------------------------------
(* Get, Find *)

\* Get looks in the primary index, Find with an eq filter in the secondary one.
LookUp(p) ==
  LET c == call[p]
  IN  /\ pc[p] = "lookup"
      /\ Decide(p, Documents(IF c.name = "get" THEN {primary[c.id]}
                             ELSE {id \in Ids : <<c.val, id>> \in secondary}))
      /\ GoTo(p, "read")
      /\ UNCHANGED <<call, old, dataVars, lockVars>>

\* ReadDocAt of what was looked up: the records of the log never change.
ReadAt(p) ==
  /\ pc[p] = "read"
  /\ GoTo(p, "runlock")
  /\ UNCHANGED <<call, reply, old, dataVars, lockVars>>

Step(p) ==
  \/ Lock(p) \/ Drained(p) \/ Unlock(p) \/ RLock(p) \/ RUnlock(p)
  \/ Check(p) \/ AppendRecord(p) \/ RemoveOld(p) \/ Put(p) \/ File(p)
  \/ LookUp(p) \/ ReadAt(p)

Next ==
  \/ \E p \in Procs, c \in Calls : Invoke(p, c)
  \/ \E p \in Procs : Step(p)

Spec == Init /\ [][Next]_vars

\* The scheduler runs every goroutine that can run, and the mutex of the writers
\* is handed, in its starvation mode, to the one that waits longest.  Nobody has
\* to make a call.
Fairness == \A p \in Procs : WF_vars(Step(p)) /\ SF_vars(Lock(p))

FairSpec == Spec /\ Fairness

------------------------------------------------------------------------------
(* Properties *)

\* Who is inside as a writer is alone, also from readers.
Exclusive ==
  \A p, q \in Procs :
    pc[p] \in WriteSteps /\ p # q => pc[q] \notin WriteSteps \cup ReadSteps

\* Between calls that write, the secondary index holds the documents of the
\* primary index and no others: what a Find sees is what a Get would.
IndexesAgree ==
  (\A p \in Procs : pc[p] \notin WriteSteps)
    => secondary = {pair \in Vals \X Ids : primary[pair[2]] = pair[1]}

\* Each call is atomic from the caller's view: its answer and its effect are those
\* of one moment between its invocation and its return, although it looks, writes
\* and files in steps.
Store == INSTANCE AtomicStore WITH store <- primary

Linearizable == Store!Spec

\* No call waits for ever: readers that keep coming do not keep a writer out, nor
\* writers a reader or one another.
EveryCallReturns == \A p \in Procs : call[p] # NoCall ~> call[p] = NoCall
==============================================================================
