-------------------------- MODULE ConcurrentDB_proofs --------------------------
(***************************************************************************)
(* For any number of goroutines, ids and documents: writers are alone, the *)
(* two indexes agree between writes, and every call is atomic.             *)
(***************************************************************************)
EXTENDS ConcurrentDB, TLAPS

USE ValuesAssumption, NoProcAssumption

------------------------------------------------------------------------------
(* The inductive invariant *)

\* Who is where holds db.mu as he must.
LockInv ==
  /\ \A p \in Procs : writer = p <=> pc[p] \in WriteSteps \cup {"drain"}
  /\ \A p \in Procs : p \in readers <=> pc[p] \in ReadSteps
  /\ \A p \in Procs : pc[p] \in WriteSteps => readers = {}

Undecided ==
  {"idle", "lock", "drain", "check", "append", "remove", "put", "rlock", "parked", "lookup"}

\* A goroutine's call and reply are those of the step it is at.
CallInv ==
  \A p \in Procs :
    /\ pc[p] = "idle" <=> call[p] = NoCall
    /\ pc[p] \in WriteSteps \cup {"lock", "drain"} => call[p] \in WriteCalls
    /\ pc[p] \in ReadSteps \cup {"rlock", "parked"} => call[p] \in ReadCalls
    /\ reply[p] = NoReply <=> pc[p] \in Undecided

\* What a writer has read is still there when it writes, and then what it wrote.
OldOf(p) ==
  /\ pc[p] \in {"append", "remove", "put"} =>
       /\ old[p] = primary[call[p].id]
       /\ call[p].name = "insert" <=> old[p] = NoVal
  /\ pc[p] = "remove" => call[p].name = "update"
  /\ pc[p] = "file" => /\ primary[call[p].id] = New(p)
                       /\ call[p].name # "insert" => old[p] # NoVal
OldInv == \A p \in Procs : OldOf(p)

\* The secondary index against the primary one, before, between and after the
\* steps of a writer that change them.
Agree == \A v \in Vals, id \in Ids : <<v, id>> \in secondary <=> primary[id] = v
FiledBut(p) ==
  \A v \in Vals, id \in Ids :
    <<v, id>> \in secondary <=>
      IF id = call[p].id
        THEN IF pc[p] = "put" THEN call[p].name = "delete" /\ primary[id] = v
                              ELSE call[p].name = "delete" /\ old[p] = v
        ELSE primary[id] = v

SecondaryInv ==
  /\ (\A p \in Procs : pc[p] \notin {"put", "file"}) => Agree
  /\ \A p \in Procs : pc[p] \in {"put", "file"} => FiledBut(p)

Inv == TypeOK /\ LockInv /\ CallInv /\ OldInv /\ SecondaryInv

------------------------------------------------------------------------------
(* Calls, replies and documents *)

\* What a call of each kind names.
LEMMA CallTypes ==
  /\ NoCall \notin Calls
  /\ \A c \in WriteCalls :
       /\ c.id \in Ids /\ c.name \in {"insert", "update", "delete"}
       /\ c.name # "delete" => c.val \in Vals
       /\ c \in Calls /\ c \notin ReadCalls
  /\ \A c \in ReadCalls :
       /\ \/ c.name = "get" /\ c.id \in Ids
          \/ c.name = "find" /\ c.val \in Vals
       /\ c \in Calls
  /\ \A c \in Calls : c \notin WriteCalls => c \in ReadCalls
<1>1. NoCall \notin Calls
  BY DEF Calls, WriteCalls, ReadCalls, NoCall
<1>2. ASSUME NEW c \in WriteCalls
      PROVE  /\ c.id \in Ids /\ c.name \in {"insert", "update", "delete"}
             /\ c.name # "delete" => c.val \in Vals
             /\ c \in Calls
             /\ c \notin ReadCalls
  BY DEF Calls, WriteCalls, ReadCalls
<1>3. ASSUME NEW c \in ReadCalls
      PROVE  /\ \/ c.name = "get" /\ c.id \in Ids
                \/ c.name = "find" /\ c.val \in Vals
             /\ c \in Calls
  BY DEF Calls, ReadCalls
<1>4. ASSUME NEW c \in Calls, c \notin WriteCalls
      PROVE  c \in ReadCalls
  BY <1>4 DEF Calls
<1> QED
  BY <1>1, <1>2, <1>3, <1>4

\* The answers are replies, and none of them is the lack of one.
LEMMA ReplyTypes ==
  /\ NoReply \in Replies
  /\ \A a \in {"ok", "refused", "error"} : Done(a) \in Replies /\ Done(a) # NoReply
  /\ \A S : Documents(S) # NoReply
  /\ \A S \in SUBSET (Vals \cup {NoVal}) : Documents(S) \in Replies
  /\ \A S \in SUBSET Ids : Documents(S) \in Replies
<1>1. NoReply \in Replies
  BY DEF Replies, NoReply
<1>2. \A a \in {"ok", "refused", "error"} : Done(a) \in Replies /\ Done(a) # NoReply
  BY DEF Replies, NoReply, Done
<1>3. ASSUME NEW S
      PROVE  Documents(S) # NoReply
  <2>1. Documents(S).answer = "documents" /\ NoReply.answer = "none"
    BY DEF Documents, NoReply
  <2> QED
    BY <2>1
<1>4. \A S \in SUBSET (Vals \cup {NoVal}) : Documents(S) \in Replies
  BY DEF Replies, Documents
<1>5. \A S \in SUBSET Ids : Documents(S) \in Replies
  BY DEF Replies, Documents
<1> QED
  BY <1>1, <1>2, <1>3, <1>4, <1>5

\* What a writer leaves, once it has found what it needs.
LEMMA NewTypes ==
  ASSUME TypeOK, CallInv, OldInv, NEW p \in Procs, pc[p] \in {"put", "file"}
  PROVE  /\ New(p) \in Vals \cup {NoVal}
         /\ New(p) = NoVal <=> call[p].name = "delete"
<1>1. call[p] \in WriteCalls
  BY DEF CallInv, WriteSteps
<1>2. call[p].name = "update" => old[p] \in Vals
  BY <1>1, CallTypes DEF TypeOK, OldInv, OldOf
<1>3. CASE call[p].name = "insert"
  BY <1>1, <1>3, CallTypes DEF New
<1>4. CASE call[p].name = "update"
  <2>1. Merge[old[p], call[p].val] \in Vals
    <3>1. <<old[p], call[p].val>> \in Vals \X Vals
      BY <1>1, <1>2, <1>4, CallTypes
    <3> QED
      BY <3>1
  <2>2. New(p) = Merge[old[p], call[p].val]
    BY <1>4 DEF New
  <2> QED
    BY <2>1, <2>2, <1>4
<1>5. CASE call[p].name = "delete"
  BY <1>5 DEF New
<1> QED
  BY <1>1, <1>3, <1>4, <1>5, CallTypes

\* A goroutine whose step, call and document stay, and whose record in the primary
\* index no one else changes, keeps what it knows.
LEMMA OldKept ==
  ASSUME NEW q \in Procs, OldOf(q),
         pc'[q] = pc[q], call'[q] = call[q], old'[q] = old[q],
         pc[q] \in WriteSteps => primary' = primary
  PROVE  OldOf(q)'
  BY DEF OldOf, New, WriteSteps

------------------------------------------------------------------------------
(* Every step preserves it *)

\* Types, which hold because an update has found a document.
LEMMA TypeStep ==
  ASSUME Inv, [Next]_vars
  PROVE  TypeOK'
<1> USE DEF Inv, TypeOK, CallInv, Steps, WriteSteps, ReadSteps
<1>1. ASSUME NEW p \in Procs, NEW c \in Calls, Invoke(p, c)
      PROVE  TypeOK'
  BY CallTypes, ReplyTypes, NewTypes, <1>1 DEF Invoke, GoTo, dataVars, lockVars
<1>2. ASSUME NEW p \in Procs, Lock(p)
      PROVE  TypeOK'
  BY CallTypes, ReplyTypes, NewTypes, <1>2 DEF Lock, GoTo, Decide, dataVars, lockVars
<1>3. ASSUME NEW p \in Procs, Drained(p)
      PROVE  TypeOK'
  BY CallTypes, ReplyTypes, NewTypes, <1>3 DEF Drained, GoTo, Decide, dataVars, lockVars
<1>4. ASSUME NEW p \in Procs, Unlock(p)
      PROVE  TypeOK'
  BY CallTypes, ReplyTypes, NewTypes, <1>4 DEF Unlock, GoTo, Decide, dataVars, lockVars
<1>5. ASSUME NEW p \in Procs, RLock(p)
      PROVE  TypeOK'
  BY CallTypes, ReplyTypes, NewTypes, <1>5 DEF RLock, GoTo, Decide, dataVars, lockVars
<1>6. ASSUME NEW p \in Procs, RUnlock(p)
      PROVE  TypeOK'
  BY CallTypes, ReplyTypes, NewTypes, <1>6 DEF RUnlock, GoTo, Decide, dataVars, lockVars
<1>7. ASSUME NEW p \in Procs, Check(p)
      PROVE  TypeOK'
  BY CallTypes, ReplyTypes, NewTypes, <1>7 DEF Check, GoTo, Decide, dataVars, lockVars
<1>8. ASSUME NEW p \in Procs, AppendRecord(p)
      PROVE  TypeOK'
  BY CallTypes, ReplyTypes, NewTypes, <1>8 DEF AppendRecord, GoTo, Decide, dataVars, lockVars
<1>9. ASSUME NEW p \in Procs, RemoveOld(p)
      PROVE  TypeOK'
  BY CallTypes, ReplyTypes, NewTypes, <1>9 DEF RemoveOld, GoTo, Decide, dataVars, lockVars
<1>10. ASSUME NEW p \in Procs, Put(p)
      PROVE  TypeOK'
  BY CallTypes, ReplyTypes, NewTypes, <1>10 DEF Put, GoTo, Decide, dataVars, lockVars
<1>11. ASSUME NEW p \in Procs, File(p)
      PROVE  TypeOK'
  <2>1. secondary' \subseteq Vals \X Ids
    <3>1. call[p] \in WriteCalls /\ call[p].id \in Ids
      BY <1>11, CallTypes DEF File
    <3>2. call[p].name # "delete" => New(p) \in Vals
      BY <1>11, NewTypes DEF File
    <3> QED
      BY <1>11, <3>1, <3>2 DEF File
  <2>2. pc' \in [Procs -> Steps] /\ UNCHANGED <<call, reply, old, primary, lockVars>>
    BY <1>11 DEF File, GoTo
  <2> QED
    BY <2>1, <2>2 DEF lockVars
<1>12. ASSUME NEW p \in Procs, LookUp(p)
      PROVE  TypeOK'
  <2> DEFINE found == IF call[p].name = "get" THEN {primary[call[p].id]}
                      ELSE {id \in Ids : <<call[p].val, id>> \in secondary}
  <2>1. Documents(found) \in Replies
    <3>1. call[p] \in ReadCalls
      BY <1>12 DEF LookUp
    <3>2. \/ found \in SUBSET (Vals \cup {NoVal})
          \/ found \in SUBSET Ids
      BY <3>1, CallTypes
    <3> QED
      BY <3>2, ReplyTypes
  <2>2. reply' = [reply EXCEPT ![p] = Documents(found)]
    BY <1>12 DEF LookUp, Decide
  <2>3. reply' \in [Procs -> Replies]
    BY <2>1, <2>2
  <2> QED
    BY <1>12, <2>3 DEF LookUp, GoTo, dataVars, lockVars
<1>13. ASSUME NEW p \in Procs, ReadAt(p)
      PROVE  TypeOK'
  BY CallTypes, ReplyTypes, NewTypes, <1>13 DEF ReadAt, GoTo, Decide, dataVars, lockVars
<1>14. CASE UNCHANGED vars
  BY <1>14 DEF vars, dataVars, lockVars
<1> QED
  BY <1>1, <1>2, <1>3, <1>4, <1>5, <1>6, <1>7, <1>8, <1>9, <1>10, <1>11, <1>12, <1>13, <1>14 DEF Next, Step

\* A writer is in when the readers have left, and they are parked until it leaves.
LEMMA LockStep ==
  ASSUME Inv, [Next]_vars
  PROVE  LockInv'
<1> USE DEF Inv, TypeOK, LockInv, CallInv, Steps, WriteSteps, ReadSteps
<1>1. ASSUME NEW p \in Procs, NEW c \in Calls, Invoke(p, c)
      PROVE  LockInv'
  BY CallTypes, <1>1 DEF Invoke, GoTo, dataVars, lockVars
<1>2. ASSUME NEW p \in Procs, Lock(p)
      PROVE  LockInv'
  BY CallTypes, <1>2 DEF Lock, GoTo, Decide, dataVars, lockVars
<1>3. ASSUME NEW p \in Procs, Drained(p)
      PROVE  LockInv'
  BY CallTypes, <1>3 DEF Drained, GoTo, Decide, dataVars, lockVars
<1>4. ASSUME NEW p \in Procs, Unlock(p)
      PROVE  LockInv'
  BY CallTypes, <1>4 DEF Unlock, GoTo, Decide, dataVars, lockVars
<1>5. ASSUME NEW p \in Procs, RLock(p)
      PROVE  LockInv'
  BY CallTypes, <1>5 DEF RLock, GoTo, Decide, dataVars, lockVars
<1>6. ASSUME NEW p \in Procs, RUnlock(p)
      PROVE  LockInv'
  BY CallTypes, <1>6 DEF RUnlock, GoTo, Decide, dataVars, lockVars
<1>7. ASSUME NEW p \in Procs, Check(p)
      PROVE  LockInv'
  BY CallTypes, <1>7 DEF Check, GoTo, Decide, dataVars, lockVars
<1>8. ASSUME NEW p \in Procs, AppendRecord(p)
      PROVE  LockInv'
  BY CallTypes, <1>8 DEF AppendRecord, GoTo, Decide, dataVars, lockVars
<1>9. ASSUME NEW p \in Procs, RemoveOld(p)
      PROVE  LockInv'
  BY CallTypes, <1>9 DEF RemoveOld, GoTo, Decide, dataVars, lockVars
<1>10. ASSUME NEW p \in Procs, Put(p)
      PROVE  LockInv'
  BY CallTypes, <1>10 DEF Put, GoTo, Decide, dataVars, lockVars
<1>11. ASSUME NEW p \in Procs, File(p)
      PROVE  LockInv'
  BY CallTypes, <1>11 DEF File, GoTo, Decide, dataVars, lockVars
<1>12. ASSUME NEW p \in Procs, LookUp(p)
      PROVE  LockInv'
  BY CallTypes, <1>12 DEF LookUp, GoTo, Decide, dataVars, lockVars
<1>13. ASSUME NEW p \in Procs, ReadAt(p)
      PROVE  LockInv'
  BY CallTypes, <1>13 DEF ReadAt, GoTo, Decide, dataVars, lockVars
<1>14. CASE UNCHANGED vars
  BY <1>14 DEF vars, dataVars, lockVars
<1> QED
  BY <1>1, <1>2, <1>3, <1>4, <1>5, <1>6, <1>7, <1>8, <1>9, <1>10, <1>11, <1>12, <1>13, <1>14 DEF Next, Step

\* Goroutines change their own calls and replies only.
LEMMA CallStep ==
  ASSUME Inv, [Next]_vars
  PROVE  CallInv'
<1> USE DEF Inv, TypeOK, CallInv, Steps, WriteSteps, ReadSteps, Undecided
<1>1. ASSUME NEW p \in Procs, NEW c \in Calls, Invoke(p, c)
      PROVE  CallInv'
  BY CallTypes, ReplyTypes, <1>1 DEF Invoke, GoTo, dataVars, lockVars
<1>2. ASSUME NEW p \in Procs, Lock(p)
      PROVE  CallInv'
  BY CallTypes, ReplyTypes, <1>2 DEF Lock, GoTo, Decide, dataVars, lockVars
<1>3. ASSUME NEW p \in Procs, Drained(p)
      PROVE  CallInv'
  BY CallTypes, ReplyTypes, <1>3 DEF Drained, GoTo, Decide, dataVars, lockVars
<1>4. ASSUME NEW p \in Procs, Unlock(p)
      PROVE  CallInv'
  BY CallTypes, ReplyTypes, <1>4 DEF Unlock, GoTo, Decide, dataVars, lockVars
<1>5. ASSUME NEW p \in Procs, RLock(p)
      PROVE  CallInv'
  BY CallTypes, ReplyTypes, <1>5 DEF RLock, GoTo, Decide, dataVars, lockVars
<1>6. ASSUME NEW p \in Procs, RUnlock(p)
      PROVE  CallInv'
  BY CallTypes, ReplyTypes, <1>6 DEF RUnlock, GoTo, Decide, dataVars, lockVars
<1>7. ASSUME NEW p \in Procs, Check(p)
      PROVE  CallInv'
  BY CallTypes, ReplyTypes, <1>7 DEF Check, GoTo, Decide, dataVars, lockVars
<1>8. ASSUME NEW p \in Procs, AppendRecord(p)
      PROVE  CallInv'
  BY CallTypes, ReplyTypes, <1>8 DEF AppendRecord, GoTo, Decide, dataVars, lockVars
<1>9. ASSUME NEW p \in Procs, RemoveOld(p)
      PROVE  CallInv'
  BY CallTypes, ReplyTypes, <1>9 DEF RemoveOld, GoTo, Decide, dataVars, lockVars
<1>10. ASSUME NEW p \in Procs, Put(p)
      PROVE  CallInv'
  BY CallTypes, ReplyTypes, <1>10 DEF Put, GoTo, Decide, dataVars, lockVars
<1>11. ASSUME NEW p \in Procs, File(p)
      PROVE  CallInv'
  BY CallTypes, ReplyTypes, <1>11 DEF File, GoTo, Decide, dataVars, lockVars
<1>12. ASSUME NEW p \in Procs, LookUp(p)
      PROVE  CallInv'
  BY CallTypes, ReplyTypes, <1>12 DEF LookUp, GoTo, Decide, dataVars, lockVars
<1>13. ASSUME NEW p \in Procs, ReadAt(p)
      PROVE  CallInv'
  BY CallTypes, ReplyTypes, <1>13 DEF ReadAt, GoTo, Decide, dataVars, lockVars
<1>14. CASE UNCHANGED vars
  BY <1>14 DEF vars, dataVars, lockVars
<1> QED
  BY <1>1, <1>2, <1>3, <1>4, <1>5, <1>6, <1>7, <1>8, <1>9, <1>10, <1>11, <1>12, <1>13, <1>14 DEF Next, Step

\* No other goroutine writes between the read and the write of a writer.
LEMMA OldStep ==
  ASSUME Inv, [Next]_vars
  PROVE  OldInv'
<1> SUFFICES ASSUME NEW q \in Procs
             PROVE  OldOf(q)'
  BY DEF OldInv
<1> USE DEF Inv, TypeOK, OldInv
<1>1. ASSUME NEW p \in Procs, NEW c \in Calls, Invoke(p, c)
      PROVE  OldOf(q)'
  <2>1. CASE q = p
    BY <1>1, <2>1 DEF Invoke, GoTo, OldOf
  <2>2. CASE q # p
    BY <1>1, <2>2, OldKept DEF Invoke, GoTo, dataVars
  <2> QED
    BY <2>1, <2>2
<1>2. ASSUME NEW p \in Procs, Lock(p)
      PROVE  OldOf(q)'
  <2>1. CASE q = p
    BY <1>2, <2>1 DEF Lock, GoTo, Decide, dataVars, lockVars, OldOf
  <2>2. CASE q # p
    BY <1>2, <2>2, OldKept DEF Lock, GoTo, Decide, dataVars, lockVars
  <2> QED
    BY <2>1, <2>2
<1>3. ASSUME NEW p \in Procs, Drained(p)
      PROVE  OldOf(q)'
  <2>1. CASE q = p
    BY <1>3, <2>1 DEF Drained, GoTo, Decide, dataVars, lockVars, OldOf
  <2>2. CASE q # p
    BY <1>3, <2>2, OldKept DEF Drained, GoTo, Decide, dataVars, lockVars
  <2> QED
    BY <2>1, <2>2
<1>4. ASSUME NEW p \in Procs, Unlock(p)
      PROVE  OldOf(q)'
  <2>1. CASE q = p
    BY <1>4, <2>1 DEF Unlock, GoTo, Decide, dataVars, lockVars, OldOf
  <2>2. CASE q # p
    <3>1. CASE pc[q] = "parked"
      BY <1>4, <2>2, <3>1 DEF Unlock, OldOf
    <3>2. CASE pc[q] # "parked"
      BY <1>4, <2>2, <3>2, OldKept DEF Unlock, dataVars
    <3> QED
      BY <3>1, <3>2
  <2> QED
    BY <2>1, <2>2
<1>5. ASSUME NEW p \in Procs, RLock(p)
      PROVE  OldOf(q)'
  <2>1. CASE q = p
    BY <1>5, <2>1 DEF RLock, GoTo, Decide, dataVars, lockVars, OldOf
  <2>2. CASE q # p
    BY <1>5, <2>2, OldKept DEF RLock, GoTo, Decide, dataVars, lockVars
  <2> QED
    BY <2>1, <2>2
<1>6. ASSUME NEW p \in Procs, RUnlock(p)
      PROVE  OldOf(q)'
  <2>1. CASE q = p
    BY <1>6, <2>1 DEF RUnlock, GoTo, Decide, dataVars, lockVars, OldOf
  <2>2. CASE q # p
    BY <1>6, <2>2, OldKept DEF RUnlock, GoTo, Decide, dataVars, lockVars
  <2> QED
    BY <2>1, <2>2
<1>7. ASSUME NEW p \in Procs, Check(p)
      PROVE  OldOf(q)'
  <2>1. CASE q = p
    <3>1. call[p] \in WriteCalls /\ call[p].id \in Ids
      BY <1>7, CallTypes DEF Check, CallInv, WriteSteps
    <3> QED
      BY <1>7, <2>1, <3>1, CallTypes DEF Check, GoTo, Decide, dataVars, lockVars, OldOf
  <2>2. CASE q # p
    BY <1>7, <2>2, OldKept DEF Check, GoTo, Decide, dataVars, lockVars
  <2> QED
    BY <2>1, <2>2
<1>8. ASSUME NEW p \in Procs, AppendRecord(p)
      PROVE  OldOf(q)'
  <2>1. CASE q = p
    <3>1. call[p] \in WriteCalls /\ call[p].id \in Ids
      BY <1>8, CallTypes DEF AppendRecord, CallInv, WriteSteps
    <3> QED
      BY <1>8, <2>1, <3>1, CallTypes DEF AppendRecord, GoTo, Decide, dataVars, lockVars, OldOf
  <2>2. CASE q # p
    BY <1>8, <2>2, OldKept DEF AppendRecord, GoTo, Decide, dataVars, lockVars
  <2> QED
    BY <2>1, <2>2
<1>9. ASSUME NEW p \in Procs, RemoveOld(p)
      PROVE  OldOf(q)'
  <2>1. CASE q = p
    BY <1>9, <2>1 DEF RemoveOld, GoTo, Decide, dataVars, lockVars, OldOf
  <2>2. CASE q # p
    BY <1>9, <2>2, OldKept DEF RemoveOld, GoTo, Decide, dataVars, lockVars
  <2> QED
    BY <2>1, <2>2
<1>10. ASSUME NEW p \in Procs, Put(p)
      PROVE  OldOf(q)'
  <2>1. CASE q = p
    <3>1. call[p] \in WriteCalls /\ call[p].id \in Ids
      BY <1>10, CallTypes DEF Put, CallInv, WriteSteps
    <3>2. New(p)' = New(p)
      BY <1>10 DEF Put, New
    <3>3. primary'[call[p].id] = New(p) /\ pc'[p] = "file"
      BY <1>10, <3>1 DEF Put, GoTo
    <3> QED
      BY <1>10, <2>1, <3>2, <3>3 DEF Put, OldOf
  <2>2. CASE q # p
    <3>1. pc[q] \notin WriteSteps
      BY <1>10, <2>2 DEF Put, LockInv, WriteSteps
    <3> QED
      BY <1>10, <2>2, <3>1, OldKept DEF Put, GoTo, Decide
  <2> QED
    BY <2>1, <2>2
<1>11. ASSUME NEW p \in Procs, File(p)
      PROVE  OldOf(q)'
  <2>1. CASE q = p
    BY <1>11, <2>1 DEF File, GoTo, Decide, dataVars, lockVars, OldOf
  <2>2. CASE q # p
    BY <1>11, <2>2, OldKept DEF File, GoTo, Decide, dataVars, lockVars
  <2> QED
    BY <2>1, <2>2
<1>12. ASSUME NEW p \in Procs, LookUp(p)
      PROVE  OldOf(q)'
  <2>1. CASE q = p
    BY <1>12, <2>1 DEF LookUp, GoTo, Decide, dataVars, lockVars, OldOf
  <2>2. CASE q # p
    BY <1>12, <2>2, OldKept DEF LookUp, GoTo, Decide, dataVars, lockVars
  <2> QED
    BY <2>1, <2>2
<1>13. ASSUME NEW p \in Procs, ReadAt(p)
      PROVE  OldOf(q)'
  <2>1. CASE q = p
    BY <1>13, <2>1 DEF ReadAt, GoTo, Decide, dataVars, lockVars, OldOf
  <2>2. CASE q # p
    BY <1>13, <2>2, OldKept DEF ReadAt, GoTo, Decide, dataVars, lockVars
  <2> QED
    BY <2>1, <2>2
<1>14. CASE UNCHANGED vars
  BY <1>14, OldKept DEF vars, dataVars, lockVars
<1> QED
  BY <1>1, <1>2, <1>3, <1>4, <1>5, <1>6, <1>7, <1>8, <1>9, <1>10, <1>11, <1>12, <1>13, <1>14 DEF Next, Step

\* The secondary index follows the primary one step by step.
LEMMA SecondaryStep ==
  ASSUME Inv, [Next]_vars
  PROVE  SecondaryInv'
<1> USE DEF Inv, TypeOK, LockInv, CallInv, OldInv, OldOf, SecondaryInv, Agree, FiledBut, Steps, WriteSteps, ReadSteps
<1>1. ASSUME NEW p \in Procs, NEW c \in Calls, Invoke(p, c)
      PROVE  SecondaryInv'
  BY CallTypes, NewTypes, <1>1 DEF Invoke, GoTo, dataVars, lockVars
<1>2. ASSUME NEW p \in Procs, Lock(p)
      PROVE  SecondaryInv'
  BY CallTypes, NewTypes, <1>2 DEF Lock, GoTo, Decide, dataVars, lockVars
<1>3. ASSUME NEW p \in Procs, Drained(p)
      PROVE  SecondaryInv'
  BY CallTypes, NewTypes, <1>3 DEF Drained, GoTo, Decide, dataVars, lockVars
<1>4. ASSUME NEW p \in Procs, Unlock(p)
      PROVE  SecondaryInv'
  BY CallTypes, NewTypes, <1>4 DEF Unlock, GoTo, Decide, dataVars, lockVars
<1>5. ASSUME NEW p \in Procs, RLock(p)
      PROVE  SecondaryInv'
  BY CallTypes, NewTypes, <1>5 DEF RLock, GoTo, Decide, dataVars, lockVars
<1>6. ASSUME NEW p \in Procs, RUnlock(p)
      PROVE  SecondaryInv'
  BY CallTypes, NewTypes, <1>6 DEF RUnlock, GoTo, Decide, dataVars, lockVars
<1>7. ASSUME NEW p \in Procs, Check(p)
      PROVE  SecondaryInv'
  BY CallTypes, NewTypes, <1>7 DEF Check, GoTo, Decide, dataVars, lockVars
<1>8. ASSUME NEW p \in Procs, AppendRecord(p)
      PROVE  SecondaryInv'
  BY CallTypes, NewTypes, <1>8 DEF AppendRecord, GoTo, Decide, dataVars, lockVars
<1>9. ASSUME NEW p \in Procs, RemoveOld(p)
      PROVE  SecondaryInv'
  BY CallTypes, NewTypes, <1>9 DEF RemoveOld, GoTo, Decide, dataVars, lockVars
<1>10. ASSUME NEW p \in Procs, Put(p)
      PROVE  SecondaryInv'
  BY CallTypes, NewTypes, <1>10 DEF Put, GoTo, Decide, dataVars, lockVars
<1>11. ASSUME NEW p \in Procs, File(p)
      PROVE  SecondaryInv'
  BY CallTypes, NewTypes, <1>11 DEF File, GoTo, Decide, dataVars, lockVars
<1>12. ASSUME NEW p \in Procs, LookUp(p)
      PROVE  SecondaryInv'
  BY CallTypes, NewTypes, <1>12 DEF LookUp, GoTo, Decide, dataVars, lockVars
<1>13. ASSUME NEW p \in Procs, ReadAt(p)
      PROVE  SecondaryInv'
  BY CallTypes, NewTypes, <1>13 DEF ReadAt, GoTo, Decide, dataVars, lockVars
<1>14. CASE UNCHANGED vars
  BY <1>14 DEF vars, dataVars, lockVars
<1> QED
  BY <1>1, <1>2, <1>3, <1>4, <1>5, <1>6, <1>7, <1>8, <1>9, <1>10, <1>11, <1>12, <1>13, <1>14 DEF Next, Step

------------------------------------------------------------------------------
(* The theorems *)

\* An empty database, nobody in it.
LEMMA InvInit == Init => Inv
  BY DEF Init, Inv, TypeOK, LockInv, CallInv, OldInv, OldOf, SecondaryInv, Agree, FiledBut,
         Steps, WriteSteps, ReadSteps, Undecided, Replies, NoReply

\* The inductive invariant holds in every state.
THEOREM Invariance == Spec => []Inv
<1>1. Inv /\ [Next]_vars => Inv'
  BY TypeStep, LockStep, CallStep, OldStep, SecondaryStep DEF Inv
<1> QED
  BY InvInit, <1>1, PTL DEF Spec

\* Every variable keeps its type: an update merges into a document, and what is
\* filed in the secondary index is one.
THEOREM TypeCorrect == Spec => []TypeOK
<1>1. Inv => TypeOK
  BY DEF Inv
<1> QED
  BY Invariance, <1>1, PTL

\* Who is inside db.mu as a writer is alone, however many goroutines there are.
THEOREM WritersAlone == Spec => []Exclusive
<1>1. Inv => Exclusive
  BY DEF Inv, LockInv, Exclusive
<1> QED
  BY Invariance, <1>1, PTL

\* Between the calls that write, Find sees the documents that Get sees.
THEOREM IndexesFollow == Spec => []IndexesAgree
<1>1. Inv => IndexesAgree
  <2> SUFFICES ASSUME Inv, \A p \in Procs : pc[p] \notin WriteSteps
               PROVE  secondary = {pair \in Vals \X Ids : primary[pair[2]] = pair[1]}
    BY DEF IndexesAgree
  <2>1. Agree
    BY DEF Inv, SecondaryInv, WriteSteps
  <2>2. secondary \subseteq Vals \X Ids
    BY DEF Inv, TypeOK
  <2> QED
    BY <2>1, <2>2 DEF Agree
<1> QED
  BY Invariance, <1>1, PTL

\* The moment at which a call takes effect: the check that refuses it, the append
\* that fails, the write of the primary index, or the lookup of a reader.
LEMMA Atomic ==
  ASSUME Inv, [Next]_vars
  PROVE  [Store!Next]_(Store!vars)
<1> USE DEF Inv, TypeOK, dataVars, lockVars, GoTo, Decide, Store!vars
<1>0. /\ Store!WriteCalls = WriteCalls /\ Store!ReadCalls = ReadCalls /\ Store!Calls = Calls
      /\ Store!NoCall = NoCall /\ Store!NoReply = NoReply
      /\ \A a : Store!Done(a) = Done(a)
      /\ \A S : Store!Documents(S) = Documents(S)
  BY DEF Store!WriteCalls, Store!ReadCalls, Store!Calls, Store!NoCall, Store!NoReply,
         Store!Done, Store!Documents, WriteCalls, ReadCalls, Calls, NoCall, NoReply,
         Done, Documents
<1>1. ASSUME NEW p \in Procs, NEW c \in Calls, Invoke(p, c)
      PROVE  Store!Invoke(p)
  BY <1>0, <1>1 DEF Invoke, Store!Invoke, CallInv
<1>2. ASSUME NEW p \in Procs,
             \/ Lock(p) \/ Drained(p) \/ RLock(p) \/ RemoveOld(p) \/ File(p) \/ ReadAt(p)
      PROVE  UNCHANGED Store!vars
  BY <1>2 DEF Lock, Drained, RLock, RemoveOld, File, ReadAt
<1>3. ASSUME NEW p \in Procs, Unlock(p) \/ RUnlock(p)
      PROVE  Store!Return(p)
  <2>1. reply[p] # NoReply
    BY <1>3 DEF Unlock, RUnlock, CallInv, Undecided
  <2> QED
    BY <1>0, <1>3, <2>1 DEF Unlock, RUnlock, Store!Return
<1>4. ASSUME NEW p \in Procs, Check(p)
      PROVE  Store!Perform(p) \/ UNCHANGED Store!vars
  <2>1. call[p] \in WriteCalls /\ reply[p] = NoReply
    BY <1>4 DEF Check, CallInv, WriteSteps, Undecided
  <2> QED
    BY <1>0, <1>4, <2>1
       DEF Check, Store!Perform, Store!Allowed, Store!Answer
<1>5. ASSUME NEW p \in Procs, AppendRecord(p)
      PROVE  Store!Perform(p) \/ UNCHANGED Store!vars
  <2>1. call[p] \in WriteCalls /\ reply[p] = NoReply
    BY <1>5 DEF AppendRecord, CallInv, WriteSteps, Undecided
  <2> QED
    BY <1>0, <1>5, <2>1 DEF AppendRecord, Store!Perform, Store!Answer
<1>6. ASSUME NEW p \in Procs, Put(p)
      PROVE  Store!Perform(p)
  <2>1. call[p] \in WriteCalls /\ reply[p] = NoReply
    BY <1>6 DEF Put, CallInv, WriteSteps, Undecided
  <2>2. /\ old[p] = primary[call[p].id]
        /\ call[p].name = "insert" <=> old[p] = NoVal
    BY <1>6 DEF Put, OldInv, OldOf
  <2>3. Store!Allowed(call[p], primary[call[p].id])
    BY <2>2 DEF Store!Allowed
  <2>4. New(p) = Store!Effect(call[p], primary[call[p].id])
    BY <2>2 DEF New, Store!Effect
  <2> QED
    BY <1>0, <1>6, <2>1, <2>3, <2>4 DEF Put, Store!Perform, Store!Answer
<1>7. ASSUME NEW p \in Procs, LookUp(p)
      PROVE  Store!Perform(p)
  <2>1. call[p] \in ReadCalls /\ reply[p] = NoReply
    BY <1>7 DEF LookUp, CallInv, ReadSteps, Undecided
  <2>2. CASE call[p].name = "get"
    BY <1>0, <1>7, <2>1, <2>2 DEF LookUp, Store!Perform, Store!Answer
  <2>3. CASE call[p].name = "find"
    <3>1. Agree
      BY <1>7 DEF LookUp, LockInv, SecondaryInv, WriteSteps, ReadSteps
    <3>2. call[p].val \in Vals
      BY <2>1, <2>3, CallTypes
    <3>3. {id \in Ids : <<call[p].val, id>> \in secondary} = {id \in Ids : primary[id] = call[p].val}
      BY <3>1, <3>2 DEF Agree
    <3> QED
      BY <1>0, <1>7, <2>1, <2>3, <3>3 DEF LookUp, Store!Perform, Store!Answer
  <2> QED
    BY <2>1, <2>2, <2>3, CallTypes
<1>8. CASE UNCHANGED vars
  BY <1>8 DEF vars
<1> QED
  BY <1>1, <1>2, <1>3, <1>4, <1>5, <1>6, <1>7, <1>8 DEF Next, Step, Store!Next

\* "Linearizability per operation", for any number of goroutines and calls.
THEOREM CallsAreAtomic == Spec => Linearizable
<1>1. Init => Store!Init
  BY DEF Init, Store!Init, NoCall, NoReply, Store!NoCall, Store!NoReply
<1>2. Inv /\ [Next]_vars => [Store!Next]_(Store!vars)
  BY Atomic
<1> QED
  BY Invariance, <1>1, <1>2, PTL DEF Spec, Linearizable, Store!Spec
==============================================================================
