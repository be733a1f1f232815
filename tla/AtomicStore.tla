----------------------------- MODULE AtomicStore -----------------------------
(***************************************************************************)
(* What api/db.go promises to concurrent callers: "Linearizability per     *)
(* operation: each call is atomic from the caller's view."  A call is      *)
(* made, takes effect at one moment, at which its answer is decided, and   *)
(* returns.                                                                *)
(***************************************************************************)
CONSTANTS
  Procs,  \* the goroutines
  Ids,
  Vals,   \* documents
  Merge,  \* Merge[old, partial], what an update leaves
  NoVal   \* what an id holds that has no document

VARIABLES
  store, \* what each id holds
  call,  \* the call each goroutine has made
  reply  \* its answer, once it is decided

vars == <<store, call, reply>>

WriteCalls ==
  [name : {"insert", "update"}, id : Ids, val : Vals]
  \cup [name : {"delete"}, id : Ids]
ReadCalls == [name : {"get"}, id : Ids] \cup [name : {"find"}, val : Vals]
Calls == WriteCalls \cup ReadCalls
NoCall == [name |-> "none"]

NoReply == [answer |-> "none"]
Done(answer) == [answer |-> answer]
Documents(vals) == [answer |-> "documents", of |-> vals]

Init ==
  /\ store = [id \in Ids |-> NoVal]
  /\ call = [p \in Procs |-> NoCall]
  /\ reply = [p \in Procs |-> NoReply]

Invoke(p) ==
  /\ call[p] = NoCall
  /\ \E c \in Calls : call' = [call EXCEPT ![p] = c]
  /\ UNCHANGED <<store, reply>>

\* What the call c leaves under its id, a document having been found there or not.
Effect(c, old) ==
  CASE c.name = "insert" -> c.val
    [] c.name = "update" -> Merge[old, c.val]
    [] OTHER -> NoVal

Allowed(c, old) == IF c.name = "insert" THEN old = NoVal ELSE old # NoVal

Answer(p, answer) == reply' = [reply EXCEPT ![p] = answer]

Perform(p) ==
  LET c == call[p]
  IN  /\ reply[p] = NoReply
      /\ UNCHANGED call
      /\ \/ /\ c \in WriteCalls
            /\ \/ /\ Allowed(c, store[c.id])
                  /\ store' = [store EXCEPT ![c.id] = Effect(c, store[c.id])]
                  /\ Answer(p, Done("ok"))
               \/ /\ ~Allowed(c, store[c.id])
                  /\ Answer(p, Done("refused"))
                  /\ UNCHANGED store
               \/ /\ Answer(p, Done("error"))
                  /\ UNCHANGED store
         \/ /\ c \in ReadCalls
            /\ c.name = "get"
            /\ Answer(p, Documents({store[c.id]}))
            /\ UNCHANGED store
         \/ /\ c \in ReadCalls
            /\ c.name = "find"
            /\ Answer(p, Documents({id \in Ids : store[id] = c.val}))
            /\ UNCHANGED store

Return(p) ==
  /\ reply[p] # NoReply
  /\ call' = [call EXCEPT ![p] = NoCall]
  /\ reply' = [reply EXCEPT ![p] = NoReply]
  /\ UNCHANGED store

Next == \E p \in Procs : Invoke(p) \/ Perform(p) \/ Return(p)

Spec == Init /\ [][Next]_vars
==============================================================================
