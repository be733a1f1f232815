--------------------------- MODULE MCConcurrentDB ---------------------------
(***************************************************************************)
(* Values for the constants of ConcurrentDB: two documents, of which an    *)
(* update to the larger one is never undone by one to the smaller.         *)
(***************************************************************************)
EXTENDS ConcurrentDB

MCVals == {"a", "ab"}
MCMerge == [pair \in MCVals \X MCVals |-> IF pair = <<"a", "a">> THEN "a" ELSE "ab"]
==============================================================================
