------------------------------ MODULE Documents ------------------------------
(***************************************************************************)
(* The documents the database stores, and what the code computes from one: *)
(* the merge of a partial update, the document a reader gets back from the *)
(* encoded record, the keys of the secondary index and those of the range  *)
(* index.  A document is a function from some of the fields to values; its *)
(* _id is kept beside it.                                                  *)
(*                                                                         *)
(* A value is opaque.  What the code can tell of it is given by constants: *)
(*   Reload[v]    what v becomes once marshalled and unmarshalled (a JSON  *)
(*                number comes back as a float64, a msgpack one as int8..) *)
(*   Printed[v]   what fmt's %v prints for it                              *)
(*   NumericVals  the values isNumeric accepts                             *)
(*   Num[v]       what toFloat makes of it (0 when it knows no better)     *)
(*   Unencodable  the values on which Marshal returns an error             *)
(***************************************************************************)
EXTENDS Integers

CONSTANTS
  Ids,          \* document ids: numbers, in the order in which strings sort
  Fields,
  Vals,
  Prints,       \* printed values
  Reload,
  Printed,
  NumericVals,
  Num,
  Unencodable

ASSUME IdsAssumption == Ids \subseteq Nat
ASSUME ValuesAssumption ==
  /\ Reload \in [Vals -> Vals]
  /\ Printed \in [Vals -> Prints]
  /\ Num \in [Vals -> Int]
  /\ NumericVals \subseteq Vals
  /\ Unencodable \subseteq Vals

Docs == UNION {[F -> Vals] : F \in SUBSET Fields}

\* The document of a delete record: it holds nothing but the _id.
EmptyDoc == [f \in {} |-> f]

\* partial laid over existing.
MergeDoc(existing, partial) ==
  [f \in DOMAIN existing \cup DOMAIN partial |->
     IF f \in DOMAIN partial THEN partial[f] ELSE existing[f]]

Encodable(doc) == \A f \in DOMAIN doc : doc[f] \notin Unencodable

\* doc after a round trip through Marshal and Unmarshal.
ReloadDoc(doc) == [f \in DOMAIN doc |-> Reload[doc[f]]]

\* The "field:value" keys under which the secondary index files doc.
SecondaryKeys(doc) == {<<f, Printed[doc[f]]>> : f \in DOMAIN doc}

\* The (field, number) keys under which the range index files doc.
RangeKeys(doc) ==
  {<<f, Num[doc[f]]>> : f \in {g \in DOMAIN doc : doc[g] \in NumericVals}}
=============================================================================
