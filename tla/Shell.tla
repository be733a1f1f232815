-------------------------------- MODULE Shell --------------------------------
(***************************************************************************)
(* The find command of the shell on the collection: what is typed, parsed  *)
(* and answered.                                                           *)
(***************************************************************************)
EXTENDS Collection, CommandLine

\* A number that is typed is a key.
ASSUME TypedAssumption == \A part \in DOMAIN Number : Number[part] \in Keys

\* cmdFind: the list that is shown, or none and the usage error.
CmdFind(words) == {ExecuteFind(ix, req) : req \in ToSet(ParseFind(words))}

------------------------------------------------------------------------------
(* Properties *)

\* The fields that can be named: those whose name is no operator, no number and no
\* keyword that may stand alone.
Names == {field \in Fields :
            field \notin {"=", "<", ">", "asc", "desc", NoField} \cup DOMAIN Number}

\* The words somebody types for a condition, and the documents that are meant, short
\* of those whose number is too near the bound for the tree, or infinite.
Symbols == {<<"=">>, <<">">>, <<"<">>, <<">", "=">>, <<"<", "=">>}

Typed(field, symbol, value) == <<field>> \o symbol \o <<value>>

Meant(field, symbol, value) ==
  {rec \in Live :
     /\ field \in DOMAIN rec.doc
     /\ LET v == rec.doc[field]
        IN  CASE symbol = <<"=">> -> Printed[v] = value
              [] symbol # <<"=">> /\ v \notin NumericVals -> FALSE
              [] symbol = <<">">> /\ v \in NumericVals ->
                   Num[v] > Number[value] /\ ~ Near(Number[value], Num[v]) /\ Num[v] <= MaxKey
              [] symbol = <<"<">> /\ v \in NumericVals ->
                   Num[v] < Number[value] /\ ~ Near(Number[value], Num[v]) /\ Num[v] >= MinKey
              [] symbol = <<">", "=">> /\ v \in NumericVals ->
                   Num[v] >= Number[value] /\ Num[v] <= MaxKey
              [] OTHER -> Num[v] <= Number[value] /\ Num[v] >= MinKey}

\* The collection is filed as it reads back, as one is that was only ever written from
\* the shell: the float64 numbers and the strings of its JSON survive the log.
FiledAsRead ==
  /\ \A id \in DOMAIN docs : filed[id] = docs[id].doc
  /\ Treed(trees) \subseteq Live

\* Lines the shell refuses: a clause or a condition without its end, a limit that
\* is no positive number, a bound that is none, a word without operator.
Malformed(field) ==
  {<< <<"sort">> >>, << <<"limit">> >>, << <<"limit">>, <<"0">> >>,
   << <<"limit">>, <<field>> >>, << <<field, ">">> >>, << <<field, ">", "=">> >>,
   << <<">", "1">> >>, << <<field, ">", field>> >>, << <<field>> >>}

\* A line of clauses around a condition, and the orders it is typed in.
Clauses(field, direction, word) ==
  << << <<"sort">>, <<field>> >>, << <<direction>> >>, << <<"limit">>, <<"2">> >>, <<word>> >>

Line(clauses, order) ==
  clauses[order[1]] \o clauses[order[2]] \o clauses[order[3]] \o clauses[order[4]]

Orders == {<<1, 2, 3, 4>>, <<4, 1, 2, 3>>, <<3, 4, 2, 1>>}

\* A typed condition finds the documents it reads as, by way of the parser, which
\* must not take >= for >, the request, the strategy, the index and the filter;
\* the clauses behind it may come in any order; and a malformed line is refused.
ShellFinds ==
  \A field \in Names :
    /\ FiledAsRead => \A symbol \in Symbols, value \in DOMAIN Number :
         LET word == Typed(field, symbol, value)
         IN  \E found \in CmdFind(<<word>>) :
               /\ ToSet(found) = Meant(field, symbol, value)
               /\ Len(found) = Cardinality(ToSet(found))
               /\ \A direction \in {"asc", "desc"}, order \in Orders :
                    \E best \in CmdFind(Line(Clauses(field, direction, word), order)) :
                      LET Better(r, s) == IF direction = "asc"
                                            THEN NumOf(r, field) < NumOf(s, field)
                                            ELSE NumOf(r, field) > NumOf(s, field)
                      IN  /\ Len(best) = IF Len(found) < 2 THEN Len(found) ELSE 2
                          /\ \A i \in DOMAIN best, rec \in ToSet(found) :
                               Better(rec, best[i]) => rec \in ToSet(best)
                          /\ Len(best) = 2 => ~ Better(best[2], best[1])
    /\ \A line \in Malformed(field) : CmdFind(line) = {}
==============================================================================
