----------------------------- MODULE CommandLine -----------------------------
(***************************************************************************)
(* cmd/repl.go, the find command: from the words of a typed line to the    *)
(* request that is handed to Find, or to a usage error.  A word is the     *)
(* sequence of its parts: the characters of operators and, between them,   *)
(* names, values and keywords.  Case and spaces are left out.              *)
(***************************************************************************)
EXTENDS Integers, Sequences, SequencesExt

CONSTANT
  Number \* ParseFloat: from the parts that are numbers to what they are

\* An operator, or several parts together, is no number.
ASSUME NumberAssumption ==
  /\ \A part \in DOMAIN Number : Number[part] \in Int
  /\ {"0", "2"} \subseteq DOMAIN Number /\ Number["0"] = 0 /\ Number["2"] = 2
  /\ DOMAIN Number \cap {"=", "<", ">", "joined parts"} = {}

\* A limit must be one of these.
Positive == {part \in DOMAIN Number : Number[part] > 0}

Spelled(parts, op) == [symbol |-> parts, op |-> op]

\* (A mutant of FilterOps: the operators of one character come first.)
FilterOpsShortFirst ==
  << Spelled(<<">">>, "gt"), Spelled(<<"<">>, "lt"), Spelled(<<"=">>, "eq"),
     Spelled(<<">", "=">>, "gte"), Spelled(<<"<", "=">>, "lte") >>

\* The operators in the order in which a word is searched for them.
FilterOps ==
  << Spelled(<<">", "=">>, "gte"), Spelled(<<"<", "=">>, "lte"),
     Spelled(<<">">>, "gt"), Spelled(<<"<">>, "lt"), Spelled(<<"=">>, "eq") >>

\* Several parts together are the name or the value of nothing.
Joined(parts) == IF Len(parts) = 1 THEN parts[1] ELSE "joined parts"

\* Where the symbol stands in the word, 0 if nowhere.
Position(word, symbol) ==
  SelectInSeq([i \in 1..(Len(word) - Len(symbol) + 1) |-> SubSeq(word, i, i + Len(symbol) - 1)],
              LAMBDA parts : parts = symbol)

Before(word, spec) == SubSeq(word, 1, Position(word, spec.symbol) - 1)
After(word, spec) == SubSeq(word, Position(word, spec.symbol) + Len(spec.symbol), Len(word))

\* What a parser makes of its input is a sequence: of one element, or of none for a
\* usage error.
Refused == <<>>

\* parseFilterToken: the first operator that stands in the word with something
\* before and behind it; a number behind it unless it is =, where the text counts.
ParseFilterToken(word) ==
  LET k == SelectInSeq(FilterOps, LAMBDA spec : /\ Position(word, spec.symbol) > 1
                                                /\ After(word, spec) # <<>>)
      spec == FilterOps[k]
      raw == Joined(After(word, spec))
      Filter(value) == [field |-> Joined(Before(word, spec)), op |-> spec.op, value |-> value]
  IN  CASE k = 0 -> Refused
        [] k # 0 /\ spec.op = "eq" -> <<Filter(raw)>>
        [] k # 0 /\ spec.op # "eq" /\ raw \in DOMAIN Number -> <<Filter(Number[raw])>>
        [] OTHER -> Refused

EmptyRequest ==
  [filters |-> <<>>, sortBy |-> "", sortAsc |-> TRUE, limit |-> 0, projection |-> {}]

\* One turn of the loop of cmdFind: the word it is at, with the next one if that is
\* its argument, goes into the request.
ParseTurn(words, s) ==
  LET word == words[s.at]
      argument == Joined(words[s.at + 1])
      req == s.parsed[1]
      filter == ParseFilterToken(word)
      Read(n, parsed) == [at |-> s.at + n, parsed |-> parsed]
  IN  IF s.parsed = Refused \/ s.at > Len(words) THEN s
      ELSE CASE word = <<"sort">> ->
                  Read(2, IF s.at = Len(words) THEN Refused
                          ELSE <<[req EXCEPT !.sortBy = argument]>>)
             [] word = <<"asc">> -> Read(1, <<[req EXCEPT !.sortAsc = TRUE]>>)
             [] word = <<"desc">> -> Read(1, <<[req EXCEPT !.sortAsc = FALSE]>>)
             [] word = <<"limit">> ->
                  Read(2, IF s.at = Len(words) \/ argument \notin Positive THEN Refused
                          ELSE <<[req EXCEPT !.limit = Number[argument]]>>)
             [] OTHER ->
                  Read(1, IF filter = Refused THEN Refused
                          ELSE <<[req EXCEPT !.filters = @ \o filter]>>)

ParseFind(words) ==
  LET turn[n \in 0..Len(words)] ==
        IF n = 0 THEN [at |-> 1, parsed |-> <<EmptyRequest>>] ELSE ParseTurn(words, turn[n - 1])
  IN  turn[Len(words)].parsed
==============================================================================
