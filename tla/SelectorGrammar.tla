--------------------------- MODULE SelectorGrammar --------------------------
(***************************************************************************)
(* The grammar of where clauses that parser.y states, and the sequences of *)
(* up to MaxTokens tokens that it derives                                  *)
(* (src/idp/userstore/selectorconfigparser).                               *)
(***************************************************************************)
EXTENDS Integers, SequencesExt

CONSTANT MaxTokens   \* bound: the length of the derived sequences

ASSUME SelectorGrammarAssumption == MaxTokens \in Nat

Clause == {<<"term">>, <<"term", "CONJUNCTION", "clause">>}

Column ==
  {<<"COLUMN_IDENTIFIER">>,
   <<"COLUMN_OPERATOR", "LEFT_PARENTHESIS", "column", "RIGHT_PARENTHESIS">>,
   <<"DATE_OPERATOR", "LEFT_PARENTHESIS", "date_operator_value", "COMMA", "column",
     "RIGHT_PARENTHESIS">>,
   <<"NUMBER_PART_OPERATOR", "LEFT_PARENTHESIS", "column", "COMMA", "number_part_value",
     "RIGHT_PARENTHESIS">>}

Term == {<<"column", "OPERATOR", "ANY", "value">>, <<"column", "OPERATOR", "value">>,
         <<"column", "null_check">>, <<"LEFT_PARENTHESIS", "clause", "RIGHT_PARENTHESIS">>}

Value == {<<"VALUE_PLACEHOLDER">>, <<"BOOL_VALUE">>, <<"INT_VALUE">>, <<"QUOTED_VALUE">>,
          <<"ARRAY_OPERATOR", "LEFT_BRACKET", "array_value", "RIGHT_BRACKET">>,
          <<"LEFT_PARENTHESIS", "value", "RIGHT_PARENTHESIS">>}

ArrayValue == {<<"value">>, <<"value", "COMMA", "array_value">>}

DateOperatorValue == {<<"VALUE_PLACEHOLDER">>, <<"DATE_ARGUMENT">>,
                      <<"LEFT_PARENTHESIS", "date_operator_value", "RIGHT_PARENTHESIS">>}

NumberPartValue == {<<"VALUE_PLACEHOLDER">>, <<"INT_VALUE">>,
                    <<"LEFT_PARENTHESIS", "number_part_value", "RIGHT_PARENTHESIS">>}

NullCheck == {<<"IS", "NULL">>, <<"IS", "NOT", "NULL">>}

Productions ==
  [clause |-> Clause, column |-> Column, term |-> Term, value |-> Value,
   array_value |-> ArrayValue, date_operator_value |-> DateOperatorValue,
   number_part_value |-> NumberPartValue, null_check |-> NullCheck]

-----------------------------------------------------------------------------
(* What the symbols derive in size tokens, when known[k] says what each       *)
(* nonterminal derives in k.                                               *)
RECURSIVE Derived(_, _, _)
Derived(known, symbols, size) ==
  IF symbols = <<>> THEN IF size = 0 THEN {<<>>} ELSE {}
  ELSE LET rest(k) == Derived(known, Tail(symbols), size - k)
       IN  IF Head(symbols) \in DOMAIN Productions
           THEN UNION {{first \o r : first \in known[k][Head(symbols)], r \in rest(k)} :
                         k \in 1..(size - Len(symbols) + 1)}
           ELSE {<<Head(symbols)>> \o r : r \in rest(1)}

(* A production of one symbol derives nothing shorter than that symbol     *)
(* does: the second round adds what it derives in as many tokens.          *)
Grow(known, size) ==
  LET Round(sofar) == Append(known, [symbol \in DOMAIN Productions |->
                        UNION {Derived(sofar, p, size) : p \in Productions[symbol]}])
  IN  Round(Round(Append(known, [symbol \in DOMAIN Productions |-> {}])))

RECURSIVE Known(_)
Known(size) == IF size = 0 THEN <<>> ELSE Grow(Known(size - 1), size)

Clauses == LET known == Known(MaxTokens)
           IN  UNION {known[k].clause : k \in 1..MaxTokens}

Beginnings == UNION {{SubSeq(c, 1, k) : k \in 0..Len(c)} : c \in Clauses}
=============================================================================
