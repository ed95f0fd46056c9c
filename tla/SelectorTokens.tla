--------------------------- MODULE SelectorTokens ---------------------------
(***************************************************************************)
(* The tokens of a where clause and the automata of lexer.go that match    *)
(* them (src/idp/userstore/selectorconfigparser).                          *)
(*                                                                         *)
(* A clause is a sequence of pieces: a character, or a run of letters that *)
(* the automata read only together.  No piece begins another.              *)
(***************************************************************************)
EXTENDS Integers, SequencesExt

Lower == {"x", "abs", "char_length", "character_length", "lower", "upper", "date_part",
          "date_trunc", "div", "mod", "is", "not", "null", "false", "true", "array",
          "any", "and", "or", "like", "ilike", "day", "dow", "doy", "epoch", "hour",
          "microseconds", "milliseconds", "minute", "month", "second", "timezone",
          "week", "year"}
Upper == {"TEXT", "ABS", "CHAR", "ACTER", "LOWER", "UPPER", "D", "ATE", "IV", "MOD",
          "LIKE", "ILIKE", "IS", "NOT", "NULL", "FALSE", "TRUE", "BOOL", "EAN", "INT",
          "EGER", "ARRAY", "AN", "Y", "OR"}
Digits == {"0", "1", "7"}
Blanks == {" ", "NL"}
Names == Lower \union Upper \union Digits \union {"_LENGTH", "_PART", "_TRUNC", "-"}
Pieces == Names \union Blanks \union
          {"{", "}", ">", "'", "(", ")", "[", "]", ",", "?", "=", "<", "!", "+", "::"}

-----------------------------------------------------------------------------
(* Regular expressions, for the automata: a state of an automaton is the   *)
(* expression of what may still follow.                                    *)
Nothing == [kind |-> "nothing"]        \* no text at all: the automaton is stuck
Empty == [kind |-> "empty"]
OneOf(S) == [kind |-> "one", pieces |-> S]
Some(r) == [kind |-> "some", body |-> r]  \* once or more

Then(r, s) == CASE r.kind = "nothing" -> Nothing
                [] s.kind = "nothing" -> Nothing
                [] r.kind = "empty" -> s
                [] OTHER -> [kind |-> "then", first |-> r, next |-> s]

Or(r, s) == CASE r.kind = "nothing" -> s
              [] s.kind = "nothing" \/ r = s -> r
              [] OTHER -> [kind |-> "or", first |-> r, next |-> s]

Maybe(r) == Or(r, Empty)

RECURSIVE Word(_)
Word(ps) == IF ps = <<>> THEN Empty ELSE Then(OneOf({Head(ps)}), Word(Tail(ps)))

RECURSIVE AnyWord(_)
AnyWord(S) == IF S = {} THEN Nothing
              ELSE LET ps == CHOOSE ps \in S : TRUE
                   IN  Or(Word(ps), AnyWord(S \ {ps}))

RECURSIVE Accepting(_)
Accepting(r) == CASE r.kind = "empty" -> TRUE
                  [] r.kind = "then" -> Accepting(r.first) /\ Accepting(r.next)
                  [] r.kind = "or" -> Accepting(r.first) \/ Accepting(r.next)
                  [] r.kind = "some" -> Accepting(r.body)
                  [] OTHER -> FALSE

RECURSIVE After(_, _)
After(r, p) ==
  CASE r.kind = "one" -> IF p \in r.pieces THEN Empty ELSE Nothing
    [] r.kind = "or" -> Or(After(r.first, p), After(r.next, p))
    [] r.kind = "some" -> Then(After(r.body, p), Maybe(r))
    [] r.kind = "then" ->
         Or(Then(After(r.first, p), r.next),
            IF Accepting(r.first) THEN After(r.next, p) ELSE Nothing)
    [] OTHER -> Nothing

-----------------------------------------------------------------------------
(* The tokens.                                                             *)
Quoted(r) == Then(Word(<<"'">>), Then(r, Word(<<"'">>)))

COLUMN_IDENTIFIER ==
  Then(Word(<<"{">>), Then(Some(OneOf(Names)), Then(Word(<<"}">>),
       Maybe(Then(Word(<<"-", ">", ">">>), Quoted(Some(OneOf(Names))))))))

COLUMN_OPERATOR ==
  AnyWord({<<"ABS">>, <<"abs">>, <<"CHAR", "_LENGTH">>, <<"char_length">>,
           <<"CHAR", "ACTER", "_LENGTH">>, <<"character_length">>,
           <<"LOWER">>, <<"lower">>, <<"UPPER">>, <<"upper">>})

COMMA == Word(<<",">>)

DateParts == {"day", "dow", "doy", "epoch", "hour", "microseconds", "milliseconds",
              "minute", "month", "second", "timezone", "week", "year"}
DATE_ARGUMENT == Quoted(OneOf(DateParts))

DATE_OPERATOR == AnyWord({<<"D", "ATE", "_PART">>, <<"date_part">>,
                          <<"D", "ATE", "_TRUNC">>, <<"date_trunc">>})

NUMBER_PART_OPERATOR == AnyWord({<<"D", "IV">>, <<"div">>, <<"MOD">>, <<"mod">>})

OPERATOR == Or(AnyWord({<<"=">>, <<"<", "=">>, <<">", "=">>, <<"<">>, <<">">>, <<"!", "=">>}),
               AnyWord({<<" ", w, " ">> : w \in {"LIKE", "like", "ILIKE", "ilike"}}))

IS == AnyWord({<<"IS">>, <<"is">>})

NOT == AnyWord({<<"NOT">>, <<"not">>})

NULL == AnyWord({<<"NULL">>, <<"null">>})

VALUE_PLACEHOLDER == Word(<<"?">>)

BoolCast == Then(Word(<<"::", "BOOL">>), Maybe(Word(<<"EAN">>)))
BOOL_VALUE == Then(Or(OneOf({"FALSE", "false", "TRUE", "true"}),
                      Then(OneOf({"0", "1"}), BoolCast)),
                   Maybe(BoolCast))

INT_VALUE == Then(Maybe(OneOf({"-", "+"})),
                  Then(Some(OneOf(Digits)),
                       Maybe(Then(Word(<<"::", "INT">>), Maybe(Word(<<"EGER">>))))))

ARRAY_OPERATOR == AnyWord({<<"ARRAY">>, <<"array">>})

LEFT_BRACKET == Word(<<"[">>)

RIGHT_BRACKET == Word(<<"]">>)

QUOTED_VALUE == Then(Quoted(Some(Or(OneOf(Pieces \ {"'"}), Word(<<"'", "'">>)))),
                     Maybe(Then(Word(<<"::">>), Some(OneOf(Upper)))))

ANY == AnyWord({<<"AN", "Y">>, <<"any">>})

CONJUNCTION == AnyWord({<<" ", "AN", "D", " ">>, <<" ", "and", " ">>,
                        <<" ", "OR", " ">>, <<" ", "or", " ">>})

LEFT_PARENTHESIS == Word(<<"(">>)

RIGHT_PARENTHESIS == Word(<<")">>)

BLANKS == Some(OneOf(Blanks))

(* One character.  No clause goes on after it, so what is left of a piece  *)
(* of several is not told apart.                                           *)
UNKNOWN == OneOf(Pieces)

(* The automata, in the order that decides between matches of one length.  *)
dfas == <<COLUMN_IDENTIFIER, COLUMN_OPERATOR, COMMA, DATE_ARGUMENT, DATE_OPERATOR,
          NUMBER_PART_OPERATOR, OPERATOR, IS, NOT, NULL, VALUE_PLACEHOLDER, BOOL_VALUE,
          INT_VALUE, ARRAY_OPERATOR, LEFT_BRACKET, RIGHT_BRACKET, QUOTED_VALUE, ANY,
          CONJUNCTION, LEFT_PARENTHESIS, RIGHT_PARENTHESIS, BLANKS, UNKNOWN>>

(* What Lex makes of a match of the i-th automaton.                        *)
Tokens == <<"COLUMN_IDENTIFIER", "COLUMN_OPERATOR", "COMMA", "DATE_ARGUMENT",
            "DATE_OPERATOR", "NUMBER_PART_OPERATOR", "OPERATOR", "IS", "NOT", "NULL",
            "VALUE_PLACEHOLDER", "BOOL_VALUE", "INT_VALUE", "ARRAY_OPERATOR",
            "LEFT_BRACKET", "RIGHT_BRACKET", "QUOTED_VALUE", "ANY", "CONJUNCTION",
            "LEFT_PARENTHESIS", "RIGHT_PARENTHESIS", "BLANKS", "UNKNOWN">>

(* The automata: their states, which of them accept, and their transitions.*)
RECURSIVE Closure(_, _)
Closure(done, fresh) ==
  IF fresh = {} THEN done
  ELSE LET found == {After(r, p) : r \in fresh, p \in Pieces} \ {Nothing}
       IN  Closure(done \union fresh, found \ (done \union fresh))

States == Closure({}, Range(dfas))
Final == {r \in States : Accepting(r)}
Transitions == [r \in States |-> [p \in Pieces |-> After(r, p)]]

Moved(states, p) ==
  [i \in {j \in DOMAIN states : Transitions[states[j]][p] # Nothing} |-> Transitions[states[i]][p]]

(* The texts from piece k of s that some automaton matches: which one, and *)
(* the last piece of it.  A reading of s divides it into such texts, in    *)
(* any way.                                                                *)
RECURSIVE Matches(_, _, _)
Matches(states, s, k) ==
  IF k > Len(s) \/ states = <<>> THEN {}
  ELSE LET now == Moved(states, s[k])
       IN  {<<i, k>> : i \in {j \in DOMAIN now : now[j] \in Final}}
             \union Matches(now, s, k + 1)

RECURSIVE ReadingsFrom(_, _)
ReadingsFrom(s, k) ==
  IF k > Len(s) THEN {<<>>}
  ELSE UNION {{<<[token |-> Tokens[m[1]], text |-> SubSeq(s, k, m[2])]>> \o r :
                  r \in ReadingsFrom(s, m[2] + 1)} :
                m \in {x \in Matches(dfas, s, k) : Tokens[x[1]] # "UNKNOWN"}}
Readings(s) == ReadingsFrom(s, 1)

TokensOf(reading) ==
  LET kept == SelectSeq(reading, LAMBDA m : m.token # "BLANKS")
  IN  [k \in DOMAIN kept |-> kept[k].token]

(* Whether s begins a text that some automaton matches.                    *)
BeginsToken(s) == FoldLeft(Moved, dfas, s) # <<>>
=============================================================================
