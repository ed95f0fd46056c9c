--------------------------- MODULE SelectorParser ---------------------------
(***************************************************************************)
(* ParseWhereClause (src/idp/userstore/selectorconfigparser): whether the  *)
(* where clause of a selector is one.  A goroutine scans the clause with   *)
(* one automaton per token, run side by side, and hands each token over an *)
(* unbuffered channel to an LALR parser driven by tables.                  *)
(***************************************************************************)
EXTENDS SelectorTokens, SelectorGrammar

CONSTANT Inputs   \* what is parsed: [head, pieces, size], the clauses that
                  \* begin with head, go on in pieces, and have up to size

ASSUME SelectorParserAssumption ==
  \A in \in Inputs : /\ in.pieces \subseteq Pieces
                     /\ \A k \in DOMAIN in.head : in.head[k] \in Pieces
                     /\ Len(in.head) <= in.size

-----------------------------------------------------------------------------
(* The parser's tables, indexed from zero, and the names of its tokens:    *)
(* token t of the tables is yyToknames[t].                                 *)
yyToknames ==
  <<"$end", "error", "$unk", "ABS_OPERATOR", "ANY", "ARRAY_OPERATOR", "BOOL_VALUE",
    "COLUMN_IDENTIFIER", "COLUMN_OPERATOR", "COMMA", "CONJUNCTION", "DATE_ARGUMENT",
    "DATE_OPERATOR", "INT_VALUE", "IS", "LEFT_BRACKET", "LEFT_PARENTHESIS", "NOT",
    "NULL", "NUMBER_PART_OPERATOR", "QUOTED_VALUE", "RIGHT_BRACKET",
    "RIGHT_PARENTHESIS", "OPERATOR", "UNKNOWN", "VALUE_PLACEHOLDER">>

yyAct ==
  <<43, 48, 3, 30, 18, 24, 21, 24, 21, 50, 58, 55, 51, 22, 54, 22, 25, 29, 25, 34,
    23, 49, 23, 44, 32, 20, 12, 20, 47, 33, 45, 39, 28, 16, 19, 10, 52, 41, 31, 5,
    6, 38, 35, 46, 7, 5, 6, 15, 4, 37, 7, 8, 14, 56, 57, 36, 9, 8, 27, 26, 1, 53,
    42, 40, 11, 13, 2, 0, 0, 0, 17>>

yyPact ==
  <<31, -1000, 45, 11, 31, -1000, 35, 30, 16, 31, -1, -1000, 40, 9, 37, 12, 37,
    -1000, 1, -1000, -1000, -1000, -1000, -1000, 39, 1, -1000, 22, -1000, 8, 53,
    -1000, -1000, 12, 52, -1000, 1, 7, -1000, -1000, 37, 5, -5, 14, 51, -1000, -9,
    -1000, -12, -1000, -1000, -5, -1000, 1, -1000, -1000, -13, -1000, -1000>>

yyPgo ==
  <<0, 60, 66, 2, 3, 1, 23, 64, 0>>

yyR1 ==
  <<0, 1, 1, 3, 3, 3, 3, 2, 2, 2, 2, 6, 6, 6, 6, 6, 6, 8, 8, 4, 4, 4, 5, 5, 5, 7,
    7>>

yyR2 ==
  <<0, 1, 3, 1, 4, 6, 6, 4, 3, 2, 3, 1, 1, 1, 1, 4, 3, 1, 3, 1, 1, 3, 1, 1, 3, 2,
    3>>

yyChk ==
  <<-1000, -1, -2, -3, 17, 8, 9, 13, 20, 11, 24, -7, 15, -1, 17, 17, 17, -1, 5, -6,
    26, 7, 14, 21, 6, 17, 19, 18, 23, -3, -4, 26, 12, 17, -3, -6, 16, -6, 19, 23,
    10, -4, 10, -8, -6, 23, -3, 23, -5, 26, 14, 17, 22, 10, 23, 23, -5, -8, 23>>

yyDef ==
  <<0, -2, 1, 0, 0, 3, 0, 0, 0, 0, 0, 9, 0, 0, 0, 0, 0, 2, 0, 8, 11, 12, 13, 14, 0,
    0, 25, 0, 10, 0, 0, 19, 20, 0, 0, 7, 0, 0, 26, 4, 0, 0, 0, 0, 17, 16, 0, 21, 0,
    22, 23, 0, 15, 0, 5, 6, 0, 18, 24>>

At(table, i) == table[i + 1]
yyFlag == -1000
yyLast == 71
EndOfClause == 1
ErrorToken == 2

Number(name) == CHOOSE t \in DOMAIN yyToknames : yyToknames[t] = name

(* Whether state s shifts token t, and to which state.                     *)
Entry(s, t) == At(yyPact, s) + t
Shifts(s, t) == /\ At(yyPact, s) > yyFlag
                /\ Entry(s, t) \in 0..(yyLast - 1)
                /\ At(yyChk, At(yyAct, Entry(s, t))) = t
ShiftTo(s, t) == At(yyAct, Entry(s, t))

(* What state s does with token t otherwise: the number of a production to *)
(* reduce by, 0 for an error, -1 to accept.                                *)
Default(s, t) == IF At(yyDef, s) # -2 THEN At(yyDef, s)
                 ELSE IF t = EndOfClause THEN -1 ELSE 0

GoTo(s, nonterminal) ==
  LET g == At(yyPgo, nonterminal)
      j == g + s + 1
  IN  IF j < yyLast /\ At(yyChk, At(yyAct, j)) = -nonterminal THEN At(yyAct, j)
      ELSE At(yyAct, g)

-----------------------------------------------------------------------------
VARIABLES
  input,    \* what is parsed
  text,     \* the pieces read of it so far
  atEOF,
  buf,      \* those of them after the last match
  n,        \* how many of buf the automata have read
  live,     \* the automata that are not stuck, each with its state
  matchi,   \* the match so far: which automaton, and how much of buf
  matchn,
  scanner,  \* "scanning"; "sending" the match; "last", sending the end; "done"
  stack,    \* the states of the parser
  char,     \* the token it looks at, 0 for none
  answer    \* "none", "accepted" or "refused"

scan == <<text, atEOF, buf, n, live, matchi, matchn>>
vars == <<input, scan, scanner, stack, char, answer>>

Init ==
  /\ input \in Inputs
  /\ text = <<>> /\ atEOF = FALSE /\ buf = <<>>
  /\ n = 0 /\ live = dfas /\ matchi = 0 /\ matchn = -1
  /\ scanner = "scanning"
  /\ stack = <<0>> /\ char = 0 /\ answer = "none"

(* Wrong variant: a match stands when a longer one is found.               *)
Step_FirstMatch(p) ==
  LET states == Moved(live, p)
      accepting == {i \in DOMAIN states : states[i] \in Final}
  IN  /\ n' = n + 1
      /\ live' = states
      /\ IF accepting = {} \/ matchn # -1 THEN UNCHANGED <<matchi, matchn>>
         ELSE matchi' = Min(accepting) /\ matchn' = n + 1

(* The automata read p, piece n + 1 of buf.  One that accepts beats every  *)
(* shorter match; of several, the first in dfas does.                      *)
Step(p) ==
  LET states == Moved(live, p)
      accepting == {i \in DOMAIN states : states[i] \in Final}
  IN  /\ n' = n + 1
      /\ live' = states
      /\ IF accepting = {} THEN UNCHANGED <<matchi, matchn>>
         ELSE matchi' = Min(accepting) /\ matchn' = n + 1

(* The next piece of the clause, or its end, and with it of the automata.  *)
Read ==
  /\ scanner = "scanning" /\ live # <<>> /\ n = Len(buf) /\ ~atEOF
  /\ \/ \E p \in IF Len(text) < Len(input.head) THEN {input.head[Len(text) + 1]}
                  ELSE IF Len(text) < input.size THEN input.pieces ELSE {} :
          /\ text' = Append(text, p) /\ buf' = Append(buf, p)
          /\ Step(p) /\ UNCHANGED atEOF
     \/ /\ Len(text) >= Len(input.head)
        /\ atEOF' = TRUE /\ live' = <<>>
        /\ UNCHANGED <<text, buf, n, matchi, matchn>>
  /\ UNCHANGED <<input, scanner, stack, char, answer>>

(* A piece that was read before the last match ended.                      *)
Reread ==
  /\ scanner = "scanning" /\ live # <<>> /\ n < Len(buf)
  /\ Step(buf[n + 1])
  /\ UNCHANGED <<input, text, atEOF, buf, scanner, stack, char, answer>>

(* Wrong variant: what was read after the match is dropped with it.        *)
Match_DropsRest ==
  /\ scanner = "scanning" /\ live = <<>>
  /\ scanner' = IF matchn = -1 THEN "last" ELSE "sending"
  /\ buf' = <<>> /\ matchn' = -1
  /\ UNCHANGED <<input, text, atEOF, n, live, matchi, stack, char, answer>>

(* All automata are stuck.  There is always a match, as UNKNOWN matches    *)
(* any piece, unless nothing is left.                                      *)
Match ==
  /\ scanner = "scanning" /\ live = <<>>
  /\ IF matchn = -1 THEN buf = <<>> /\ scanner' = "last" /\ UNCHANGED buf
     ELSE scanner' = "sending" /\ buf' = SubSeq(buf, matchn + 1, Len(buf))
  /\ matchn' = -1
  /\ UNCHANGED <<input, text, atEOF, n, live, matchi, stack, char, answer>>

Top == stack[Len(stack)]

AsksForToken == /\ answer = "none" /\ char = 0
                /\ At(yyPact, Top) > yyFlag \/ At(yyDef, Top) = -2

(* Wrong variant: a scanner that has met the end does not send it.         *)
Lex_NoEnd ==
  /\ AsksForToken /\ scanner = "sending"
  /\ char' = IF Tokens[matchi] = "BLANKS" THEN 0 ELSE Number(Tokens[matchi])
  /\ IF atEOF THEN scanner' = "done" /\ UNCHANGED <<n, live>>
     ELSE scanner' = "scanning" /\ n' = 0 /\ live' = dfas
  /\ UNCHANGED <<input, text, atEOF, buf, matchi, matchn, stack, answer>>

(* Lex takes a match from the channel, and passes blanks over.  The        *)
(* scanner goes on, unless it has met the end of the clause: then it sends *)
(* the end, whatever is left in buf.                                       *)
Lex ==
  /\ AsksForToken
  /\ \/ /\ scanner = "sending"
        /\ char' = IF Tokens[matchi] = "BLANKS" THEN 0 ELSE Number(Tokens[matchi])
        /\ IF atEOF THEN scanner' = "last" /\ UNCHANGED <<n, live>>
           ELSE scanner' = "scanning" /\ n' = 0 /\ live' = dfas
     \/ /\ scanner = "last" /\ scanner' = "done"
        /\ char' = EndOfClause
        /\ UNCHANGED <<n, live>>
  /\ UNCHANGED <<input, text, atEOF, buf, matchi, matchn, stack, answer>>

Shift ==
  /\ answer = "none" /\ char # 0 /\ Shifts(Top, char)
  /\ stack' = Append(stack, ShiftTo(Top, char))
  /\ char' = 0
  /\ UNCHANGED <<input, scan, scanner, answer>>

Reduce ==
  /\ answer = "none" /\ ~AsksForToken /\ ~Shifts(Top, char)
  /\ LET production == Default(Top, char)
         rest == SubSeq(stack, 1, Len(stack) - At(yyR2, production))
     IN  /\ production > 0
         /\ stack' = Append(rest, GoTo(rest[Len(rest)], At(yyR1, production)))
  /\ UNCHANGED <<input, scan, scanner, char, answer>>

Accept ==
  /\ answer = "none" /\ ~AsksForToken /\ ~Shifts(Top, char)
  /\ Default(Top, char) = -1
  /\ answer' = "accepted"
  /\ UNCHANGED <<input, scan, scanner, stack, char>>

(* An error: no state of the stack shifts the error token, so the parser   *)
(* pops them all and gives up.                                             *)
Refuse ==
  /\ answer = "none" /\ ~AsksForToken /\ ~Shifts(Top, char)
  /\ Default(Top, char) = 0
  /\ \A k \in DOMAIN stack : ~Shifts(stack[k], ErrorToken)
  /\ answer' = "refused" /\ stack' = <<>>
  /\ UNCHANGED <<input, scan, scanner, char>>

Scanner == Read \/ Reread \/ Match
Parser == Lex \/ Shift \/ Reduce \/ Accept \/ Refuse

Next == Scanner \/ Parser

Spec == Init /\ [][Next]_vars /\ WF_vars(Scanner) /\ WF_vars(Parser)

-----------------------------------------------------------------------------
IsClause(s) == \E reading \in Readings(s) : TokensOf(reading) \in Clauses

(* What ParseWhereClause accepts is a clause of parser.y in some reading   *)
(* of its text, but for an end that the scanner drops: one that makes the  *)
(* last token the beginning of a longer one that the text then does not    *)
(* finish.  And the goroutine of the scanner has ended.                    *)
AcceptsOnlyClauses ==
  answer = "accepted" =>
    /\ scanner = "done" /\ atEOF
    /\ \E m \in 1..Len(text) :
         /\ IsClause(SubSeq(text, 1, m))
         /\ m < Len(text) => \E k \in 1..m : BeginsToken(SubSeq(text, k, Len(text)))

(* A reading in which every token is the longest there, and a quoted part  *)
(* of a date is not a value.                                               *)
Plain(reading) ==
  \A k \in DOMAIN reading :
    /\ k < Len(reading) /\ reading[k].token = "BLANKS" =>
         reading[k + 1].text[1] \notin Blanks
    /\ reading[k].token = "QUOTED_VALUE" => reading[k].text \notin {<<"'", d, "'">> : d \in DateParts}

(* What the parser has been given: all that is read but what the scanner   *)
(* has kept, unless it was given the end.                                  *)
Given == IF char = EndOfClause THEN text ELSE SubSeq(text, 1, Len(text) - Len(buf))

Possible(reading) ==
  TokensOf(reading) \in IF char = EndOfClause THEN Clauses ELSE Beginnings

(* What is refused begins no clause of parser.y, however it is divided     *)
(* into tokens, as long as that is plain; and is none, at its end.         *)
RefusesOnlyInvalid ==
  answer = "refused" =>
    \A reading \in Readings(Given) : Plain(reading) => ~Possible(reading)

(* Neither the scanner nor the parser waits for the other forever: every   *)
(* clause is answered.                                                     *)
EveryClauseAnswered == <>(answer # "none")

(* Departures, which fail.  A clause that is accepted is one, whole; one   *)
(* that is refused is none, in any reading; and no goroutine is left.      *)
AcceptsOnlyWhole == answer = "accepted" => IsClause(text)
RefusesOnlyUnreadable ==
  answer = "refused" => \A reading \in Readings(Given) : ~Possible(reading)
ScannerEnds == <>(scanner = "done")
=============================================================================
