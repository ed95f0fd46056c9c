-------------------------- MODULE MCSelectorParser --------------------------
(* Clauses for TLC: the examples of the code, and the clauses that begin in *)
(* one way and go on in a few pieces.                                      *)
EXTENDS SelectorParser

From(head, pieces, more) == [head |-> head, pieces |-> pieces, size |-> Len(head) + more]

Id == <<"{", "x", "}">>

MCInputs ==
  {From(Id \o <<" ", "=", " ", "AN", "Y", " ", "(", "?", ")">>, {}, 0),
   From(Id \o <<"-", ">", ">", "'", "x", "'", " ", "LIKE", " ", "?">>, {}, 0),
   \* columns and the operators over them
   From(<<>>, {"{", "x", "}", "=", "?"}, 5),
   From(<<"ABS", "(">>, {"{", "x", "}", ")", "=", "?"}, 6),
   From(Id \o <<"-", ">">>, {">", "'", "x", "=", "?"}, 6),
   From(<<"D", "ATE", "_TRUNC", "(">>, {"'", "day", "x", "?", ",", "(", ")"}, 4),
   From(<<"D", "ATE", "_PART", "(", "'", "day", "'">>, {",", "{", "x", "}", ")", "=", "?"}, 7),
   From(<<"D", "IV", "(">> \o Id, {",", "1", "?", "(", ")", "="}, 7),
   From(Id, {"<", ">", "!", "=", "?"}, 4),
   From(Id, {" ", "LIKE", "?", "AN", "Y", "="}, 6),
   \* values
   From(Id \o <<"=">>, {"1", "?", "-", "::", "BOOL", "EAN", "INT", "EGER", "TRUE"}, 5),
   From(Id \o <<"=">>, {"'", "x", "day", "::", "INT", " "}, 5),
   From(Id \o <<"=", "ARRAY">>, {"[", "]", "1", ",", "?", "(", ")"}, 7),
   \* what follows a term
   From(Id \o <<"=", "?">>, {" ", "NL", "AN", "D", "OR", "Y", "?"}, 5),
   From(Id \o <<"=", "?", " ", "AN", "D", " ">>, {"{", "x", "}", "=", "?", " "}, 6),
   From(<<"(">> \o Id, {" ", "IS", "NOT", "NULL", ")", "OR"}, 6)}
=============================================================================
