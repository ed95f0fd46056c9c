--------------------------- MODULE MCFilterParser ---------------------------
EXTENDS FilterParser

CONSTANTS Arbitrary,  \* bound: the length of the filters that may be anything
          Allowed,    \* bound: the length of the documented filters
          Joint       \* bound: the length of the filters that are joined

AllOf(tokens, n) == UNION {[1 .. k -> tokens] : k \in 0 .. n}

(* One token more with the operators alike and fewer kinds of leaves.      *)
Fewer == {"(", ")", "leaf", "wide", "empty", "odd", "AND"}

MCRequests ==
  {<<f>> : f \in AllOf(Tokens, Arbitrary) \cup AllOf(Fewer, Arbitrary + 1) \cup Plain(Allowed)}
    \cup [1 .. 2 -> Plain(Joint)]
    \cup [1 .. 3 -> Plain(5) \cup {<<>>}]

WideRequests == {<<f>> : f \in DocumentedOf({"leaf", "wide", "empty", "newline"}, Allowed)}
=============================================================================
