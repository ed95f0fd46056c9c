---------------------------- MODULE FilterParser ----------------------------
(***************************************************************************)
(* How a Paginator gets its filter (infra/pagination): the options         *)
(* Filter(f) are applied one after the other, each joined to what is there *)
(* with AND, and ApplyOptions parses the result into a tree of FilterQuery *)
(* nodes (filter_parser.go, filter_query.go).  The options may be applied  *)
(* again, to the Paginator of another call.                                *)
(*                                                                         *)
(* A filter is a sequence of tokens.  A leaf is a text 'KEY',OP,'VALUE',   *)
(* and comes in the kinds the expression leafFilter tells apart, below;    *)
(* "other" is text that begins no token.  Keys and values hold no commas,  *)
(* parentheses or unescaped quotes.  The two children that hold a leaf's   *)
(* key and value are left out of the tree: no step of the parser looks at  *)
(* them.                                                                   *)
(***************************************************************************)
EXTENDS Naturals, Sequences, FiniteSets

CONSTANTS Requests,  \* sequences of filters that options may give a Paginator
          Reusable   \* bound: how long a filter is applied again

Leaves ==
  {"leaf",     \* a plain one: its value ASCII, none of what follows
   "wide",     \* with a character that takes two bytes in its value
   "empty",    \* the value is empty
   "slash",    \* the value ends in a backslash
   "newline",  \* a line break in the value (none has one as its last character)
   "unknown",  \* the operator is of capitals, but it or the key is refused
   "odd"}      \* the operator is not of capitals
Tokens == Leaves \cup {"(", ")", "AND", "OR", "other"}

ASSUME FilterParserAssumption ==
  /\ Requests \subseteq Seq(Seq(Tokens))
  /\ Reusable \in Nat

VARIABLES
  options,  \* the filters the options give, which applying them changes
  applied,  \* how many of them have been applied
  filter,   \* the filter so far
  nodes,    \* the tree, its nodes in the order they were made
  fq,       \* the node the parser is at
  pos,      \* the token it is at
  verdict   \* "options", "parsing", "parsed", "error" or "unfiltered"

vars == <<options, applied, filter, nodes, fq, pos, verdict>>

None == 0
Root == 1
Values == {"root", "nested", "leaf", "AND", "OR"}
Node == [value : Values, parent : Nat, left : Nat, right : Nat]
NewNode(value, parent) == [value |-> value, parent |-> parent, left |-> None, right |-> None]

Init ==
  /\ options \in Requests
  /\ applied = 0
  /\ filter = <<>>
  /\ nodes = <<NewNode("root", None)>>
  /\ fq = Root
  /\ pos = 1
  /\ verdict = "options"

-----------------------------------------------------------------------------
Joined(f, g) ==
  CASE g = <<>> -> f
    [] f = <<>> -> g
    [] OTHER    -> <<"(">> \o f \o <<"AND">> \o g \o <<")">>

(* The option keeps what it has made of its filter for the next time.      *)
Filter ==
  /\ verdict = "options" /\ applied < Len(options)
  /\ applied' = applied + 1
  /\ filter' = Joined(filter, options[applied'])
  /\ options' = [options EXCEPT ![applied'] = IF @ = <<>> THEN @ ELSE filter']
  /\ UNCHANGED <<nodes, fq, pos, verdict>>

(* No filter is not parsed. *)
CreateFilterQuery ==
  /\ verdict = "options" /\ applied = Len(options)
  /\ verdict' = IF filter = <<>> THEN "unfiltered" ELSE "parsing"
  /\ UNCHANGED <<options, applied, filter, nodes, fq, pos>>

-----------------------------------------------------------------------------
isRoot(tree, n) == tree[n].parent = None
isNested(tree, n) == tree[n].value = "nested"

(* Wrong variant: the new node is not told its parent. *)
addChild_Orphan(value) ==
  /\ nodes' = Append([nodes EXCEPT ![fq] = IF @.left = None THEN [@ EXCEPT !.left = Len(nodes) + 1]
                                                            ELSE [@ EXCEPT !.right = Len(nodes) + 1]],
                     NewNode(value, None))
  /\ fq' = Len(nodes) + 1

(* The second child and every later one is the right one. *)
addChild(value) ==
  /\ nodes' = Append([nodes EXCEPT ![fq] = IF @.left = None THEN [@ EXCEPT !.left = Len(nodes) + 1]
                                                            ELSE [@ EXCEPT !.right = Len(nodes) + 1]],
                     NewNode(value, fq))
  /\ fq' = Len(nodes) + 1

(* Wrong variant: the children stay where they were. *)
rotateLeft_Childless(value) ==
  nodes' = Append([nodes EXCEPT ![fq] = [@ EXCEPT !.value = value, !.left = Len(nodes) + 1, !.right = None]],
                  NewNode(nodes[fq].value, fq))

(* The operator takes the node's place and the node becomes its left child *)
(* (its own children go on naming the node they knew as their parent).     *)
rotateLeft(value) ==
  nodes' = Append([nodes EXCEPT ![fq] = [@ EXCEPT !.value = value, !.left = Len(nodes) + 1, !.right = None]],
                  [nodes[fq] EXCEPT !.parent = fq])

(* Wrong variant: the node itself counts. *)
findAncestor_OrSelf(tree) ==
  LET up[n \in 1 .. Len(tree)] ==
        IF isRoot(tree, n) \/ isNested(tree, n) THEN n ELSE up[tree[n].parent]
  IN  up[fq]

(* The nearest nested node above, or the root. *)
findAncestor(tree) ==
  LET up[n \in 1 .. Len(tree)] ==
        IF isRoot(tree, n) THEN n
        ELSE IF isNested(tree, tree[n].parent) THEN tree[n].parent ELSE up[tree[n].parent]
  IN  up[fq]

-----------------------------------------------------------------------------
Parsing(token) == verdict = "parsing" /\ pos <= Len(filter) /\ filter[pos] = token
Advance(n) == pos' = pos + n /\ UNCHANGED <<options, applied, filter, verdict>>
Fail == verdict' = "error" /\ UNCHANGED <<options, applied, filter, nodes, fq, pos>>

parseStartNested == Parsing("(") /\ addChild("nested") /\ Advance(1)

(* Wrong variant: it does not matter that nothing was open. *)
Closes_Anything(n) == TRUE
Closes(n) == ~ isRoot(nodes, n)

parseEndNested ==
  /\ Parsing(")")
  /\ IF Closes(findAncestor(nodes))
       THEN fq' = findAncestor(nodes) /\ Advance(1) /\ UNCHANGED nodes
       ELSE Fail

(* The expression is not anchored: it takes the first text of its form.    *)
(* That ends at the first quote that a ")" follows, neither with a         *)
(* backslash before it nor the one that opens the value, so that a leaf    *)
(* may take in others; and it goes beyond no line break.                   *)
Closings(i) == {j \in i .. Len(filter) - 1 :
                  /\ filter[j] \in Leaves \ {"slash"} /\ filter[j + 1] = ")"
                  /\ \A k \in i .. j : filter[k] # "newline"}
LeafEnds(i) == Closings(i) \ IF filter[i] = "empty" THEN {i} ELSE {}

(* From a value it does not get into it may take a key of that value, and  *)
(* the logical operator that follows for the leaf's.                       *)
Misread(i) == /\ i + 2 <= Len(filter)
              /\ filter[i + 1] \in {"AND", "OR"} /\ filter[i + 2] \in Leaves
              /\ Closings(i + 2) # {}
Matches == {i \in pos .. Len(filter) :
              IF filter[i] \in {"odd", "newline"} THEN Misread(i)
                                                 ELSE filter[i] \in Leaves /\ LeafEnds(i) # {}}
Least(S) == CHOOSE i \in S : \A j \in S : i <= j
LeafStart == Least(Matches)
LeafEnd == Least(LeafEnds(LeafStart))

Recognised == Matches # {} /\ filter[LeafStart] \notin {"odd", "newline", "unknown"}

(* The parser splits the filter into characters and advances by the bytes  *)
(* of the leaf, so that it skips what follows: one character for each two- *)
(* byte one in the leaf.  Past the end that is the end; inside a longer    *)
(* token (all but parentheses are) it finds nothing it knows.  Of a leaf   *)
(* found further on it advances by as much from where it stands, and may   *)
(* get to the beginning of any token in between, or to no beginning.       *)
Skipped == LeafEnd + 1 .. LeafEnd + Cardinality({i \in LeafStart .. LeafEnd : filter[i] = "wide"})
Landings ==
  IF LeafStart > pos THEN pos + 1 .. LeafEnd
  ELSE {n \in {LeafEnd + 1 + Cardinality(Skipped \cap DOMAIN filter)} :
          \A i \in Skipped : i <= Len(filter) => filter[i] \in {"(", ")"}}

parseLeaf ==
  /\ \E leaf \in Leaves : Parsing(leaf)
  /\ IF isNested(nodes, fq) /\ Recognised
       THEN \/ \E n \in Landings : addChild("leaf") /\ Advance(n - pos)
            \/ (LeafStart > pos \/ Landings = {}) /\ Fail
       ELSE Fail

parseLogical ==
  \E operator \in {"AND", "OR"} :
    /\ Parsing(operator)
    /\ IF isRoot(nodes, fq) THEN Fail
                            ELSE rotateLeft(operator) /\ Advance(1) /\ UNCHANGED fq

parseUnexpected == Parsing("other") /\ Fail

(* The filter is used up: it must have come back to the child of the root. *)
EndParse ==
  /\ verdict = "parsing" /\ pos > Len(filter)
  /\ verdict' = IF isRoot(nodes, nodes[fq].parent) THEN "parsed" ELSE "error"
  /\ UNCHANGED <<options, applied, filter, nodes, fq, pos>>

(* The same options give the Paginator of the next call. *)
ApplyAgain ==
  /\ verdict \in {"parsed", "error", "unfiltered"}
  /\ Len(filter) <= Reusable
  /\ applied' = 0 /\ filter' = <<>>
  /\ nodes' = <<NewNode("root", None)>> /\ fq' = Root /\ pos' = 1
  /\ verdict' = "options"
  /\ UNCHANGED options

Next ==
  \/ Filter \/ CreateFilterQuery \/ ApplyAgain
  \/ parseStartNested \/ parseEndNested \/ parseLeaf \/ parseLogical \/ parseUnexpected
  \/ EndParse

Spec == Init /\ [][Next]_vars

-----------------------------------------------------------------------------
(* The filters options.go:28 allows, by their length: a leaf, a filter in  *)
(* parentheses, and several joined by operators in parentheses.            *)
DocumentedOf(leaves, max) ==
  LET Of[n \in 0 .. max] ==
        LET one == {<<"(">> \o f \o <<")">> : f \in IF n < 3 THEN {} ELSE Of[n - 2].several}
                     \cup IF n = 3 THEN {<<"(", leaf, ")">> : leaf \in leaves} ELSE {}
        IN  [one     |-> one,
             several |-> one \cup
               UNION {{f \o <<operator>> \o g : f \in Of[k].one, g \in Of[n - k - 1].several,
                                                operator \in {"AND", "OR"}} : k \in 1 .. n - 2}]
  IN  UNION {Of[n].one : n \in 0 .. max}
Plain(max) == DocumentedOf({"leaf"}, max)

(* What a tree says, read from left to right. *)
Reading ==
  LET Of[n \in 0 .. Len(nodes)] ==
        IF n = None THEN <<>>
        ELSE CASE nodes[n].value = "root"   -> Of[nodes[n].left] \o Of[nodes[n].right]
               [] nodes[n].value = "nested" -> <<"(">> \o Of[nodes[n].left] \o Of[nodes[n].right] \o <<")">>
               [] nodes[n].value = "leaf"   -> <<"leaf">>
               [] OTHER -> Of[nodes[n].left] \o <<nodes[n].value>> \o Of[nodes[n].right]
  IN  Of[Root]

(* The nodes form one tree: the root alone has no parent, so no walk up    *)
(* from any node runs into a nil pointer, and the other links lead down    *)
(* to nodes that exist.                                                    *)
TypeOK ==
  /\ options \in Seq(Seq(Tokens)) /\ applied \in 0 .. Len(options) /\ filter \in Seq(Tokens)
  /\ nodes \in Seq(Node)
  /\ \A n \in 1 .. Len(nodes) :
       /\ nodes[n].parent \in IF n = Root THEN {None} ELSE 1 .. Len(nodes)
       /\ {nodes[n].left, nodes[n].right} \subseteq 0 .. Len(nodes)
  /\ fq \in 1 .. Len(nodes)
  /\ pos \in 1 .. Len(filter) + 1
  /\ verdict \in {"options", "parsing", "parsed", "error", "unfiltered"}

(* The test at the end of parse asks the parent of the current node        *)
(* whether it is the root (filter_parser.go:63): the parser must never     *)
(* stand on the root itself by then, whose parent is nil.                  *)
EndsBelowTheRoot == verdict = "parsing" /\ pos > 1 => fq # Root

(* Whatever options are put together, if each gives a filter of the        *)
(* documented form (or none) in which every value is plain, that is ASCII, *)
(* not empty, without a line break and with no backslash at its end, the   *)
(* parser accepts the whole (options.go:28, filter_parser.go:76).          *)
AcceptsThePlain ==
  verdict = "error" =>
    \E i \in 1 .. applied : options[i] \notin Plain(Len(options[i])) \cup {<<>>}

(* The same of all that the documentation allows, which excludes nothing   *)
(* from a value but quotes that are not escaped, and lets it be empty or,  *)
(* of a nullable key, unspecified (options.go:50).                         *)
AcceptsAllDocumented ==
  verdict = "error" =>
    \E i \in 1 .. applied :
      options[i] \notin DocumentedOf({"leaf", "wide", "empty", "newline"}, Len(options[i])) \cup {<<>>}

(* An option gives the same filter to every Paginator: Filter returns a    *)
(* closure over its argument, which it assigns to (options.go:107).        *)
OptionsKept == [][options' = options]_vars

(* The tree of an accepted filter of the documented form, with plain       *)
(* values, says what the filter says, in its order and with its            *)
(* parentheses: rotations and parents that were not brought up to date     *)
(* lose or move nothing.                                                   *)
ReadsAsWritten ==
  verdict = "parsed" /\ filter \in Plain(Len(filter)) => Reading = filter
=============================================================================
