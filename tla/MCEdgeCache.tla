---------------------------- MODULE MCEdgeCache ----------------------------
EXTENDS EdgeCache, TLC

CONSTANTS s, t

OneSource == [e \in Edges |-> s]
OneTarget == [e \in Edges |-> t]
OneType == [e \in Edges |-> 1]
OnePair == {<<s, t>>}

(* What is made together: collections against the calls that change them,  *)
(* one way to change or to read at a time.                                 *)
SeveralMixes ==
  {{"listEdges", "createEdge", "deleteEdge", "flush"},
   {"listEdges", "findEdge", "deleteEdge", "updateObject"},
   {"listEdges", "createEdge", "deleteEdge", "deleteObject"},
   {"checkAttribute", "getEdge", "deleteObject"},
   {"listEdgesBetween", "getEdge", "deleteEdgesByObject"},
   {"findEdge", "getEdge", "createEdgeBypass", "deleteEdge"}}

(* An edge is deleted and read while its source is updated. *)
UpdateMix == {{"getEdge", "deleteEdge", "updateObject"}}

Symmetric == Permutations(Procs) \cup Permutations(Ids)
=============================================================================
