------------------------------ MODULE SQLinks ------------------------------
(***************************************************************************)
(* Lists threaded through an array of nodes by a next index: what the      *)
(* walks of SQTable::_Get and RefTable::Get have in common.  Node pointers *)
(* are indices of the array, NULL is NoNode.                               *)
(***************************************************************************)
EXTENDS Integers, FiniteSets, Sequences

NoNode == -1

\* The nodes met from node n along the next pointers.  A walk that would be
\* longer than the array has met a cycle and is cut off; the modules that
\* walk state that there is none.
NodesFrom(nodes, n) ==
  LET walk[fuel \in 0 .. Cardinality(DOMAIN nodes)] ==
        [j \in DOMAIN nodes \cup {NoNode} |->
           IF fuel = 0 \/ j = NoNode THEN <<>>
           ELSE <<j>> \o walk[fuel - 1][nodes[j].next]]
  IN  walk[Cardinality(DOMAIN nodes)][n]
=============================================================================
