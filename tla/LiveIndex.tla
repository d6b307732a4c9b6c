------------------------------- MODULE LiveIndex -------------------------------
(***************************************************************************)
(* What the segment list of a live index promises, whatever names the      *)
(* segments have: the index is a collection of disjoint sets of documents, *)
(* new documents come in as a set of their own, two sets may be merged     *)
(* into one, and no document is ever lost or held twice.                   *)
(***************************************************************************)
VARIABLE parts          \* the sets of documents, one per segment

Docs == UNION parts

Init == parts = {}

\* An existing index, already divided into disjoint sets.
Load ==
  /\ parts = {}
  /\ \A A, B \in parts' : A # B => A \cap B = {}

Add(A) ==
  /\ A \cap Docs = {}
  /\ parts' = parts \cup {A}

Merge(A, B) ==
  /\ A # B
  /\ parts' = (parts \ {A, B}) \cup {A \cup B}

Next ==
  \/ Load
  \/ \E A \in parts' : Add(A)
  \/ \E A, B \in parts : Merge(A, B)

Spec == Init /\ [][Next]_parts
=============================================================================
