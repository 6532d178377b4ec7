---------------------------- MODULE MCModeration ----------------------------
(* A small instance of ModerationLists for TLC, with filters of every shape. *)
EXTENDS ModerationLists, TLC

CONSTANTS Free, c1, c2

MCMaxOne == [p \in Plans |-> 1]
MCCanProtect == [p \in Plans |-> FALSE]

Id(op, c) == Comparison("id", op, c)

Leaves == {Id("==", c1), Id("!=", c2), Comparison("reason", "==", c1), Id("=gt=", c2)}

\* The tree and a leaf under a connective.
Over(op, tree, leaf) == tree \o <<leaf, Logical(op, <<Len(tree), Len(tree) + 1>>)>>

Inner == {<<leaf>> : leaf \in Leaves} \cup
  {Over("or", <<Id("==", c1)>>, Id("==", c2)), Over("and", <<Id("!=", c1)>>, Id("=gt=", c2)),
   <<Id("!=", c2), Logical("or", <<1>>)>>}

MCFilters == Inner
  \cup {Over(op, tree, leaf) : op \in {"and", "or"}, tree \in Inner, leaf \in Leaves}
  \cup {<<Id("!=", c1), Id("==", c2), Id("!=", c2), Logical(op, <<1, 2, 3>>)>> : op \in {"and", "or"}}

Symmetry == Permutations(Moderators) \cup Permutations(Ids)
=============================================================================
