------------------------------ MODULE RsqlFilter ------------------------------
(***************************************************************************)
(* The filters of the administration endpoints.  The parser of rsql-parser  *)
(* makes a tree of a query string; JpaRSQLSpecificationBuilder makes a      *)
(* specification of the tree, which the database evaluates.  A tree is the  *)
(* sequence of its nodes, children before their parent and the root last.   *)
(* A specification is the set of ids of the rows it selects; Reject stands  *)
(* for the exception that an unsupported field or operator anywhere in the  *)
(* tree ends the request with.                                              *)
(***************************************************************************)
EXTENDS Integers, Sequences

CONSTANTS Refused   \* the id of no row

Reject == {Refused}

\* ComparisonNode: selector, operator and the first argument.
Comparison(field, op, arg) == [node |-> "cmp", field |-> field, op |-> op, arg |-> arg]

\* AndNode, OrNode: the positions of the children.
Logical(op, children) == [node |-> op, children |-> children]

IsLogical(node) == node.node \in {"and", "or"}

Children(tree, i) == {tree[i].children[k] : k \in DOMAIN tree[i].children}

\* At least one child, and one tree: whatever is not the root has a parent.
IsFilter(tree) ==
  /\ tree # <<>> /\ DOMAIN tree = 1..Len(tree) /\ Len(tree) \in Nat
  /\ \A i \in DOMAIN tree : IsLogical(tree[i]) =>
       tree[i].children \in Seq(1..(i - 1)) /\ tree[i].children # <<>>
  /\ \A i \in 1..(Len(tree) - 1) :
       \E j \in DOMAIN tree : IsLogical(tree[j]) /\ i \in Children(tree, j)

\* The field mappers of all three entities know the field id, == and !=.
Mapped(node, ids) ==
  IF node.field # "id" \/ node.op \notin {"==", "!="} THEN Reject
  ELSE IF node.op = "==" THEN ids \cap {node.arg} ELSE ids \ {node.arg}

\* Mutant of Joined: a conjunction is built as a disjunction.
JoinedByOr(op, left, right) == left \cup right

Joined(op, left, right) == IF op = "or" THEN left \cup right ELSE left \cap right

\* The loop over all children starts from the first, which is joined with itself.
AllJoined(op, parts) ==
  LET result[k \in 0..Len(parts)] ==
        IF k = 0 THEN parts[1] ELSE Joined(op, result[k - 1], parts[k])
  IN  result[Len(parts)]

\* createSpecification of a node: the children have been mapped before any is
\* joined, and an exception in one of them ends it.
Built(tree, ids, spec, i) ==
  IF ~IsLogical(tree[i]) THEN Mapped(tree[i], ids)
  ELSE IF \E c \in Children(tree, i) : spec[c] = Reject THEN Reject
  ELSE AllJoined(tree[i].node, [k \in DOMAIN tree[i].children |-> spec[tree[i].children[k]]])

Specification(tree, ids) ==
  LET spec[i \in DOMAIN tree] == Built(tree, ids, spec, i)
  IN  spec[Len(tree)]

-----------------------------------------------------------------------------
(* What a filter means, stated without the builder: the nodes are true or   *)
(* false of a row in the one way in which the connectives come out.         *)

Supported(tree) ==
  \A i \in DOMAIN tree : ~IsLogical(tree[i]) =>
    tree[i].field = "id" /\ tree[i].op \in {"==", "!="}

TrueOf(id, tree, true, i) ==
  CASE tree[i].node = "and" -> Children(tree, i) \subseteq true
    [] tree[i].node = "or"  -> Children(tree, i) \cap true # {}
    [] OTHER                -> (tree[i].op = "==" <=> id = tree[i].arg)

Matches(id, tree) ==
  \E true \in SUBSET DOMAIN tree :
    /\ \A i \in DOMAIN tree : i \in true <=> TrueOf(id, tree, true, i)
    /\ Len(tree) \in true

Meant(tree, ids) == IF Supported(tree) THEN {id \in ids : Matches(id, tree)} ELSE Reject
=============================================================================
