--------------------------- MODULE ModerationLists ---------------------------
(***************************************************************************)
(* The lists of complaints that moderators read.  Reading changes nothing:  *)
(* Listed is what a list shows in any state of Moderation.                  *)
(***************************************************************************)
EXTENDS Moderation, RsqlFilter

CONSTANTS Filters   \* filters that moderators use

ASSUME ListsAssumption == Refused \notin Complaints /\ \A f \in Filters : IsFilter(f)

Made == {c \in Complaints : complaint[c].state # "absent"}

\* Mutant of Listed: the filter alone selects.
ListedAny(f) == Specification(f, Made)

\* findAll: the filter's specification and deleted = false.
Listed(f) ==
  LET selected == Specification(f, Made)
  IN  IF selected = Reject THEN Reject ELSE selected \cap Open

\* A list shows the open complaints its filter means, and a filter with
\* anything unsupported in it is refused as a whole and never widened: the
\* fold of the builder against the plain meaning of the tree.
ListsWhatIsMeant == \A f \in Filters : Listed(f) = Meant(f, Open)
=============================================================================
