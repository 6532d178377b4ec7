-------------------------- MODULE ModerationProofs --------------------------
(***************************************************************************)
(* Proofs about Moderation, for any number of complaints, reporters and     *)
(* moderators: two transactions of deleteById acknowledge one deletion, and *)
(* a complaint stays open until then, whatever becomes of its shortcut; and *)
(* about its lists: a filter of any depth and width shows what it means.    *)
(***************************************************************************)
EXTENDS ModerationLists, ShortcutsProofs, WellFoundedInduction

USE ModerationAssumption

\* A shortcut that is being reported has been there.
Reported == \A p \in Reporters : report[p] # Never => rows[report[p]].state # "absent"

\* A complaint was found, and is open as long as its version is the one found.
Found ==
  \A m \in Moderators : work[m].pc = "found" =>
    /\ work[m].complaint \in Complaints
    /\ ~work[m].stale => complaint[work[m].complaint].state = "live"

\* What was acknowledged was deleted, once.
Judged ==
  \A c \in Complaints :
    /\ complaint[c].state # "deleted" => acknowledged[c] = 0
    /\ acknowledged[c] <= 1

\* A complaint is about a shortcut.
AboutShortcuts ==
  \A c \in Complaints : complaint[c].state # "absent" =>
    complaint[c].about \in Ids /\ rows[complaint[c].about].state # "absent"

MInv ==
  /\ complaint \in [Complaints -> ComplaintType]
  /\ report \in [Reporters -> Ids \cup {Never}]
  /\ work \in [Moderators -> WorkType]
  /\ acknowledged \in [Complaints -> 0..Cardinality(Moderators)]
  /\ Reported
  /\ Found
  /\ Judged
  /\ AboutShortcuts

-----------------------------------------------------------------------------

\* Moderation reads shortcuts and changes none.
LEMMA StepIsStep == ModerationNext \/ UNCHANGED allVars => [Next]_vars
BY DEF ModerationNext, Report, CommitReport, Find, Delete, allVars, vars

LEMMA NoWorkIs == NoWork \in WorkType /\ NoWork.pc = "idle"
BY DEF NoWork, WorkType

\* Whoever deletes is a moderator.
LEMMA ModeratorsCounted ==
  /\ Cardinality(Moderators) \in Nat
  /\ \A m \in Moderators : Cardinality(Moderators) >= 1
BY FS_CardinalityType, FS_EmptySet

LEMMA InitMInv == ModerationInit => MInv
<1>. SUFFICES ASSUME ModerationInit PROVE MInv
  OBVIOUS
<1>1. NoComplaint \in ComplaintType /\ NoComplaint.state = "absent"
  BY DEF NoComplaint, ComplaintType
<1>2. /\ complaint \in [Complaints -> ComplaintType]
      /\ report \in [Reporters -> Ids \cup {Never}]
      /\ work \in [Moderators -> WorkType]
      /\ acknowledged \in [Complaints -> 0..Cardinality(Moderators)]
  BY <1>1, NoWorkIs, ModeratorsCounted DEF ModerationInit
<1>3. Reported /\ Found /\ Judged /\ AboutShortcuts
  BY <1>1, NoWorkIs DEF ModerationInit, Reported, Found, Judged, AboutShortcuts
<1>. QED
  BY <1>2, <1>3 DEF MInv

\* A row that was inserted stays: deletion is a mark, and a fresh tag takes a
\* row of its own.
LEMMA RowsStay ==
  ASSUME TypeOK, Next, NEW s \in Ids, rows[s].state # "absent"
  PROVE  rows'[s].state # "absent"
<1>1. rows \in [Ids -> RowType]
  BY DEF TypeOK
<1>2. CASE \E r \in Requests : Step(r)
  <2>1. PICK r \in Requests : Step(r)
    BY <1>2
  <2>2. CASE rows' = rows
    BY <2>2
  <2>3. CASE \E t \in Ids : Save(r, t)
    BY <1>1, <2>3 DEF Save
  <2>. QED
    BY <2>1, <2>2, <2>3 DEF Step, CheckPermanent, CheckExpirable, CheckPassword, Check
<1>3. CASE \E t \in Ids : DeleteByTag(t)
  BY <1>1, <1>3 DEF DeleteByTag, RowType
<1>4. CASE Tick
  BY <1>1, <1>4 DEF Tick, RowType
<1>. QED
  BY <1>2, <1>3, <1>4 DEF Next, Submit, CleanUp, SetPlan, DeleteAccount, vars

\* Shortcuts come, expire and go: complaints stay about a shortcut.
LEMMA ShortcutStep ==
  ASSUME MInv, TypeOK, Next, UNCHANGED modVars
  PROVE  MInv'
<1>1. \A s \in Ids : rows[s].state # "absent" => rows'[s].state # "absent"
  BY RowsStay
<1>2. report \in [Reporters -> Ids \cup {Never}]
  BY DEF MInv
<1>3. Reported' /\ AboutShortcuts'
  BY <1>1, <1>2 DEF MInv, Reported, AboutShortcuts, modVars
<1>4. Found' /\ Judged'
  BY DEF MInv, Found, Judged, modVars
<1>. QED
  BY <1>3, <1>4 DEF MInv, modVars

LEMMA ReportStep ==
  ASSUME MInv, NEW p \in Reporters, NEW s \in Ids, Report(p, s)
  PROVE  MInv'
<1>1. /\ report' = [report EXCEPT ![p] = s] /\ rows[s].state = "live"
      /\ UNCHANGED <<rows, complaint, work, acknowledged>>
  BY DEF Report, vars
<1>2. report' \in [Reporters -> Ids \cup {Never}] /\ Reported'
  BY <1>1 DEF MInv, Reported
<1>3. Found' /\ Judged' /\ AboutShortcuts'
  BY <1>1 DEF MInv, Found, Judged, AboutShortcuts
<1>. QED
  BY <1>1, <1>2, <1>3 DEF MInv

LEMMA CommitReportStep ==
  ASSUME MInv, NEW p \in Reporters, NEW c \in Complaints, CommitReport(p, c)
  PROVE  MInv'
<1>1. /\ report[p] # Never /\ complaint[c].state = "absent"
      /\ complaint' = [complaint EXCEPT ![c] = [state |-> "live", about |-> report[p]]]
      /\ report' = [report EXCEPT ![p] = Never]
      /\ UNCHANGED <<rows, work, acknowledged>>
  BY DEF CommitReport, vars
<1>2. /\ report[p] \in Ids /\ rows[report[p]].state # "absent"
      /\ complaint \in [Complaints -> ComplaintType]
      /\ report \in [Reporters -> Ids \cup {Never}]
  BY <1>1 DEF MInv, Reported
<1>3. /\ complaint' \in [Complaints -> ComplaintType]
      /\ complaint'[c].state = "live" /\ complaint'[c].about = report[p]
      /\ \A x \in Complaints : x # c => complaint'[x] = complaint[x]
      /\ report' \in [Reporters -> Ids \cup {Never}]
  BY <1>1, <1>2 DEF ComplaintType
<1>4. Reported'
  BY <1>1, <1>2 DEF MInv, Reported
<1>5. Found'
  <2>1. \A m \in Moderators : work[m].pc = "found" /\ ~work[m].stale => work[m].complaint # c
    BY <1>1 DEF MInv, Found
  <2>. QED
    BY <1>1, <1>3, <2>1 DEF MInv, Found
<1>6. Judged' /\ AboutShortcuts'
  BY <1>1, <1>2, <1>3 DEF MInv, Judged, AboutShortcuts
<1>. QED
  BY <1>1, <1>3, <1>4, <1>5, <1>6 DEF MInv

LEMMA FindStep ==
  ASSUME MInv, NEW m \in Moderators, NEW c \in Complaints, Find(m, c)
  PROVE  MInv'
<1>1. /\ complaint[c].state = "live"
      /\ work' = [work EXCEPT ![m] = [pc |-> "found", complaint |-> c, stale |-> FALSE]]
      /\ UNCHANGED <<rows, complaint, report, acknowledged>>
  BY DEF Find, Open, vars
<1>2. [pc |-> "found", complaint |-> c, stale |-> FALSE] \in WorkType
  BY DEF WorkType
<1>3. work' \in [Moderators -> WorkType]
  BY <1>1, <1>2 DEF MInv
<1>4. Found'
  BY <1>1 DEF MInv, Found
<1>5. Reported' /\ Judged' /\ AboutShortcuts'
  BY <1>1 DEF MInv, Reported, Judged, AboutShortcuts
<1>. QED
  BY <1>1, <1>3, <1>4, <1>5 DEF MInv

\* deleteById, second transaction: the first to commit outdates the others.
LEMMA DeleteStep ==
  ASSUME MInv, NEW m \in Moderators, Delete(m)
  PROVE  MInv'
<1>1. /\ work[m].pc = "found" /\ work \in [Moderators -> WorkType]
      /\ complaint \in [Complaints -> ComplaintType]
      /\ work[m].complaint \in Complaints
      /\ UNCHANGED <<rows, report>>
  BY DEF Delete, MInv, Found, vars
<1>2. CASE work[m].stale
  <2>1. work' = [work EXCEPT ![m] = NoWork] /\ UNCHANGED <<complaint, acknowledged>>
    BY <1>2 DEF Delete
  <2>2. work' \in [Moderators -> WorkType]
    BY <1>1, <2>1, NoWorkIs
  <2>3. Found'
    BY <1>1, <2>1, NoWorkIs DEF MInv, Found
  <2>4. Reported' /\ Judged' /\ AboutShortcuts'
    BY <1>1, <2>1 DEF MInv, Reported, Judged, AboutShortcuts
  <2>. QED
    BY <1>1, <2>1, <2>2, <2>3, <2>4 DEF MInv
<1>3. CASE ~work[m].stale
  <2>1. PICK c \in Complaints : c = work[m].complaint
    BY <1>1
  <2>2. /\ complaint' = [complaint EXCEPT ![c].state = "deleted"]
        /\ work' = [Outdated(c) EXCEPT ![m] = NoWork]
        /\ acknowledged' = [acknowledged EXCEPT ![c] = @ + 1]
    BY <1>3, <2>1 DEF Delete
  <2>3. complaint[c].state = "live" /\ acknowledged[c] = 0
    BY <1>1, <1>3, <2>1 DEF MInv, Found, Judged
  <2>4. /\ complaint' \in [Complaints -> ComplaintType]
        /\ complaint'[c].state = "deleted" /\ complaint'[c].about = complaint[c].about
        /\ \A x \in Complaints : x # c => complaint'[x] = complaint[x]
    BY <1>1, <2>2 DEF ComplaintType
  <2>5. /\ acknowledged' \in [Complaints -> 0..Cardinality(Moderators)] /\ acknowledged'[c] = 1
        /\ \A x \in Complaints : x # c => acknowledged'[x] = acknowledged[x]
    BY <2>2, <2>3, ModeratorsCounted DEF MInv
  <2>6. \A n \in Moderators : Outdated(c)[n] \in WorkType
    BY <1>1 DEF Outdated, WorkType
  <2>7. work' \in [Moderators -> WorkType]
    BY <2>2, <2>6, NoWorkIs DEF Outdated
  <2>8. Found'
    <3>. SUFFICES ASSUME NEW n \in Moderators, work'[n].pc = "found"
                  PROVE  /\ work'[n].complaint \in Complaints
                         /\ ~work'[n].stale => complaint'[work'[n].complaint].state = "live"
      BY DEF Found
    <3>1. n # m
      BY <2>2, NoWorkIs DEF Outdated
    <3>2. work'[n] = IF work[n].pc = "found" /\ work[n].complaint = c
                     THEN [work[n] EXCEPT !.stale = TRUE] ELSE work[n]
      BY <2>2, <3>1 DEF Outdated
    <3>3. CASE work[n].pc = "found" /\ work[n].complaint = c
      BY <1>1, <3>2, <3>3 DEF WorkType
    <3>4. CASE ~(work[n].pc = "found" /\ work[n].complaint = c)
      <4>1. work'[n] = work[n] /\ work[n].complaint # c
        BY <3>2, <3>4
      <4>. QED
        BY <4>1, <2>4 DEF MInv, Found
    <3>. QED
      BY <3>3, <3>4
  <2>9. Reported' /\ Judged' /\ AboutShortcuts'
    BY <1>1, <2>3, <2>4, <2>5 DEF MInv, Reported, Judged, AboutShortcuts
  <2>. QED
    BY <1>1, <2>4, <2>5, <2>7, <2>8, <2>9 DEF MInv
<1>. QED
  BY <1>2, <1>3

-----------------------------------------------------------------------------
(* The theorems. *)

\* Moderation leaves shortcuts to Shortcuts: what is proved there holds here.
THEOREM ModerationIsShortcuts == ModerationSpec => Spec
<1>1. ModerationInit => Init
  BY DEF ModerationInit
<1>2. [ModerationNext]_allVars => [Next]_vars
  BY StepIsStep
<1>. QED
  BY <1>1, <1>2, PTL DEF ModerationSpec, Spec

\* deleteById and create of ComplaintServiceImpl: who found a complaint and was
\* not overtaken holds an open one, so a deletion is acknowledged at most once.
THEOREM ModerationInductive == ModerationSpec => []MInv
<1>1. ModerationInit => MInv
  BY InitMInv
<1>2. MInv /\ TypeOK /\ [ModerationNext]_allVars => MInv'
  <2>. SUFFICES ASSUME MInv, TypeOK, [ModerationNext]_allVars PROVE MInv'
    OBVIOUS
  <2>1. CASE Next /\ UNCHANGED modVars
    BY <2>1, ShortcutStep
  <2>2. ASSUME NEW p \in Reporters, NEW s \in Ids, Report(p, s) PROVE MInv'
    BY <2>2, ReportStep
  <2>3. ASSUME NEW p \in Reporters, NEW c \in Complaints, CommitReport(p, c) PROVE MInv'
    BY <2>3, CommitReportStep
  <2>4. ASSUME NEW m \in Moderators, NEW c \in Complaints, Find(m, c) PROVE MInv'
    BY <2>4, FindStep
  <2>5. ASSUME NEW m \in Moderators, Delete(m) PROVE MInv'
    BY <2>5, DeleteStep
  <2>6. CASE UNCHANGED allVars
    BY <2>6 DEF allVars, vars, modVars, MInv, Reported, Found, Judged, AboutShortcuts
  <2>. QED
    BY <2>1, <2>2, <2>3, <2>4, <2>5, <2>6 DEF ModerationNext
<1>. QED
  BY <1>1, <1>2, ModerationIsShortcuts, TypeCorrect, PTL DEF ModerationSpec

\* A complaint is always about a shortcut that was there, live or not.
THEOREM ModerationTypeCorrect == ModerationSpec => []ModerationTypeOK
<1>1. MInv => ModerationTypeOK
  BY DEF MInv, AboutShortcuts, ModerationTypeOK
<1>. QED
  BY <1>1, ModerationInductive, PTL

\* Two moderators are not both told that they deleted one complaint.
THEOREM OneAcknowledgement == ModerationSpec => []AcknowledgedOnce
<1>1. MInv => AcknowledgedOnce
  BY DEF MInv, Judged, AcknowledgedOnce
<1>. QED
  BY <1>1, ModerationInductive, PTL

\* Only a moderator's deletion closes a complaint, for good.
THEOREM StaysOpen == ModerationSpec => OpenUntilJudged
<1>. DEFINE Kept(c) ==
       complaint[c].state # "absent" =>
         /\ complaint'[c].about = complaint[c].about
         /\ c \notin Open => c \notin Open'
         /\ c \in Open /\ c \notin Open' =>
              \E m \in Moderators : work[m].complaint = c /\ work'[m] = NoWork
<1>1. MInv /\ [ModerationNext]_allVars => [\A c \in Complaints : Kept(c)]_allVars
  <2>. SUFFICES ASSUME MInv, ModerationNext, NEW c \in Complaints, complaint[c].state # "absent"
                PROVE  Kept(c)
    OBVIOUS
  <2>1. CASE complaint' = complaint
    BY <2>1 DEF Open
  <2>2. ASSUME NEW p \in Reporters, NEW x \in Complaints, CommitReport(p, x) PROVE Kept(c)
    <3>1. complaint'[c] = complaint[c]
      BY <2>2 DEF CommitReport, MInv
    <3>. QED
      BY <3>1 DEF Open
  <2>3. ASSUME NEW m \in Moderators, Delete(m), ~work[m].stale PROVE Kept(c)
    <3>1. PICK x : x = work[m].complaint
      OBVIOUS
    <3>2. /\ complaint' = [complaint EXCEPT ![x].state = "deleted"]
          /\ work' = [Outdated(x) EXCEPT ![m] = NoWork]
      BY <2>3, <3>1 DEF Delete
    <3>3. work'[m] = NoWork
      BY <3>2 DEF Outdated
    <3>4. CASE c = x
      BY <3>1, <3>2, <3>3, <3>4 DEF Open, MInv, ComplaintType
    <3>5. CASE c # x
      <4>1. complaint'[c] = complaint[c]
        BY <3>2, <3>5 DEF MInv
      <4>. QED
        BY <4>1 DEF Open
    <3>. QED
      BY <3>4, <3>5
  <2>. QED
    BY <2>1, <2>2, <2>3 DEF ModerationNext, modVars, Report, Find, Delete
<1>. QED
  BY <1>1, ModerationInductive, PTL DEF ModerationSpec, OpenUntilJudged

-----------------------------------------------------------------------------
(* Filters.  The proofs are by induction on the positions of a tree and on  *)
(* the turns of the loop, which rests on the numbers being well-founded.    *)

\* A set of numbers that is not empty has a least element.
LEMMA Least ==
  ASSUME NEW T \in SUBSET Nat, T # {}
  PROVE  \E m \in T : \A k \in T : ~(k < m)
<1>. DEFINE R == OpToRel(<, Nat)
<1>1. IsWellFoundedOn(R, Nat)
  BY NatLessThanWellFounded
<1>2. \A x, y \in Nat : y < x => <<y, x>> \in R
  BY DEF OpToRel
<1>. HIDE DEF R
<1>3. PICK x \in T : \A y \in T : ~(<<y, x>> \in R)
  BY <1>1, WFMin
<1>4. \A y \in T : ~(y < x)
  <2>. TAKE y \in T
  <2>1. y \in Nat /\ x \in Nat
    OBVIOUS
  <2>2. ~(<<y, x>> \in R)
    BY <1>3
  <2>3. y < x => <<y, x>> \in R
    BY <1>2, <2>1, Zenon
  <2>. QED
    BY <2>2, <2>3, Zenon
<1>. QED
  BY <1>4

\* Induction, for the numbers in a set.
LEMMA Induction ==
  ASSUME NEW S, NEW n \in Nat, 0 \in S, \A k \in 0..(n - 1) : k \in S => k + 1 \in S
  PROVE  \A k \in 0..n : k \in S
<1>. DEFINE T == {k \in 0..n : k \notin S}
<1>. SUFFICES ASSUME T # {} PROVE FALSE
  OBVIOUS
<1>1. T \in SUBSET Nat
  OBVIOUS
<1>2. PICK m \in T : \A k \in T : ~(k < m)
  BY <1>1, Least
<1>3. m \in 0..n /\ m # 0
  BY <1>1
<1>4. m - 1 \in 0..(n - 1) /\ m - 1 < m /\ (m - 1) + 1 = m
  BY <1>3
<1>5. m - 1 \in S
  BY <1>2, <1>4
<1>. QED
  BY <1>4, <1>5

\* The set that the loop has built after k children.
LoopSet(op, parts, k) ==
  IF op = "or" THEN {x \in UNION {parts[j] : j \in DOMAIN parts} : \E j \in DOMAIN parts : (j = 1 \/ j <= k) /\ x \in parts[j]}
  ELSE {x \in parts[1] : \A j \in DOMAIN parts : j <= k => x \in parts[j]}

\* The loop of the builder amounts to one union or one intersection.
LEMMA AllJoinedIs ==
  ASSUME NEW op, NEW U, NEW n \in Nat, n # 0, NEW parts \in [1..n -> SUBSET U], Len(parts) = n
  PROVE  AllJoined(op, parts) = LoopSet(op, parts, n)
<1>. DEFINE Turn(g, k) == IF k = 0 THEN parts[1] ELSE Joined(op, g[k - 1], parts[k])
            result == CHOOSE g : g = [k \in 0..n |-> Turn(g, k)]
            witness == [k \in 0..n |-> LoopSet(op, parts, k)]
<1>1. AllJoined(op, parts) = result[n]
  BY DEF AllJoined
<1>2. 1 \in DOMAIN parts /\ DOMAIN parts = 1..n
  OBVIOUS
<1>3. LoopSet(op, parts, 0) = parts[1]
  BY <1>2 DEF LoopSet
<1>4. ASSUME NEW k \in 1..n
      PROVE  LoopSet(op, parts, k) = Joined(op, LoopSet(op, parts, k - 1), parts[k])
  <2>1. \A j \in 1..n : j <= k <=> j <= k - 1 \/ j = k
    BY <1>2
  <2>2. CASE op = "or"
    BY <1>2, <2>1, <2>2 DEF LoopSet, Joined
  <2>3. CASE op # "or"
    BY <1>2, <2>1, <2>3 DEF LoopSet, Joined
  <2>. QED
    BY <2>2, <2>3
<1>5. witness = [k \in 0..n |-> Turn(witness, k)]
  <2>1. ASSUME NEW k \in 0..n PROVE LoopSet(op, parts, k) = Turn(witness, k)
    <3>1. CASE k = 0
      BY <1>3, <3>1
    <3>2. CASE k # 0
      <4>1. k \in 1..n /\ k - 1 \in 0..n
        BY <3>2
      <4>. QED
        BY <1>4, <4>1, <3>2
    <3>. QED
      BY <3>1, <3>2
  <2>. QED
    BY <2>1
<1>6. result = [k \in 0..n |-> Turn(result, k)]
  <2>. DEFINE Fits(g) == g = [k \in 0..n |-> Turn(g, k)]
  <2>1. Fits(witness)
    BY <1>5
  <2>2. result = CHOOSE g : Fits(g)
    OBVIOUS
  <2>. HIDE DEF witness, result, Fits
  <2>3. Fits(result)
    BY <2>1, <2>2, Zenon
  <2>. QED
    BY <2>3 DEF Fits
<1>. HIDE DEF result
<1>7. \A k \in 0..n : result[k] = LoopSet(op, parts, k)
  <2>. DEFINE S == {k \in 0..n : result[k] = LoopSet(op, parts, k)}
  <2>1. 0 \in S
    BY <1>3, <1>6
  <2>2. ASSUME NEW k \in 0..(n - 1), k \in S PROVE k + 1 \in S
    <3>1. k + 1 \in 0..n /\ k + 1 \in 1..n /\ k + 1 # 0 /\ (k + 1) - 1 = k
      OBVIOUS
    <3>2. result[k + 1] = Joined(op, result[k], parts[k + 1])
      BY <1>6, <3>1
    <3>. QED
      BY <1>4, <2>2, <3>1, <3>2
  <2>. HIDE DEF S
  <2>3. \A k \in 0..n : k \in S
    BY <2>1, <2>2, Induction
  <2>. QED
    BY <2>3 DEF S
<1>. QED
  BY <1>1, <1>7


\* What the builder makes of each node: the specification of every node.
Specifications(tree, ids) ==
  CHOOSE spec : spec = [i \in DOMAIN tree |-> Built(tree, ids, spec, i)]

LEMMA SpecificationIs ==
  ASSUME NEW tree, NEW ids
  PROVE  Specification(tree, ids) = Specifications(tree, ids)[Len(tree)]
BY DEF Specification, Specifications

\* Where the children of a node are.
LEMMA ChildrenBefore ==
  ASSUME NEW tree, IsFilter(tree), NEW i \in DOMAIN tree, IsLogical(tree[i])
  PROVE  /\ tree[i].children \in Seq(1..(i - 1))
         /\ Len(tree[i].children) \in Nat \ {0}
         /\ DOMAIN tree[i].children = 1..Len(tree[i].children)
         /\ Children(tree, i) \subseteq 1..(i - 1)
         /\ Children(tree, i) \subseteq DOMAIN tree
<1>1. tree[i].children \in Seq(1..(i - 1)) /\ tree[i].children # <<>>
  BY DEF IsFilter
<1>2. Len(tree[i].children) \in Nat \ {0}
  BY <1>1
<1>3. DOMAIN tree[i].children = 1..Len(tree[i].children)
  BY <1>1
<1>4. \A k \in DOMAIN tree[i].children : tree[i].children[k] \in 1..(i - 1)
  <2>1. ASSUME NEW S, NEW cs \in Seq(S), NEW k \in 1..Len(cs) PROVE cs[k] \in S
    OBVIOUS
  <2>. QED
    BY <1>1, <1>3, <2>1
<1>5. Children(tree, i) \subseteq 1..(i - 1)
  BY <1>4 DEF Children
<1>6. 1..(i - 1) \subseteq DOMAIN tree
  BY DEF IsFilter
<1>. QED
  BY <1>1, <1>2, <1>3, <1>5, <1>6

\* A node's specification depends on those of its children.
LEMMA BuiltFromChildren ==
  ASSUME NEW tree, NEW ids, NEW g, NEW h, NEW i \in DOMAIN tree,
         IsLogical(tree[i]) => \A c \in Children(tree, i) : g[c] = h[c]
  PROVE  Built(tree, ids, g, i) = Built(tree, ids, h, i)
<1>1. CASE ~IsLogical(tree[i])
  BY <1>1 DEF Built
<1>2. CASE IsLogical(tree[i])
  <2>1. \A k \in DOMAIN tree[i].children : g[tree[i].children[k]] = h[tree[i].children[k]]
    BY <1>2 DEF Children
  <2>2. [k \in DOMAIN tree[i].children |-> g[tree[i].children[k]]]
          = [k \in DOMAIN tree[i].children |-> h[tree[i].children[k]]]
    BY <2>1
  <2>3. (\E c \in Children(tree, i) : g[c] = Reject) <=> \E c \in Children(tree, i) : h[c] = Reject
    BY <1>2
  <2>. QED
    BY <1>2, <2>2, <2>3 DEF Built
<1>. QED
  BY <1>1, <1>2

\* The recursion of the builder ends: every node has its specification.
LEMMA SpecificationsBuilt ==
  ASSUME NEW tree, NEW ids, IsFilter(tree)
  PROVE  LET spec == Specifications(tree, ids)
         IN  spec = [i \in DOMAIN tree |-> Built(tree, ids, spec, i)]
<1>. DEFINE n == Len(tree)
            Fits(g, k) == \A i \in 1..k : g[i] = Built(tree, ids, g, i)
            S == {k \in 0..n : \E g : DOMAIN g = 1..k /\ g = [i \in 1..k |-> g[i]] /\ Fits(g, k)}
<1>1. n \in Nat /\ DOMAIN tree = 1..n
  BY DEF IsFilter
<1>2. 0 \in S
  <2>. DEFINE g == [i \in 1..0 |-> {}]
  <2>1. DOMAIN g = 1..0 /\ g = [i \in 1..0 |-> g[i]] /\ Fits(g, 0)
    OBVIOUS
  <2>. HIDE DEF g, Fits
  <2>2. 0 \in 0..n
    BY <1>1
  <2>. QED
    BY <2>1, <2>2
<1>3. ASSUME NEW k \in 0..(n - 1), k \in S PROVE k + 1 \in S
  <2>1. PICK g : DOMAIN g = 1..k /\ g = [i \in 1..k |-> g[i]] /\ Fits(g, k)
    BY <1>3
  <2>. DEFINE h == [i \in 1..(k + 1) |-> IF i = k + 1 THEN Built(tree, ids, g, i) ELSE g[i]]
  <2>2. k \in Nat /\ k + 1 \in 0..n /\ k + 1 \in Nat
    BY <1>1
  <2>3. \A i \in 1..k : h[i] = g[i]
    BY <2>2
  <2>4. ASSUME NEW i \in 1..(k + 1) PROVE h[i] = Built(tree, ids, h, i)
    <3>1. i \in DOMAIN tree /\ 1..(i - 1) \subseteq 1..k
      BY <1>1, <2>2
    <3>2. IsLogical(tree[i]) => \A c \in Children(tree, i) : g[c] = h[c]
      BY <2>3, <3>1, ChildrenBefore
    <3>. HIDE DEF h
    <3>3. Built(tree, ids, g, i) = Built(tree, ids, h, i)
      BY <3>1, <3>2, BuiltFromChildren
    <3>4. h[i] = Built(tree, ids, g, i)
      <4>1. CASE i = k + 1
        BY <4>1 DEF h
      <4>2. CASE i # k + 1
        <5>1. i \in 1..k
          BY <2>2, <4>2
        <5>. QED
          BY <2>1, <2>3, <5>1
      <4>. QED
        BY <4>1, <4>2
    <3>. QED
      BY <3>3, <3>4
  <2>5. DOMAIN h = 1..(k + 1) /\ h = [i \in 1..(k + 1) |-> h[i]]
    OBVIOUS
  <2>. HIDE DEF h
  <2>6. Fits(h, k + 1)
    BY <2>4
  <2>. QED
    BY <2>2, <2>5, <2>6
<1>. HIDE DEF S
<1>4. n \in S
  <2>1. \A k \in 0..n : k \in S
    BY <1>1, <1>2, <1>3, Induction
  <2>. QED
    BY <1>1, <2>1
<1>5. PICK g : DOMAIN g = 1..n /\ g = [i \in 1..n |-> g[i]] /\ Fits(g, n)
  BY <1>4 DEF S
<1>. DEFINE Fixed(spec) == spec = [i \in DOMAIN tree |-> Built(tree, ids, spec, i)]
<1>6. Fixed(g)
  BY <1>1, <1>5
<1>7. Specifications(tree, ids) = CHOOSE spec : Fixed(spec)
  BY DEF Specifications
<1>. HIDE DEF Fixed
<1>8. Fixed(Specifications(tree, ids))
  BY <1>6, <1>7, Zenon
<1>. QED
  BY <1>8 DEF Fixed


\* Where a row makes the builder's specifications true.
Selecting(id, tree, spec) == {i \in DOMAIN tree : id \in spec[i]}

\* Whether a connective is true of a row depends on its children.
LEMMA TrueOfChildren ==
  ASSUME NEW id, NEW tree, NEW S, NEW T, NEW i,
         IsLogical(tree[i]) => \A c \in Children(tree, i) : c \in S <=> c \in T
  PROVE  TrueOf(id, tree, S, i) <=> TrueOf(id, tree, T, i)
<1>1. CASE tree[i].node = "and"
  BY <1>1 DEF TrueOf, IsLogical
<1>2. CASE tree[i].node = "or"
  BY <1>2 DEF TrueOf, IsLogical
<1>3. CASE ~IsLogical(tree[i])
  BY <1>3 DEF TrueOf, IsLogical
<1>. QED
  BY <1>1, <1>2, <1>3 DEF IsLogical

\* A node without anything unsupported selects the rows it is true of, if its
\* children do.
LEMMA NodeAsMeant ==
  ASSUME NEW tree, NEW ids, NEW spec, NEW i \in DOMAIN tree,
         IsFilter(tree), Supported(tree), Refused \notin ids,
         \A c \in 1..(i - 1) : spec[c] \subseteq ids,
         spec[i] = Built(tree, ids, spec, i)
  PROVE  /\ spec[i] \subseteq ids
         /\ \A id \in ids : id \in spec[i] <=> TrueOf(id, tree, Selecting(id, tree, spec), i)
<1>1. CASE ~IsLogical(tree[i])
  <2>1. spec[i] = Mapped(tree[i], ids)
    BY <1>1 DEF Built
  <2>2. tree[i].field = "id" /\ tree[i].op \in {"==", "!="}
    BY <1>1 DEF Supported
  <2>3. \A id : TrueOf(id, tree, Selecting(id, tree, spec), i) <=> (tree[i].op = "==" <=> id = tree[i].arg)
    BY <1>1 DEF TrueOf, IsLogical
  <2>. QED
    BY <2>1, <2>2, <2>3 DEF Mapped
<1>2. CASE IsLogical(tree[i])
  <2>. DEFINE cs == tree[i].children
              parts == [k \in DOMAIN cs |-> spec[cs[k]]]
              n == Len(cs)
  <2>1. /\ cs \in Seq(1..(i - 1)) /\ n \in Nat \ {0} /\ DOMAIN cs = 1..n
        /\ Children(tree, i) \subseteq 1..(i - 1) /\ Children(tree, i) \subseteq DOMAIN tree
    BY <1>2, ChildrenBefore
  <2>2. \A c \in Children(tree, i) : spec[c] \subseteq ids /\ spec[c] # Reject
    BY <2>1 DEF Reject
  <2>3. Children(tree, i) = {cs[k] : k \in 1..n}
    BY <2>1 DEF Children
  <2>4. parts \in [1..n -> SUBSET ids] /\ Len(parts) = n
    <3>1. parts \in [1..n -> SUBSET ids]
      BY <2>1, <2>2, <2>3
    <3>2. parts \in Seq(SUBSET ids)
      BY <2>1, <3>1
    <3>. QED
      BY <2>1, <3>1, <3>2
  <2>5. spec[i] = LoopSet(tree[i].node, parts, n)
    <3>1. spec[i] = AllJoined(tree[i].node, parts)
      BY <1>2, <2>2 DEF Built
    <3>. QED
      BY <2>1, <2>4, <3>1, AllJoinedIs
  <2>6. \A k \in 1..n : parts[k] = spec[cs[k]]
    BY <2>1
  <2>7. \A id : \A k \in 1..n : cs[k] \in Selecting(id, tree, spec) <=> id \in parts[k]
    BY <2>1, <2>3, <2>6 DEF Selecting
  <2>. HIDE DEF parts, cs, n
  <2>8. CASE tree[i].node = "and"
    <3>1. \A id : TrueOf(id, tree, Selecting(id, tree, spec), i) <=> \A k \in 1..n : id \in parts[k]
      BY <2>3, <2>7, <2>8 DEF TrueOf
    <3>2. spec[i] = {x \in parts[1] : \A k \in 1..n : x \in parts[k]}
      BY <2>1, <2>4, <2>5, <2>8 DEF LoopSet
    <3>. QED
      BY <2>1, <2>4, <3>1, <3>2
  <2>9. CASE tree[i].node = "or"
    <3>1. \A id : TrueOf(id, tree, Selecting(id, tree, spec), i) <=> \E k \in 1..n : id \in parts[k]
      <4>1. ASSUME NEW id PROVE (Children(tree, i) \cap Selecting(id, tree, spec) # {}) <=> \E k \in 1..n : id \in parts[k]
        BY <2>3, <2>7
      <4>. QED
        BY <2>9, <4>1 DEF TrueOf
    <3>2. spec[i] = UNION {parts[k] : k \in 1..n}
      BY <2>1, <2>4, <2>5, <2>9 DEF LoopSet
    <3>. QED
      BY <2>1, <2>4, <3>1, <3>2
  <2>. QED
    BY <1>2, <2>8, <2>9 DEF IsLogical
<1>. QED
  BY <1>1, <1>2

\* A supported filter selects the rows it is true of.
LEMMA SupportedAsMeant ==
  ASSUME NEW tree, NEW ids, IsFilter(tree), Supported(tree), Refused \notin ids
  PROVE  Specification(tree, ids) = {id \in ids : Matches(id, tree)}
<1>. DEFINE n == Len(tree)
            spec == Specifications(tree, ids)
<1>1. n \in Nat \ {0} /\ DOMAIN tree = 1..n
  BY DEF IsFilter
<1>2. \A i \in 1..n : spec[i] = Built(tree, ids, spec, i)
  <2>1. spec = [i \in DOMAIN tree |-> Built(tree, ids, spec, i)]
    BY SpecificationsBuilt
  <2>. HIDE DEF spec
  <2>. QED
    BY <1>1, <2>1
<1>. HIDE DEF spec
<1>3. \A i \in 1..n : spec[i] \subseteq ids
  <2>. DEFINE S == {k \in 0..n : \A i \in 1..k : spec[i] \subseteq ids}
  <2>1. 0 \in S
    BY <1>1
  <2>2. ASSUME NEW k \in 0..(n - 1), k \in S PROVE k + 1 \in S
    <3>1. k + 1 \in DOMAIN tree /\ k + 1 \in 0..n /\ (k + 1) - 1 = k
      BY <1>1
    <3>2. spec[k + 1] \subseteq ids
      BY <1>1, <1>2, <2>2, <3>1, NodeAsMeant
    <3>3. \A i \in 1..(k + 1) : i \in 1..k \/ i = k + 1
      BY <1>1
    <3>. QED
      BY <2>2, <3>1, <3>2, <3>3
  <2>. HIDE DEF S
  <2>3. \A k \in 0..n : k \in S
    BY <1>1, <2>1, <2>2, Induction
  <2>. QED
    BY <1>1, <2>3 DEF S
<1>4. \A i \in 1..n, id \in ids : id \in spec[i] <=> TrueOf(id, tree, Selecting(id, tree, spec), i)
  <2>1. ASSUME NEW i \in 1..n PROVE i \in DOMAIN tree /\ 1..(i - 1) \subseteq 1..n
    BY <1>1
  <2>. QED
    BY <1>1, <1>2, <1>3, <2>1, NodeAsMeant
<1>5. ASSUME NEW id \in ids PROVE id \in spec[n] <=> Matches(id, tree)
  <2>1. ASSUME id \in spec[n] PROVE Matches(id, tree)
    <3>. DEFINE true == Selecting(id, tree, spec)
    <3>1. true \in SUBSET DOMAIN tree /\ \A i \in DOMAIN tree : i \in true <=> id \in spec[i]
      BY DEF Selecting
    <3>. HIDE DEF true
    <3>2. \A i \in DOMAIN tree : i \in true <=> TrueOf(id, tree, true, i)
      BY <1>1, <1>4, <3>1 DEF true
    <3>3. n \in true
      BY <1>1, <2>1, <3>1
    <3>. QED
      BY <3>1, <3>2, <3>3 DEF Matches
  <2>2. ASSUME Matches(id, tree) PROVE id \in spec[n]
    <3>1. PICK true \in SUBSET DOMAIN tree :
            /\ \A i \in DOMAIN tree : i \in true <=> TrueOf(id, tree, true, i)
            /\ n \in true
      BY <2>2 DEF Matches
    <3>. DEFINE S == {k \in 0..n : \A i \in 1..k : i \in true <=> id \in spec[i]}
    <3>2. 0 \in S
      BY <1>1
    <3>3. ASSUME NEW k \in 0..(n - 1), k \in S PROVE k + 1 \in S
      <4>1. k + 1 \in DOMAIN tree /\ k + 1 \in 0..n /\ (k + 1) - 1 = k /\ 1..k \subseteq DOMAIN tree
        BY <1>1
      <4>2. \A c \in 1..k : c \in true <=> c \in Selecting(id, tree, spec)
        BY <3>3, <4>1 DEF Selecting
      <4>3. IsLogical(tree[k + 1]) =>
              \A c \in Children(tree, k + 1) : c \in true <=> c \in Selecting(id, tree, spec)
        BY <4>1, <4>2, ChildrenBefore
      <4>4. TrueOf(id, tree, true, k + 1) <=> TrueOf(id, tree, Selecting(id, tree, spec), k + 1)
        BY <4>3, TrueOfChildren
      <4>5. k + 1 \in true <=> id \in spec[k + 1]
        BY <1>1, <1>4, <3>1, <4>1, <4>4
      <4>6. \A i \in 1..(k + 1) : i \in 1..k \/ i = k + 1
        BY <1>1
      <4>. QED
        BY <3>3, <4>1, <4>5, <4>6
    <3>. HIDE DEF S
    <3>4. \A k \in 0..n : k \in S
      BY <1>1, <3>2, <3>3, Induction
    <3>. QED
      BY <1>1, <3>1, <3>4 DEF S
  <2>. QED
    BY <2>1, <2>2
<1>6. Specification(tree, ids) = spec[n]
  BY SpecificationIs DEF spec
<1>. QED
  BY <1>1, <1>3, <1>5, <1>6

\* An exception reaches the root.
LEMMA UnsupportedRefused ==
  ASSUME NEW tree, NEW ids, IsFilter(tree), ~Supported(tree)
  PROVE  Specification(tree, ids) = Reject
<1>. DEFINE n == Len(tree)
            spec == Specifications(tree, ids)
            Depths == {d \in 0..(n - 1) : spec[n - d] = Reject}
<1>1. n \in Nat \ {0} /\ DOMAIN tree = 1..n
  BY DEF IsFilter
<1>2. \A i \in 1..n : spec[i] = Built(tree, ids, spec, i)
  <2>1. spec = [i \in DOMAIN tree |-> Built(tree, ids, spec, i)]
    BY SpecificationsBuilt
  <2>. HIDE DEF spec
  <2>. QED
    BY <1>1, <2>1
<1>3. Specification(tree, ids) = spec[n]
  BY SpecificationIs
<1>. HIDE DEF spec, n
<1>4. Depths # {}
  <2>1. PICK i \in 1..n : ~IsLogical(tree[i]) /\ ~(tree[i].field = "id" /\ tree[i].op \in {"==", "!="})
    BY <1>1 DEF Supported
  <2>2. spec[i] = Reject
    BY <1>2, <2>1 DEF Built, Mapped
  <2>3. n - i \in 0..(n - 1) /\ n - (n - i) = i
    BY <1>1
  <2>. QED
    BY <2>2, <2>3
<1>5. PICK d \in Depths : \A e \in Depths : ~(e < d)
  <2>1. Depths \in SUBSET Nat
    BY <1>1
  <2>. QED
    BY <1>4, <2>1, Least
<1>6. CASE d = 0
  BY <1>1, <1>3, <1>5, <1>6
<1>7. CASE d # 0
  <2>1. n - d \in 1..(n - 1) /\ spec[n - d] = Reject
    BY <1>1, <1>5, <1>7
  <2>2. PICK j \in DOMAIN tree : IsLogical(tree[j]) /\ n - d \in Children(tree, j)
    BY <2>1 DEF IsFilter, n
  <2>3. n - d \in 1..(j - 1)
    BY <2>2, ChildrenBefore
  <2>4. spec[j] = Reject
    BY <1>1, <1>2, <2>1, <2>2 DEF Built
  <2>5. n - j \in 0..(n - 1) /\ n - (n - j) = j /\ n - j < d
    BY <1>1, <1>5, <2>2, <2>3
  <2>. QED
    BY <1>5, <2>4, <2>5
<1>. QED
  BY <1>6, <1>7

\* JpaRSQLSpecificationBuilder builds what a filter means, of any depth and
\* width, or refuses it as a whole.
THEOREM BuilderIsMeant ==
  ASSUME NEW tree, NEW ids, IsFilter(tree), Refused \notin ids
  PROVE  Specification(tree, ids) = Meant(tree, ids)
BY SupportedAsMeant, UnsupportedRefused DEF Meant

\* A list of complaints shows the open ones that its filter means, or is
\* refused (ComplaintServiceImpl.findAll with a specification).
THEOREM ListsAsMeant == ModerationSpec => []ListsWhatIsMeant
<1>1. ListsWhatIsMeant
  <2>. SUFFICES ASSUME NEW f \in Filters PROVE Listed(f) = Meant(f, Open)
    BY DEF ListsWhatIsMeant
  <2>1. IsFilter(f) /\ Refused \notin Made
    BY ListsAssumption DEF Made
  <2>2. Specification(f, Made) = Meant(f, Made)
    BY <2>1, BuilderIsMeant
  <2>3. Open \subseteq Made
    BY DEF Open, Made
  <2>4. CASE Supported(f)
    <3>1. Specification(f, Made) = {c \in Made : Matches(c, f)}
      BY <2>2, <2>4 DEF Meant
    <3>2. Specification(f, Made) # Reject
      BY <2>1, <3>1 DEF Reject
    <3>. QED
      BY <2>3, <2>4, <3>1, <3>2 DEF Listed, Meant
  <2>5. CASE ~Supported(f)
    BY <2>2, <2>5 DEF Listed, Meant
  <2>. QED
    BY <2>4, <2>5
<1>. QED
  BY <1>1, PTL
=============================================================================
