------------------------------ MODULE Moderation ------------------------------
(***************************************************************************)
(* Complaints about shortcuts, and the moderators who delete them.          *)
(* A complaint is made in a transaction that looks for the shortcut first;  *)
(* ComplaintServiceImpl.deleteById is no transaction: it finds the          *)
(* complaint in one and marks it deleted in another, under the version of   *)
(* the row.  Shortcuts change underneath as in Shortcuts.                   *)
(***************************************************************************)
EXTENDS Shortcuts

CONSTANTS
  Complaints,    \* rows of the complaints table
  Reporters,     \* requests that report a shortcut
  Moderators     \* a moderator's requests, one after the other

ASSUME ModerationAssumption ==
  /\ IsFiniteSet(Moderators)
  /\ Never \notin Ids \cup Complaints

VARIABLES
  complaint,     \* the complaints table
  report,        \* transactions of ComplaintServiceImpl.create
  work,          \* transactions of ComplaintServiceImpl.deleteById
  acknowledged   \* history: deletions that were answered 204, per complaint

modVars == <<complaint, report, work, acknowledged>>
allVars == <<vars, modVars>>

ComplaintType == [state : {"absent", "live", "deleted"}, about : Ids \cup {Never}]
WorkType == [pc : {"idle", "found"}, complaint : Complaints \cup {Never},
             stale : BOOLEAN]      \* the complaint was written since it was found

NoComplaint == [state |-> "absent", about |-> Never]
NoWork == [pc |-> "idle", complaint |-> Never, stale |-> FALSE]

ModerationTypeOK ==
  /\ complaint \in [Complaints -> ComplaintType]
  /\ report \in [Reporters -> Ids \cup {Never}]
  /\ work \in [Moderators -> WorkType]
  /\ acknowledged \in [Complaints -> 0..Cardinality(Moderators)]
  /\ \A c \in Complaints :
       complaint[c].state # "absent" => rows[complaint[c].about].state # "absent"

ModerationInit ==
  /\ Init
  /\ complaint = [c \in Complaints |-> NoComplaint]
  /\ report = [p \in Reporters |-> Never]
  /\ work = [m \in Moderators |-> NoWork]
  /\ acknowledged = [c \in Complaints |-> 0]

-----------------------------------------------------------------------------
(* Complaints. *)

Open == {c \in Complaints : complaint[c].state = "live"}

\* Mutant of Report: the tag is taken as it is given.
ReportAnything(p, s) ==
  /\ report[p] = Never
  /\ report' = [report EXCEPT ![p] = s]
  /\ UNCHANGED <<vars, complaint, work, acknowledged>>

\* findByTag: not deleted; one that has expired can still be reported.
Report(p, s) ==
  /\ report[p] = Never
  /\ rows[s].state = "live"
  /\ report' = [report EXCEPT ![p] = s]
  /\ UNCHANGED <<vars, complaint, work, acknowledged>>

\* Mutant of CommitReport: the row of a deleted complaint is used again.
CommitReportOverDeleted(p, c) ==
  /\ report[p] # Never
  /\ c \notin Open
  /\ complaint' = [complaint EXCEPT ![c] = [state |-> "live", about |-> report[p]]]
  /\ report' = [report EXCEPT ![p] = Never]
  /\ UNCHANGED <<vars, work, acknowledged>>

\* The insert: the shortcut may be deleted by now.
CommitReport(p, c) ==
  /\ report[p] # Never
  /\ complaint[c].state = "absent"
  /\ complaint' = [complaint EXCEPT ![c] = [state |-> "live", about |-> report[p]]]
  /\ report' = [report EXCEPT ![p] = Never]
  /\ UNCHANGED <<vars, work, acknowledged>>

\* deleteById, first transaction.
Find(m, c) ==
  /\ work[m].pc = "idle"
  /\ c \in Open
  /\ work' = [work EXCEPT ![m] = [pc |-> "found", complaint |-> c, stale |-> FALSE]]
  /\ UNCHANGED <<vars, complaint, report, acknowledged>>

\* Mutant of Outdated: entities without @Version.
OutdatedNever(c) == work

\* Who has found the complaint holds an old version of it.
Outdated(c) ==
  [m \in Moderators |-> IF work[m].pc = "found" /\ work[m].complaint = c
                        THEN [work[m] EXCEPT !.stale = TRUE] ELSE work[m]]

\* deleteSoft, second transaction: an old version fails and nothing is written.
Delete(m) ==
  LET c == work[m].complaint
  IN  /\ work[m].pc = "found"
      /\ IF work[m].stale
         THEN /\ work' = [work EXCEPT ![m] = NoWork]
              /\ UNCHANGED <<complaint, acknowledged>>
         ELSE /\ complaint' = [complaint EXCEPT ![c].state = "deleted"]
              /\ work' = [Outdated(c) EXCEPT ![m] = NoWork]
              /\ acknowledged' = [acknowledged EXCEPT ![c] = @ + 1]
      /\ UNCHANGED <<vars, report>>

ModerationNext ==
  \/ Next /\ UNCHANGED modVars
  \/ \E p \in Reporters, s \in Ids : Report(p, s)
  \/ \E p \in Reporters, c \in Complaints : CommitReport(p, c)
  \/ \E m \in Moderators, c \in Complaints : Find(m, c)
  \/ \E m \in Moderators : Delete(m)

ModerationSpec == ModerationInit /\ [][ModerationNext]_allVars

-----------------------------------------------------------------------------
(* Properties. *)

\* Two moderators who delete the same complaint are not both told that they
\* did, although finding it and marking it are two transactions.
AcknowledgedOnce == \A c \in Complaints : acknowledged[c] <= 1

\* A complaint stays open, about the shortcut it was made about, until a
\* moderator deletes it: not when the shortcut expires or goes, with or without
\* its owner, and not when another complaint is deleted at the same time.  Once
\* deleted it never opens again.
OpenUntilJudged ==
  [][\A c \in Complaints : complaint[c].state # "absent" =>
       /\ complaint'[c].about = complaint[c].about
       /\ c \notin Open => c \notin Open'
       /\ c \in Open /\ c \notin Open' =>
            \E m \in Moderators : work[m].complaint = c /\ work'[m] = NoWork]_allVars
=============================================================================
