----------------------------- MODULE Shortcuts -----------------------------
(***************************************************************************)
(* Shortcuts: their creation within the entitlements of the owner's plan,   *)
(* their expiry, soft deletion and the clean-up job.  ShortcutServiceImpl   *)
(* .create opens no transaction of its own: every entitlement check is a    *)
(* transaction, the insert is another, and between them other requests,     *)
(* a change of plan, a deletion of the account and time interleave.  One    *)
(* EntityManager serves the whole request (open-in-view): each check asks   *)
(* the database whether the account is there, and gets the entity, with its *)
(* plan, that the first check loaded.                                       *)
(*                                                                         *)
(* Plan changes and account deletions are the environment here; Billing and *)
(* UserAccounts model when the program makes them.                          *)
(***************************************************************************)
EXTENDS Integers, FiniteSets

CONSTANTS
  Ids,            \* rows of the shortcuts table (a fresh tag each)
  Users,
  Requests,       \* creation requests being served
  Anonymous,      \* no principal: ownerId is null, created_by is null
  Never,          \* expiresAt is null
  MaxLifetime,    \* bound: ticks from now to the latest expiresAt asked for
  Plans,
  FreePlan,       \* the plan of a new account
  MaxPermanent,   \* subscription-plans.yml: maxPermanentShortcuts of a plan
  MaxExpirable,   \* ... maxExpirableShortcuts
  CanProtect      \* ... canCreatePasswordProtectedShortcuts

ASSUME SortsAssumption ==
  /\ Anonymous \notin Users
  /\ IsFiniteSet(Ids) /\ IsFiniteSet(Requests) /\ Requests # {}
  /\ MaxLifetime \in Nat /\ Never \notin Nat

ASSUME PlansAssumption ==
  /\ FreePlan \in Plans
  /\ MaxPermanent \in [Plans -> Nat]
  /\ MaxExpirable \in [Plans -> Nat]
  /\ CanProtect \in [Plans -> BOOLEAN]

VARIABLES
  rows,      \* the shortcuts table
  plan,      \* users.plan
  gone,      \* users soft-deleted
  req,       \* the creation requests
  hadPlans   \* history: the plans an account has had

vars == <<rows, plan, gone, req, hadPlans>>

Owners == Users \cup {Anonymous}

\* A validated ShortcutCreationDto: expiresAt is in the future when it arrives.
Payloads == [permanent : BOOLEAN, protected : BOOLEAN, expires : 1..MaxLifetime \cup {Never}]

\* Ticks left until expiresAt, 0 when it has passed.
Expiries == 0..MaxLifetime \cup {Never}

RowType == [state : {"absent", "live", "deleted"}, owner : Owners,
            permanent : BOOLEAN, protected : BOOLEAN, expires : Expiries]

ReqType == [pc : {"idle", "permanent", "expirable", "password", "save"},
            owner : Owners,
            permanent : BOOLEAN, protected : BOOLEAN, expires : Expiries,
            loaded : BOOLEAN, plan : Plans]     \* the owner's entity, if loaded

TypeOK ==
  /\ rows \in [Ids -> RowType]
  /\ plan \in [Users -> Plans]
  /\ gone \subseteq Users
  /\ req \in [Requests -> ReqType]
  /\ hadPlans \in [Users -> SUBSET Plans]

NoRow == [state |-> "absent", owner |-> Anonymous,
          permanent |-> FALSE, protected |-> FALSE, expires |-> Never]

NoReq == [pc |-> "idle", owner |-> Anonymous,
          permanent |-> FALSE, protected |-> FALSE, expires |-> Never,
          loaded |-> FALSE, plan |-> FreePlan]

Init ==
  /\ rows = [s \in Ids |-> NoRow]
  /\ plan = [u \in Users |-> FreePlan]
  /\ gone = {}
  /\ req = [r \in Requests |-> NoReq]
  /\ hadPlans = [u \in Users |-> {FreePlan}]

-----------------------------------------------------------------------------
(* The queries. *)

\* findValidByTag and the counts: not deleted and not expired.
Valid(s) == rows[s].state = "live" /\ rows[s].expires # 0

PermanentOf(u) == {s \in Ids : Valid(s) /\ rows[s].owner = u /\ rows[s].permanent}

ExpirableOf(u) == {s \in Ids : Valid(s) /\ rows[s].owner = u /\ rows[s].expires # Never}

\* The checks of SubscriptionEntitlementServiceImpl.  An anonymous owner has no
\* feature, a deleted one is not found.
HasAccount(o) == o \in Users \ gone

\* The plan a check goes by: that of the entity, read by the first check.
PlanSeen(q) == IF q.loaded \/ ~HasAccount(q.owner) THEN q.plan ELSE plan[q.owner]

\* Mutants of the two limits: one shortcut too many.
MayCreatePermanentOff(q) ==
  HasAccount(q.owner) /\ Cardinality(PermanentOf(q.owner)) <= MaxPermanent[PlanSeen(q)]
MayCreateExpirableOff(q) ==
  HasAccount(q.owner) /\ Cardinality(ExpirableOf(q.owner)) <= MaxExpirable[PlanSeen(q)]

MayCreatePermanent(q) ==
  HasAccount(q.owner) /\ Cardinality(PermanentOf(q.owner)) < MaxPermanent[PlanSeen(q)]

MayCreateExpirable(q) ==
  HasAccount(q.owner) /\ Cardinality(ExpirableOf(q.owner)) < MaxExpirable[PlanSeen(q)]

MayCreateProtected(q) == HasAccount(q.owner) /\ CanProtect[PlanSeen(q)]

-----------------------------------------------------------------------------
(* Creation.  Every check is skipped when the payload does not ask for it. *)

\* Bound: a request is admitted only while there is a row left for it.
Reserve == Cardinality({s \in Ids : rows[s].state = "absent"})
             > Cardinality({r \in Requests : req[r].pc # "idle"})

Submit(r, o, p) ==
  /\ req[r].pc = "idle"
  /\ Reserve
  /\ o \notin gone
  /\ req' = [req EXCEPT ![r] =
               [NoReq EXCEPT !.pc = "permanent", !.owner = o, !.permanent = p.permanent,
                             !.protected = p.protected, !.expires = p.expires]]
  /\ UNCHANGED <<rows, plan, gone, hadPlans>>

\* One check: the request goes on, or the exception ends it.
Check(r, at, asked, allowed, next) ==
  /\ req[r].pc = at
  /\ req' = [req EXCEPT ![r] =
               IF ~asked THEN [@ EXCEPT !.pc = next]
               ELSE IF allowed THEN [@ EXCEPT !.pc = next, !.loaded = TRUE, !.plan = PlanSeen(req[r])]
               ELSE NoReq]
  /\ UNCHANGED <<rows, plan, gone, hadPlans>>

CheckPermanent(r) ==
  Check(r, "permanent", req[r].permanent, MayCreatePermanent(req[r]), "expirable")

\* Whether or not the shortcut is to be permanent.
CheckExpirable(r) ==
  Check(r, "expirable", req[r].expires # Never, MayCreateExpirable(req[r]), "password")

\* Mutant of CheckPassword: the check of the plan's feature is forgotten.
CheckNoPassword(r) == Check(r, "password", FALSE, FALSE, "save")

CheckPassword(r) ==
  Check(r, "password", req[r].protected, MayCreateProtected(req[r]), "save")

\* Mutant of Save: the tag of a deleted shortcut is given again.
SaveOverDeleted(r, s) ==
  /\ req[r].pc = "save"
  /\ rows[s].state # "live"
  /\ rows' = [rows EXCEPT ![s] =
                [state |-> "live", owner |-> req[r].owner, permanent |-> req[r].permanent,
                 protected |-> req[r].protected,
                 expires |-> IF req[r].permanent THEN Never ELSE req[r].expires]]
  /\ req' = [req EXCEPT ![r] = NoReq]
  /\ UNCHANGED <<plan, gone, hadPlans>>

\* A permanent shortcut does not keep its expiresAt; the auditor sets createdBy.
Save(r, s) ==
  /\ req[r].pc = "save"
  /\ rows[s].state = "absent"
  /\ rows' = [rows EXCEPT ![s] =
                [state |-> "live", owner |-> req[r].owner, permanent |-> req[r].permanent,
                 protected |-> req[r].protected,
                 expires |-> IF req[r].permanent THEN Never ELSE req[r].expires]]
  /\ req' = [req EXCEPT ![r] = NoReq]
  /\ UNCHANGED <<plan, gone, hadPlans>>

-----------------------------------------------------------------------------
(* Deletion, clean-up and the environment. *)

\* deleteByTag of the owner or of a moderator; deleted shortcuts are not found.
DeleteByTag(s) ==
  /\ rows[s].state = "live"
  /\ rows' = [rows EXCEPT ![s].state = "deleted"]
  /\ UNCHANGED <<plan, gone, req, hadPlans>>

\* The job reaches a @Modifying query with no transaction on its way: neither
\* run, deleteAllTemporaryCreatedBefore of the service nor that of the
\* repository opens one, and JPA refuses a bulk statement outside of one.  The
\* run ends with that exception and changes nothing.
CleanUp == UNCHANGED vars

SetPlan(u, p) ==
  /\ u \notin gone
  /\ p # plan[u]
  /\ plan' = [plan EXCEPT ![u] = p]
  /\ hadPlans' = [hadPlans EXCEPT ![u] = @ \cup {p}]
  /\ UNCHANGED <<rows, gone, req>>

\* UserServiceImpl.delete soft-deletes the row of the user and nothing else.
DeleteAccount(u) ==
  /\ u \notin gone
  /\ gone' = gone \cup {u}
  /\ UNCHANGED <<rows, plan, req, hadPlans>>

\* Mutant of Later: an expiry that has passed is moved on.
LaterStill(e) == IF e = Never THEN e ELSE e - 1

Later(e) == IF e \in {0, Never} THEN e ELSE e - 1

Tick ==
  /\ rows' = [s \in Ids |-> [rows[s] EXCEPT !.expires = Later(@)]]
  /\ req' = [r \in Requests |-> [req[r] EXCEPT !.expires = Later(@)]]
  /\ UNCHANGED <<plan, gone, hadPlans>>

Step(r) ==
  CheckPermanent(r) \/ CheckExpirable(r) \/ CheckPassword(r) \/ \E s \in Ids : Save(r, s)

Next ==
  \/ \E r \in Requests, o \in Owners, p \in Payloads : Submit(r, o, p)
  \/ \E r \in Requests : Step(r)
  \/ \E s \in Ids : DeleteByTag(s)
  \/ CleanUp
  \/ \E u \in Users, p \in Plans : SetPlan(u, p)
  \/ \E u \in Users : DeleteAccount(u)
  \/ Tick

Spec == Init /\ [][Next]_vars

\* Requests are served, the job runs every day, time passes.
Fairness == (\A r \in Requests : WF_vars(Step(r))) /\ WF_vars(Tick)
            /\ WF_vars(CleanUp)

FairSpec == Spec /\ Fairness

-----------------------------------------------------------------------------
(* Properties. *)

\* The requests of u that will save a permanent shortcut unless a later check
\* stops them, and those that will save an expirable one.
PendingPermanent(u) ==
  {r \in Requests : /\ req[r].pc \in {"expirable", "password", "save"}
                    /\ req[r].owner = u /\ req[r].permanent}

PendingExpirable(u) ==
  {r \in Requests : /\ req[r].pc \in {"password", "save"}
                    /\ req[r].owner = u /\ ~req[r].permanent
                    /\ req[r].expires \notin {0, Never}}

\* The checks of create are not atomic with its insert, so a limit can be
\* exceeded, but never by more than the other requests in flight at the time:
\* what is there and what is on its way stay below the limit of some plan the
\* owner has had, plus one place for each concurrent request.
BoundedPermanent ==
  \A u \in Users : \E p \in hadPlans[u] :
    Cardinality(PermanentOf(u)) + Cardinality(PendingPermanent(u))
      < MaxPermanent[p] + Cardinality(Requests)

BoundedExpirable ==
  \A u \in Users : \E p \in hadPlans[u] :
    Cardinality(ExpirableOf(u)) + Cardinality(PendingExpirable(u))
      < MaxExpirable[p] + Cardinality(Requests)

\* What a plan pays for is only ever in the hands of an account that had such a
\* plan: anonymous shortcuts are temporary, without expiry and unprotected, and
\* a protected one belongs to an account that could protect (create and the
\* three checks together, across plan changes).
OnlyEntitled ==
  \A s \in Ids : rows[s].state # "absent" =>
    LET o == rows[s].owner IN
      /\ o = Anonymous => ~rows[s].permanent /\ ~rows[s].protected /\ rows[s].expires = Never
      /\ rows[s].protected => \E p \in hadPlans[o] : CanProtect[p]
      /\ rows[s].permanent => rows[s].expires = Never

\* A shortcut that stopped resolving, by expiry or deletion, never resolves
\* again, and its tag is never given to another one.
StaysGone ==
  [][\A s \in Ids : rows[s].state # "absent" /\ ~Valid(s)
       => ~Valid(s)' /\ rows'[s].owner = rows[s].owner]_vars

\* openapi.yml: "Anonymous shortcuts are also automatically deleted after a
\* certain period of time."
AnonymousDeleted ==
  \A s \in Ids : rows[s].state = "live" /\ rows[s].owner = Anonymous
                   ~> rows[s].state # "live"
=============================================================================
