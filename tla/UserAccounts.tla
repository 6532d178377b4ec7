---------------------------- MODULE UserAccounts ----------------------------
(***************************************************************************)
(* The users table under concurrent requests: UserServiceImpl's changes of  *)
(* roles, locks and accounts, registration, the first login through an      *)
(* identity provider and the seeding of the initial administrator.          *)
(*                                                                         *)
(* A service method is one database transaction at READ COMMITTED: it loads *)
(* the user, runs its checks (queries of their own, which see what others   *)
(* have committed by then) and writes when it commits.  Only the row it     *)
(* loaded is protected, by the @Version of BaseEntity: a transaction whose  *)
(* row was written in the meantime cannot commit a change of it.            *)
(***************************************************************************)
EXTENDS Integers, FiniteSets

CONSTANTS
  Emails,         \* an account per e-mail address (uq_users_email)
  Requests,       \* transactions in progress
  Roles,
  AdminRole,      \* ROLE_ADMIN
  UserRole,       \* ROLE_USER, the role of a new account
  InitialAdmins,  \* the accounts the system starts with, all administrators
  SeedEmail,      \* attoly.scheduling.jobs.initial-admin-creation.email
  Payers,         \* bound: the accounts the payment provider reports on
  Operations      \* bound: the operations an instance exercises together

Changes == {"assign", "remove", "lock", "unlock", "delete"}
Inserts == {"register", "oauth", "seed"}

ASSUME AccountsAssumption ==
  /\ IsFiniteSet(Requests)
  /\ AdminRole \in Roles /\ UserRole \in Roles /\ AdminRole # UserRole
  /\ InitialAdmins \subseteq Emails /\ InitialAdmins # {}
  /\ SeedEmail \in Emails /\ Payers \subseteq Emails
  /\ Operations \subseteq Changes \cup Inserts

VARIABLES
  status,       \* "absent", "live" or (soft-)"deleted", per e-mail address
  roles,        \* user_roles
  locked,       \* users.locked
  subscribed,   \* accounts whose billing data says ACTIVE or PAST_DUE
  tx,           \* the transactions in progress
  raced         \* history: an administrator went after another one had gone
                \* between its guard and its commit

vars == <<status, roles, locked, subscribed, tx, raced>>

TxType ==
  [pc : {"idle", "loaded", "checked", "insert", "inserted"},
   op : Changes \cup Inserts \cup {"none"},
   email : Emails,
   role : Roles,                  \* the role to assign or to remove
   roles : SUBSET Roles,          \* the user as loaded
   locked : BOOLEAN,
   subscribed : BOOLEAN,
   stale : BOOLEAN,               \* the row was written since it was loaded
   overtaken : BOOLEAN]           \* an administrator has gone since the guard

NoTx == [pc |-> "idle", op |-> "none", email |-> SeedEmail, role |-> UserRole,
         roles |-> {}, locked |-> FALSE, subscribed |-> FALSE,
         stale |-> FALSE, overtaken |-> FALSE]

TypeOK ==
  /\ status \in [Emails -> {"absent", "live", "deleted"}]
  /\ roles \in [Emails -> SUBSET Roles]
  /\ locked \subseteq Emails
  /\ subscribed \subseteq Emails
  /\ tx \in [Requests -> TxType]
  /\ raced \in BOOLEAN
  /\ \A e \in Emails : status[e] = "absent" => roles[e] = {} /\ e \notin locked \cup subscribed

Init ==
  /\ status = [e \in Emails |-> IF e \in InitialAdmins THEN "live" ELSE "absent"]
  /\ roles = [e \in Emails |-> IF e \in InitialAdmins THEN {AdminRole} ELSE {}]
  /\ locked = {}
  /\ subscribed = {}
  /\ tx = [r \in Requests |-> NoTx]
  /\ raced = FALSE

-----------------------------------------------------------------------------
(* Queries. *)

Live(e) == status[e] = "live"

LiveAdmins == {e \in Emails : Live(e) /\ AdminRole \in roles[e]}

\* Mutant of OtherAdmin: the account itself is counted.
AnyAdmin(e) == LiveAdmins # {}

\* existsAnyWithRoleExceptEmail: locked administrators count too.
OtherAdmin(e) == LiveAdmins \ {e} # {}

\* Mutant of Invalidate: entities without @Version.
InvalidateUnversioned(t, e) == t

\* The row of e is written: who has loaded it now holds an old version.
Invalidate(t, e) ==
  [q \in Requests |->
     IF t[q].email = e /\ t[q].pc \in {"loaded", "checked"}
     THEN [t[q] EXCEPT !.stale = TRUE] ELSE t[q]]

End(t, r) == [t EXCEPT ![r] = NoTx]

-----------------------------------------------------------------------------
(* Changes of an account. *)

\* Mutant of Load: an account that is not there is changed as well.
LoadAny(r, op, e, role) ==
  /\ tx[r].pc = "idle"
  /\ op \in {"assign", "remove"} \/ role = UserRole
  /\ tx' = [tx EXCEPT ![r] = [NoTx EXCEPT !.pc = "loaded", !.op = op, !.email = e,
                                !.role = role, !.roles = roles[e]]]
  /\ UNCHANGED <<status, roles, locked, subscribed, raced>>

\* findById, findByEmail: deleted accounts are not found.
Load(r, op, e, role) ==
  /\ tx[r].pc = "idle"
  /\ Live(e)
  /\ op \in {"assign", "remove"} \/ role = UserRole
  /\ tx' = [tx EXCEPT ![r] = [NoTx EXCEPT !.pc = "loaded", !.op = op, !.email = e,
                                !.role = role, !.roles = roles[e],
                                !.locked = (e \in locked),
                                !.subscribed = (e \in subscribed)]]
  /\ UNCHANGED <<status, roles, locked, subscribed, raced>>

\* Mutant of AffectsAdministration: nobody asks when an account is deleted.
AffectsAdministrationByRole(t) ==
  \/ t.op = "remove" /\ t.role = AdminRole
  \/ t.op \in {"lock", "unlock"} /\ AdminRole \in t.roles

\* The operation may take an administrator away (an unlock is guarded as well).
AffectsAdministration(t) ==
  \/ t.op = "remove" /\ t.role = AdminRole
  \/ t.op \in {"lock", "unlock", "delete"} /\ AdminRole \in t.roles

\* MustBeAdministrableException, UserDeletionBlockedByActiveSubscriptionException.
Refused(t) ==
  \/ AffectsAdministration(t) /\ ~OtherAdmin(t.email)
  \/ t.op = "delete" /\ t.subscribed

Guard(r) ==
  /\ tx[r].pc = "loaded"
  /\ tx' = [tx EXCEPT ![r] = IF Refused(@) THEN NoTx ELSE [@ EXCEPT !.pc = "checked"]]
  /\ UNCHANGED <<status, roles, locked, subscribed, raced>>

\* The entity after the operation, compared with the entity as loaded: only a
\* difference is written and only a write is checked against the version.
RolesAfter(t) == CASE t.op = "assign" -> t.roles \cup {t.role}
                   [] t.op = "remove" -> t.roles \ {t.role}
                   [] OTHER -> t.roles

LockedAfter(t) == IF t.op \in {"lock", "unlock"} THEN t.op = "lock" ELSE t.locked

Dirty(t) == t.op = "delete" \/ RolesAfter(t) # t.roles \/ LockedAfter(t) # t.locked

AdminGoes(t) == AdminRole \in t.roles /\ (t.op = "delete" \/ AdminRole \notin RolesAfter(t))

\* An administrator goes: overtaken is who is past its guard to do the same.
Overtake(t) ==
  [q \in Requests |-> IF t[q].pc = "checked" /\ AdminGoes(t[q])
                      THEN [t[q] EXCEPT !.overtaken = TRUE] ELSE t[q]]

Put(S, e, in) == IF in THEN S \cup {e} ELSE S \ {e}

\* Every column of the entity is written: UPDATE ... WHERE version = ?;
\* no row found means an optimistic lock failure.
Commit(r) ==
  LET t == tx[r] IN
    /\ t.pc = "checked"
    /\ \/ /\ Dirty(t) => t.stale
          /\ tx' = End(tx, r)
          /\ UNCHANGED <<status, roles, locked, subscribed, raced>>
       \/ /\ Dirty(t) /\ ~t.stale
          /\ status' = IF t.op = "delete" THEN [status EXCEPT ![t.email] = "deleted"] ELSE status
          /\ roles' = [roles EXCEPT ![t.email] = RolesAfter(t)]
          /\ locked' = Put(locked, t.email, LockedAfter(t))
          /\ subscribed' = Put(subscribed, t.email, t.subscribed)
          /\ raced' = (raced \/ (AdminGoes(t) /\ t.overtaken))
          /\ LET others == Invalidate(End(tx, r), t.email)
             IN  tx' = IF AdminGoes(t) THEN Overtake(others) ELSE others

-----------------------------------------------------------------------------
(* New accounts. *)

\* What each path asks of the table before it inserts: registration for no row
\* at all, the others for no live one.
SeesNoAccount(op, e) ==
  CASE op = "register" -> status[e] = "absent"
    [] op = "oauth"    -> ~Live(e)
    [] op = "seed"     -> ~Live(e) /\ e = SeedEmail

Arrive(r, op, e) ==
  /\ tx[r].pc = "idle"
  /\ SeesNoAccount(op, e)
  /\ tx' = [tx EXCEPT ![r] = [NoTx EXCEPT !.pc = "insert", !.op = op, !.email = e]]
  /\ UNCHANGED <<status, roles, locked, subscribed, raced>>

\* Mutant of Insert: uniqueness among the accounts that are not deleted only.
InsertOverDeleted(r) ==
  LET t == tx[r] IN
    /\ t.pc = "insert"
    /\ \A q \in Requests : ~(tx[q].pc = "inserted" /\ tx[q].email = t.email)
    /\ tx' = IF Live(t.email) THEN End(tx, r) ELSE [tx EXCEPT ![r].pc = "inserted"]
    /\ UNCHANGED <<status, roles, locked, subscribed, raced>>

\* uq_users_email makes an insert wait for another of the same address, and
\* fail when there is a row, deleted or not.
Insert(r) ==
  LET t == tx[r] IN
    /\ t.pc = "insert"
    /\ \A q \in Requests : ~(tx[q].pc = "inserted" /\ tx[q].email = t.email)
    /\ \/ /\ status[t.email] = "absent"
          /\ tx' = [tx EXCEPT ![r].pc = "inserted"]
       \/ /\ status[t.email] # "absent"
          /\ tx' = End(tx, r)
    /\ UNCHANGED <<status, roles, locked, subscribed, raced>>

CommitInsert(r) ==
  LET t == tx[r] IN
    /\ t.pc = "inserted"
    /\ status' = [status EXCEPT ![t.email] = "live"]
    /\ roles' = [roles EXCEPT ![t.email] = {IF t.op = "seed" THEN AdminRole ELSE UserRole}]
    /\ tx' = End(tx, r)
    /\ UNCHANGED <<locked, subscribed, raced>>

\* create sends the verification mail before it commits; when that fails the
\* account is rolled back.
MailFails(r) ==
  /\ tx[r].pc = "inserted" /\ tx[r].op = "register"
  /\ tx' = End(tx, r)
  /\ UNCHANGED <<status, roles, locked, subscribed, raced>>

-----------------------------------------------------------------------------
(* The webhook of the payment provider writes the same row. *)

SyncSubscription(e, active) ==
  /\ Live(e)
  /\ active # (e \in subscribed)
  /\ subscribed' = Put(subscribed, e, active)
  /\ tx' = Invalidate(tx, e)
  /\ UNCHANGED <<status, roles, locked, raced>>

Next ==
  \/ \E r \in Requests, op \in Changes \cap Operations, e \in Emails, role \in Roles : Load(r, op, e, role)
  \/ \E r \in Requests : Guard(r)
  \/ \E r \in Requests : Commit(r)
  \/ \E r \in Requests, op \in Inserts \cap Operations, e \in Emails : Arrive(r, op, e)
  \/ \E r \in Requests : Insert(r)
  \/ \E r \in Requests : CommitInsert(r)
  \/ \E r \in Requests : MailFails(r)
  \/ \E e \in Payers, active \in BOOLEAN : SyncSubscription(e, active)

Spec == Init /\ [][Next]_vars

-----------------------------------------------------------------------------
(* Properties. *)

\* The system keeps an administrator unless two transactions each removed one
\* after seeing the other's (removeRole, delete: the guard reads other rows
\* than the one whose version protects the commit).
AdminRemains == LiveAdmins = {} => raced

\* An account is not deleted with an active subscription, although the check
\* is made on the row as loaded: a webhook in between changes the version.
DeletedUnsubscribed == \A e \in Emails : status[e] = "deleted" => e \notin subscribed

\* A commit writes the whole row as it was loaded, and yet never undoes what
\* another transaction or the webhook made of it: of one role, the lock, the
\* subscription and the deletion mark, a step changes one thing.
RoleChanges(e) ==
  {role \in Roles : (role \in roles[e]) # (role \in roles'[e])}

NoLostUpdate ==
  [][\A e \in Emails : Live(e) =>
       LET lock   == (e \in locked) # (e \in locked')
           paid   == (e \in subscribed) # (e \in subscribed')
           delete == ~Live(e)'
       IN  /\ Cardinality(RoleChanges(e)) <= 1
           /\ RoleChanges(e) # {} => ~lock /\ ~paid /\ ~delete
           /\ lock => ~paid /\ ~delete
           /\ paid => ~delete]_vars

\* A deleted account stays deleted whoever asks for its address again, by
\* registration, through the identity provider or as the initial administrator.
DeletedForGood ==
  [][\A e \in Emails : status[e] = "deleted"
       => status'[e] = "deleted" /\ roles'[e] = roles[e]]_vars

\* Loads, guards, versions and failed commits amount to UserService: every
\* operation that succeeds takes place at once, on the account as it is when it
\* commits, for the administrators as they are then unless their guards raced.
Service == INSTANCE UserService WITH skewed <- raced

ImplementsService == Service!Spec

\* MustBeAdministrableException: "Thrown when an operation would remove the
\* last administrator from the system."
AlwaysAdministrable == LiveAdmins # {}

\* InitialAdminCreationJob: "The user is only created, if it didn't already
\* exists" - otherwise the job does nothing and the instance starts.
\* (An exception in the job ends the start of the application.)
InstancesStart ==
  [][\A r \in Requests : tx[r].op = "seed" /\ tx[r].pc = "insert"
       => tx'[r].pc # "idle"]_vars
=============================================================================
