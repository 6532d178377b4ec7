------------------------------ MODULE Sessions ------------------------------
(***************************************************************************)
(* Who may change accounts: tokens name an e-mail address and are never     *)
(* revoked, AccessTokenAuthenticationFilter loads the account of that       *)
(* address at the beginning of a request, the access rules look at what it  *)
(* loaded, and the handler, a transaction of UserAccounts, loads the        *)
(* account it changes again.  Accounts and roles change in between.         *)
(*                                                                         *)
(* The exchange of a refresh token, here a step, is the subject of          *)
(* RefreshTokens; the token presented stays in this module until it         *)
(* expires, which allows more than the exchange does.                       *)
(***************************************************************************)
EXTENDS UserAccounts

CONSTANTS
  AccessLife,     \* ticks an access token is good for
  RefreshLife,    \* ... a refresh token
  RolesChanged,   \* bound: the roles an instance assigns and removes
  MaxSessions,    \* bound: accounts with tokens at a time
  MaxRow          \* bound: accounts an address has ever had

ASSUME LifetimesAssumption ==
  {AccessLife, RefreshLife, MaxSessions, MaxRow} \subseteq Nat \ {0} /\ RolesChanged \subseteq Roles

VARIABLES
  access,      \* access tokens somebody holds: signed, with an expiry
  refresh,     \* refresh tokens in Redis
  passed,      \* authentications whose tokens have not been issued yet
  principal,   \* the security context of a request
  row,         \* history: accounts an address has had (their id in users)
  entitled     \* history: requests that arrived from a live administrator

sessionVars == <<access, refresh, passed, principal>>
allVars == <<vars, sessionVars, row, entitled>>

TokenOf(life) == [email : Emails, row : 0..MaxRow, left : 1..life]

Passed == [email : Emails, row : 0..MaxRow]

\* Principal: the entity as the filter loaded it; of its authorities the rules
\* below ask for one.
PrincipalType == [on : BOOLEAN, email : Emails, row : 0..MaxRow, admin : BOOLEAN,
                  token : 0..MaxRow]    \* history: the account the token was issued to

Anyone == [on |-> FALSE, email |-> SeedEmail, row |-> 0, admin |-> FALSE, token |-> 0]

SessionsTypeOK ==
  /\ TypeOK
  /\ access \subseteq TokenOf(AccessLife)
  /\ refresh \subseteq TokenOf(RefreshLife)
  /\ passed \subseteq Passed
  /\ principal \in [Requests -> PrincipalType]
  /\ row \in [Emails -> 0..MaxRow]
  /\ entitled \subseteq Requests
  /\ \A e \in Emails : status[e] = "absent" <=> row[e] = 0

SessionsInit ==
  /\ Init
  /\ access = {} /\ refresh = {} /\ passed = {}
  /\ principal = [r \in Requests |-> Anyone]
  /\ row = [e \in Emails |-> IF Live(e) THEN 1 ELSE 0]
  /\ entitled = {}

-----------------------------------------------------------------------------
(* Tokens. *)

\* A password or an identity provider: only an account that is live passes (a
\* password also wants it verified and not locked).
Login(e) ==
  /\ Live(e)
  /\ Cardinality({x.email : x \in access \cup refresh \cup passed} \cup {e}) <= MaxSessions
  /\ passed' = passed \cup {[email |-> e, row |-> row[e]]}
  /\ UNCHANGED <<vars, access, refresh, principal, row, entitled>>

\* Mutant of Refresh: the account is not looked up.
RefreshBlindly(t) ==
  /\ t \in refresh
  /\ passed' = passed \cup {[email |-> t.email, row |-> t.row]}
  /\ UNCHANGED <<vars, access, refresh, principal, row, entitled>>

\* RefreshTokenAuthenticationProvider: the account is live; that it is locked or
\* not verified does not matter here.
Refresh(t) ==
  /\ t \in refresh
  /\ Live(t.email)
  /\ passed' = passed \cup {[email |-> t.email, row |-> t.row]}
  /\ UNCHANGED <<vars, access, refresh, principal, row, entitled>>

\* The success handlers issue both tokens without another look at the account.
Issue(p) ==
  /\ p \in passed
  /\ passed' = passed \ {p}
  /\ access' = access \cup {[email |-> p.email, row |-> p.row, left |-> AccessLife]}
  /\ refresh' = refresh \cup {[email |-> p.email, row |-> p.row, left |-> RefreshLife]}
  /\ UNCHANGED <<vars, principal, row, entitled>>

\* Mutant of Aged: a token is good for a tick more than it says.
AgedLate(S) == {[t EXCEPT !.left = @ - 1] : t \in {u \in S : u.left > 0}}

Aged(S) == {[t EXCEPT !.left = @ - 1] : t \in {u \in S : u.left > 1}}

Tick ==
  /\ access' = Aged(access)
  /\ refresh' = Aged(refresh)
  /\ UNCHANGED <<vars, passed, principal, row, entitled>>

-----------------------------------------------------------------------------
(* Requests. *)

\* An expired token or one without a live account leaves the request anonymous.
Authenticate(r, t) ==
  /\ tx[r].pc = "idle" /\ ~principal[r].on
  /\ t \in access
  /\ Live(t.email)
  /\ principal' = [principal EXCEPT ![r] =
                     [on |-> TRUE, email |-> t.email, row |-> row[t.email],
                      admin |-> (AdminRole \in roles[t.email]), token |-> t.row]]
  /\ entitled' = IF AdminRole \in roles[t.email] THEN entitled \cup {r} ELSE entitled
  /\ UNCHANGED <<vars, access, refresh, passed, row>>

\* @PreAuthorize of RoleAMCController and UserAMCController; DELETE /user/me.
Allowed(p, op, e) ==
  p.on /\ (p.admin \/ (op = "delete" /\ e = p.email))

Ended(r) == tx[r].pc # "idle" /\ tx'[r].pc = "idle"

\* Mutant of Cleared: the context stays with the thread.
ClearedNever == principal

\* The security context is cleared when the request has been served.
Cleared == [r \in Requests |-> IF Ended(r) THEN Anyone ELSE principal[r]]

NewRows == [e \in Emails |-> IF ~Live(e) /\ status'[e] = "live" THEN row[e] + 1 ELSE row[e]]

\* One step of UserAccounts within a request.
Served(step) ==
  /\ step
  /\ principal' = Cleared
  /\ entitled' = {r \in entitled : ~Ended(r)}
  /\ row' = NewRows
  /\ UNCHANGED <<access, refresh, passed>>

Handle(r, op, e, role) ==
  /\ op \in {"assign", "remove"} => role \in RolesChanged
  /\ Allowed(principal[r], op, e)
  /\ Served(Load(r, op, e, role))

\* A refused request, or one that only reads.
Leave(r) ==
  /\ tx[r].pc = "idle" /\ principal[r].on
  /\ principal' = [principal EXCEPT ![r] = Anyone]
  /\ entitled' = entitled \ {r}
  /\ UNCHANGED <<vars, access, refresh, passed, row>>

Go(r) ==
  \/ Served(Guard(r))
  \/ Served(Commit(r))
  \/ Served(Insert(r))
  \/ Served(CommitInsert(r))
  \/ Served(MailFails(r))
  \/ Leave(r)

SessionsNext ==
  \/ \E e \in Emails : Login(e)
  \/ \E t \in refresh : Refresh(t)
  \/ \E p \in passed : Issue(p)
  \/ \E r \in Requests, t \in access : Authenticate(r, t)
  \/ \E r \in Requests, op \in Changes \cap Operations, e \in Emails, role \in Roles :
       Handle(r, op, e, role)
  \/ \E r \in Requests, op \in Inserts \cap Operations, e \in Emails :
       ~principal[r].on /\ Served(Arrive(r, op, e))
  \/ \E r \in Requests : Go(r)
  \/ Tick

SessionsSpec == SessionsInit /\ [][SessionsNext]_allVars

\* Time passes, and an instance goes on with the requests it serves.
SessionsFairness ==
  /\ WF_allVars(Tick)
  /\ \A p \in Passed : WF_allVars(Issue(p))
  /\ \A r \in Requests : WF_allVars(Go(r))

FairSessionsSpec == SessionsSpec /\ SessionsFairness

-----------------------------------------------------------------------------
(* Properties. *)

\* Only a request that arrived from a live administrator changes roles or the
\* account of somebody else: who lost the role, or the account, before the
\* request arrived does nothing with a token issued earlier.
EntitledActors ==
  \A r \in Requests : tx[r].op \in Changes /\ tx[r].pc # "idle" =>
    \/ r \in entitled
    \/ tx[r].op = "delete" /\ tx[r].email = principal[r].email

\* A token never opens another account of the same address than the one it was
\* issued to, although it names the address only.
TokensKeepTheirAccount ==
  \A r \in Requests : principal[r].on => principal[r].row = principal[r].token

\* In the name of a deleted account nobody is authenticated any more, by password,
\* by refresh or by access token, and its tokens only age - except for those
\* of an authentication that had passed before, each of which is issued once.
DeletedGainsNothing ==
  [][\A e \in Emails : status[e] = "deleted" =>
       /\ \A p \in passed' \ passed : p.email # e
       /\ \A r \in Requests : principal'[r].on /\ principal'[r].email = e
            => principal[r].on /\ principal[r].email = e
       /\ \A t \in access' \cup refresh' : t.email = e =>
            \/ t \in access \cup refresh
            \/ \E u \in access \cup refresh : u.email = e /\ u.left > t.left
            \/ \E p \in passed \ passed' : p.email = e]_allVars

\* Once an account is deleted, sooner or later nobody has access in its name:
\* no token of it is left and no request is being served for it.
Reachable(e) ==
  \/ \E t \in access \cup refresh : t.email = e
  \/ \E p \in passed : p.email = e
  \/ \E r \in Requests : principal[r].on /\ principal[r].email = e

DeletedLosesAccess ==
  \A e \in Emails : [](status[e] = "deleted" => <>[]~Reachable(e))
=============================================================================
