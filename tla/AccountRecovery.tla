--------------------------- MODULE AccountRecovery ---------------------------
(***************************************************************************)
(* Verification of an e-mail address, reset and change of a password.  A    *)
(* request writes to two stores: one-time tokens live in Redis, where every *)
(* command takes effect at once and for everybody; the account lives in     *)
(* PostgreSQL, where the request's transaction takes effect when it commits *)
(* or not at all.  Between any two of these steps other requests run, time  *)
(* passes, the mail server fails or the instance dies.                      *)
(***************************************************************************)
EXTENDS Integers, FiniteSets

CONSTANTS
  Emails,       \* addresses, but for that of the seeded administrator
  Tokens,       \* a fresh one for every mail
  NoToken,
  Requests,     \* requests being served
  Passwords,
  NoPassword,   \* users.password is null: made by an identity provider
  Lifetime,     \* ticks until a token expires (@RedisHash timeToLive)
  MaxRows       \* bound: attempts to insert an account, per address

ASSUME RecoveryAssumption ==
  /\ IsFiniteSet(Requests)
  /\ NoPassword \notin Passwords /\ NoToken \notin Tokens
  /\ Emails # {}
  /\ Lifetime \in Nat \ {0} /\ MaxRows \in Nat \ {0}

VARIABLES
  acc,        \* users, per address
  made,       \* ids given to new rows so far, per address
  token,      \* Redis: VerificationToken and ResetToken
  mailed,     \* tokens that have reached a mailbox
  req,        \* the requests
  uses,       \* history: changes committed on behalf of a token (2: or more)
  served,     \* history: the rows those changes were made to
  existed,    \* history: rows that were committed, as <<email, row>>
  contested,  \* history: tokens another request had found before the deletion
  excused     \* history: tokens whose request was cut off after the deletion,
              \* lost to a newer version or found the address verified

vars == <<acc, made, token, mailed, req, uses, served, existed, contested, excused>>
history == <<uses, served, existed, contested, excused>>

Kinds == {"verify", "reset"}
Rows == 0..MaxRows

Entity == [row : Rows, verified : BOOLEAN, external : BOOLEAN,
           password : Passwords \cup {NoPassword}]
NoEntity == [row |-> 0, verified |-> FALSE, external |-> FALSE, password |-> NoPassword]

AccountType == [status : {"absent", "live", "deleted"}, entity : Entity]
TokenType == [status : {"unused", "stored", "deleted"}, kind : Kinds, email : Emails,
              row : Rows, ttl : 0..Lifetime]

\* insert, store, mail, commit: a registration or the request for a mail;
\* user, delete, write: a token was found; write alone: a change of password.
ReqType == [pc : {"idle", "insert", "store", "mail", "commit", "user", "delete", "write"},
            op : {"none", "register", "change"} \cup Kinds,
            email : Emails, token : Tokens \cup {NoToken},
            password : Passwords \cup {NoPassword},    \* the new one
            seen : Entity,                             \* the entity as loaded
            stale : BOOLEAN]                           \* the row was written since

AnyEmail == CHOOSE e \in Emails : TRUE

NoReq == [pc |-> "idle", op |-> "none", email |-> AnyEmail, token |-> NoToken,
          password |-> NoPassword, seen |-> NoEntity, stale |-> FALSE]

TypeOK ==
  /\ acc \in [Emails -> AccountType]
  /\ made \in [Emails -> Rows]
  /\ token \in [Tokens -> TokenType]
  /\ mailed \subseteq Tokens
  /\ req \in [Requests -> ReqType]
  /\ uses \in [Tokens -> 0..2]
  /\ served \in [Tokens -> SUBSET Rows]
  /\ existed \subseteq Emails \X Rows
  /\ contested \subseteq Tokens /\ excused \subseteq Tokens
  /\ \A e \in Emails : acc[e].status = "absent" => acc[e].entity = NoEntity
  /\ \A t \in Tokens : token[t].status # "unused" => token[t].row > 0

Init ==
  /\ acc = [e \in Emails |-> [status |-> "absent", entity |-> NoEntity]]
  /\ made = [e \in Emails |-> 0]
  /\ token = [t \in Tokens |-> [status |-> "unused", kind |-> "verify", email |-> AnyEmail,
                                row |-> 0, ttl |-> 0]]
  /\ mailed = {}
  /\ req = [r \in Requests |-> NoReq]
  /\ uses = [t \in Tokens |-> 0]
  /\ served = [t \in Tokens |-> {}]
  /\ existed = {} /\ contested = {} /\ excused = {}

-----------------------------------------------------------------------------
(* The two stores. *)

Live(e) == acc[e].status = "live"

\* Mutant of Resolves: both kinds of token under one key prefix.
ResolvesAny(t, kind) == token[t].status = "stored" /\ token[t].ttl > 0

\* findById of the repository of that kind of token.
Resolves(t, kind) ==
  token[t].status = "stored" /\ token[t].ttl > 0 /\ token[t].kind = kind

End(q, r) == [q EXCEPT ![r] = NoReq]

\* Mutant of Invalidate: entities without @Version.
InvalidateUnversioned(q, e) == q

\* The row of e is written: who has loaded it now holds an old version.
Invalidate(q, e) ==
  [r \in Requests |->
     IF q[r].email = e /\ q[r].pc \in {"delete", "write"}
     THEN [q[r] EXCEPT !.stale = TRUE] ELSE q[r]]

-----------------------------------------------------------------------------
(* Registration and the requests for a mail. *)

\* UserServiceImpl.create, when there is no row of that address.
Register(r, e, p) ==
  /\ req[r].pc = "idle"
  /\ acc[e].status = "absent" /\ made[e] < MaxRows
  /\ req' = [req EXCEPT ![r] = [NoReq EXCEPT !.pc = "insert", !.op = "register",
                                             !.email = e, !.password = p]]
  /\ UNCHANGED <<acc, made, token, mailed, history>>

\* An uncommitted row of the address makes the insert wait.
Inserting(e) ==
  \E q \in Requests : req[q].op = "register" /\ req[q].email = e
                      /\ req[q].pc \in {"store", "mail", "commit"}

\* Mutant of Insert: uniqueness among the accounts that are not deleted only.
InsertOverDeleted(r) ==
  LET e == req[r].email
  IN  /\ req[r].pc = "insert" /\ ~Inserting(e)
      /\ IF Live(e)
         THEN /\ req' = End(req, r)
              /\ UNCHANGED made
         ELSE /\ made[e] < MaxRows
              /\ made' = [made EXCEPT ![e] = @ + 1]
              /\ req' = [req EXCEPT ![r].pc = "store",
                           ![r].seen = [NoEntity EXCEPT !.row = made[e] + 1,
                                                        !.password = req[r].password]]
      /\ UNCHANGED <<acc, token, mailed, history>>

\* The insert is flushed by the query of sendVerificationMessageById; a row of
\* the address, deleted or not, makes it fail (uq_users_email).
Insert(r) ==
  LET e == req[r].email
  IN  /\ req[r].pc = "insert" /\ ~Inserting(e)
      /\ IF acc[e].status # "absent"
         THEN /\ req' = End(req, r)
              /\ UNCHANGED made
         ELSE /\ made[e] < MaxRows
              /\ made' = [made EXCEPT ![e] = @ + 1]
              /\ req' = [req EXCEPT ![r].pc = "store",
                           ![r].seen = [NoEntity EXCEPT !.row = made[e] + 1,
                                                        !.password = req[r].password]]
      /\ UNCHANGED <<acc, token, mailed, history>>

\* Mutant of Ask: the account is not looked for.
AskAny(r, kind, e) ==
  /\ req[r].pc = "idle"
  /\ kind = "verify" => ~acc[e].entity.verified
  /\ req' = [req EXCEPT ![r] = [NoReq EXCEPT !.pc = "store", !.op = kind, !.email = e,
                                             !.seen = acc[e].entity]]
  /\ UNCHANGED <<acc, made, token, mailed, history>>

\* sendVerificationMessageByEmail, sendResetMessageByEmail: a live account, and
\* for a verification one that needs it.
Ask(r, kind, e) ==
  /\ req[r].pc = "idle"
  /\ Live(e)
  /\ kind = "verify" => ~acc[e].entity.verified
  /\ req' = [req EXCEPT ![r] = [NoReq EXCEPT !.pc = "store", !.op = kind, !.email = e,
                                             !.seen = acc[e].entity]]
  /\ UNCHANGED <<acc, made, token, mailed, history>>

\* Mutant of Store: the mail goes out before the token is saved.
StoreAfterMail(r, t) ==
  /\ req[r].pc = "store" /\ token[t].status = "unused"
  /\ mailed' = mailed \cup {t}
  /\ req' = [req EXCEPT ![r].pc = "mail", ![r].token = t]
  /\ UNCHANGED <<acc, made, token, history>>

\* The token goes to Redis, for everybody to find, before the mail is sent and,
\* on registration, before the account is committed.
Store(r, t) ==
  /\ req[r].pc = "store" /\ token[t].status = "unused"
  /\ token' = [token EXCEPT ![t] =
                 [status |-> "stored", email |-> req[r].email, row |-> req[r].seen.row,
                  kind |-> IF req[r].op = "reset" THEN "reset" ELSE "verify",
                  ttl |-> Lifetime]]
  /\ req' = [req EXCEPT ![r].pc = "mail", ![r].token = t]
  /\ UNCHANGED <<acc, made, mailed, history>>

Mail(r) ==
  /\ req[r].pc = "mail"
  /\ mailed' = mailed \cup {req[r].token}
  /\ req' = IF req[r].op = "register" THEN [req EXCEPT ![r].pc = "commit"] ELSE End(req, r)
  /\ UNCHANGED <<acc, made, token, history>>

\* The send fails, perhaps after the server took the mail: the transaction of
\* a registration is rolled back, the token stays.
MailFails(r) ==
  /\ req[r].pc = "mail"
  /\ mailed' \in {mailed, mailed \cup {req[r].token}}
  /\ req' = End(req, r)
  /\ UNCHANGED <<acc, made, token, history>>

CommitRegistration(r) ==
  LET e == req[r].email
  IN  /\ req[r].pc = "commit"
      /\ acc' = [acc EXCEPT ![e] = [status |-> "live", entity |-> req[r].seen]]
      /\ existed' = existed \cup {<<e, req[r].seen.row>>}
      /\ req' = End(req, r)
      /\ UNCHANGED <<made, token, mailed, uses, served, contested, excused>>

-----------------------------------------------------------------------------
(* verifyByToken and resetByToken. *)

\* A token from a mailbox at either endpoint; one that is not found is refused
\* and changes nothing.
FindToken(r, kind, t, p) ==
  /\ req[r].pc = "idle"
  /\ t \in mailed
  /\ Resolves(t, kind)
  /\ req' = [req EXCEPT ![r] = [NoReq EXCEPT !.pc = "user", !.op = kind, !.token = t,
                                  !.email = token[t].email,
                                  !.password = IF kind = "reset" THEN p ELSE NoPassword]]
  /\ UNCHANGED <<acc, made, token, mailed, history>>

\* Mutant of FindUser: the token is deleted before its account is looked up.
FindUserOfDeleted(r) ==
  LET e == req[r].email
  IN  /\ req[r].pc = "user"
      /\ token' = [token EXCEPT ![req[r].token].status = "deleted"]
      /\ req' = IF Live(e) THEN [req EXCEPT ![r].pc = "delete", ![r].seen = acc[e].entity]
                           ELSE End(req, r)
      /\ UNCHANGED <<acc, made, mailed, history>>

\* Without a live account the request ends, and the token is still there.
FindUser(r) ==
  LET e == req[r].email
  IN  /\ req[r].pc = "user"
      /\ req' = IF Live(e) THEN [req EXCEPT ![r].pc = "delete", ![r].seen = acc[e].entity]
                           ELSE End(req, r)
      /\ UNCHANGED <<acc, made, token, mailed, history>>

\* Mutant of DeleteToken: the token is left to expire.
DeleteNothing(r) ==
  /\ req[r].pc = "delete"
  /\ req' = [req EXCEPT ![r].pc = "write"]
  /\ UNCHANGED <<acc, made, token, mailed, history>>

\* Deleting a token that is not there is no error.
DeleteToken(r) ==
  LET t == req[r].token
  IN  /\ req[r].pc = "delete"
      /\ token' = [token EXCEPT ![t].status = "deleted"]
      /\ req' = [req EXCEPT ![r].pc = "write"]
      /\ contested' = IF \E q \in Requests \ {r} : req[q].pc \in {"user", "delete"}
                                                   /\ req[q].token = t
                      THEN contested \cup {t} ELSE contested
      /\ UNCHANGED <<acc, made, mailed, uses, served, existed, excused>>

\* changePasswordByEmail: not for the account of an identity provider, and only
\* with the password in force.
ChangePassword(r, e, current, p) ==
  /\ req[r].pc = "idle"
  /\ Live(e) /\ ~acc[e].entity.external
  /\ current = acc[e].entity.password
  /\ req' = [req EXCEPT ![r] = [NoReq EXCEPT !.pc = "write", !.op = "change", !.email = e,
                                             !.password = p, !.seen = acc[e].entity]]
  /\ UNCHANGED <<acc, made, token, mailed, history>>

Changed(q) == IF q.op = "verify" THEN [q.seen EXCEPT !.verified = TRUE]
                                 ELSE [q.seen EXCEPT !.password = q.password]

\* Every column is written, under the version; an entity that is as it was
\* loaded is not written at all.  (A new hash differs whatever the password.)
Write(r) ==
  LET q == req[r]
      t == q.token
      e == q.email
      dirty == q.op = "verify" => ~q.seen.verified
      byToken == q.op \in Kinds
  IN  /\ q.pc = "write"
      /\ IF dirty /\ ~q.stale
         THEN /\ acc' = [acc EXCEPT ![e].entity = Changed(q)]
              /\ req' = Invalidate(End(req, r), e)
              /\ uses' = IF byToken /\ uses[t] < 2 THEN [uses EXCEPT ![t] = @ + 1] ELSE uses
              /\ served' = IF byToken THEN [served EXCEPT ![t] = @ \cup {q.seen.row}] ELSE served
              /\ UNCHANGED excused
         ELSE /\ req' = End(req, r)
              /\ excused' = IF byToken THEN excused \cup {t} ELSE excused
              /\ UNCHANGED <<acc, uses, served>>
      /\ UNCHANGED <<made, token, mailed, existed, contested>>

-----------------------------------------------------------------------------
(* What else happens to accounts, instances and time. *)

\* PrincipalOAuth2UserService: the first login through an identity provider.
RegisterExternal(e) ==
  /\ acc[e].status = "absent" /\ ~Inserting(e) /\ made[e] < MaxRows
  /\ made' = [made EXCEPT ![e] = @ + 1]
  /\ acc' = [acc EXCEPT ![e] =
               [status |-> "live",
                entity |-> [row |-> made[e] + 1, verified |-> TRUE, external |-> TRUE,
                            password |-> NoPassword]]]
  /\ existed' = existed \cup {<<e, made[e] + 1>>}
  /\ UNCHANGED <<token, mailed, req, uses, served, contested, excused>>

DeleteAccount(e) ==
  /\ Live(e)
  /\ acc' = [acc EXCEPT ![e].status = "deleted"]
  /\ req' = Invalidate(req, e)
  /\ UNCHANGED <<made, token, mailed, history>>

\* A role, a lock or the billing data of the account is written.
Touch(e) ==
  /\ Live(e)
  /\ req' = Invalidate(req, e)
  /\ UNCHANGED <<acc, made, token, mailed, history>>

\* The instance dies: what is in Redis stays, what is not committed is gone.
Crash(r) ==
  /\ req[r].pc # "idle"
  /\ excused' = IF req[r].pc = "write" /\ req[r].op \in Kinds
                THEN excused \cup {req[r].token} ELSE excused
  /\ req' = End(req, r)
  /\ UNCHANGED <<acc, made, token, mailed, uses, served, existed, contested>>

Tick ==
  /\ token' = [t \in Tokens |-> [token[t] EXCEPT !.ttl = IF @ > 0 THEN @ - 1 ELSE 0]]
  /\ UNCHANGED <<acc, made, mailed, req, history>>

Step(r) ==
  \/ Insert(r) \/ (\E t \in Tokens : Store(r, t)) \/ Mail(r) \/ MailFails(r)
  \/ CommitRegistration(r) \/ FindUser(r) \/ DeleteToken(r) \/ Write(r)

Next ==
  \/ \E r \in Requests, e \in Emails, p \in Passwords : Register(r, e, p)
  \/ \E r \in Requests, kind \in Kinds, e \in Emails : Ask(r, kind, e)
  \/ \E r \in Requests, kind \in Kinds, t \in Tokens, p \in Passwords : FindToken(r, kind, t, p)
  \/ \E r \in Requests, e \in Emails, current, p \in Passwords : ChangePassword(r, e, current, p)
  \/ \E r \in Requests : Step(r)
  \/ \E r \in Requests : Crash(r)
  \/ \E e \in Emails : RegisterExternal(e) \/ DeleteAccount(e) \/ Touch(e)
  \/ Tick

Spec == Init /\ [][Next]_vars

-----------------------------------------------------------------------------
(* Properties. *)

\* A token changes an account once, although finding it, deleting it and the
\* change are three steps in two stores.  Only requests that had all found it
\* before one of them deleted it can use it twice (verifyByToken, resetByToken).
SingleUse == \A t \in Tokens : uses[t] > 1 => t \in contested

\* A token that reached a mailbox is good until it expires: it was in Redis
\* first, and it is only taken from there for a change that happens, unless the
\* instance dies, somebody else wrote the account or it was verified already.
\* In particular a link opened before the registration commits is refused and
\* works when it is opened again.
MailedTokenWorks ==
  \A t \in mailed :
    \/ token[t].status = "stored"
    \/ uses[t] > 0
    \/ t \in excused
    \/ \E r \in Requests : req[r].pc = "write" /\ req[r].op \in Kinds /\ req[r].token = t

\* A token never changes another account than the one it was made for; one made
\* by a registration that was rolled back may serve the next registration of
\* the same address.
TokenForItsAccount ==
  \A t \in Tokens : \A x \in served[t] :
    x # token[t].row => <<token[t].email, token[t].row>> \notin existed

\* Only who can read the mailbox gets an account verified: behind a verified
\* account that no identity provider vouches for is a verification token that
\* was mailed to its address.
VerifiedByMail ==
  \A e \in Emails : acc[e].entity.verified /\ ~acc[e].entity.external =>
    \E t \in mailed : token[t].kind = "verify" /\ token[t].email = e /\ uses[t] > 0

\* The password of an account changes only to the one a reset or a change asks
\* for, a change only from the password it was checked against, and no other
\* write of the row brings an old password or an unverified address back.
OwnChangesOnly ==
  [][\A e \in Emails : Live(e) /\ acc[e].entity.row = acc'[e].entity.row =>
       /\ acc[e].entity.verified => acc'[e].entity.verified
       /\ acc'[e].entity.password # acc[e].entity.password =>
            /\ acc'[e].entity.verified = acc[e].entity.verified
            /\ acc'[e].status = "live"
            /\ \E r \in Requests :
                 /\ req[r].pc = "write" /\ req'[r].pc = "idle"
                 /\ req[r].op \in {"reset", "change"}
                 /\ req[r].email = e /\ req[r].password = acc'[e].entity.password
                 /\ req[r].op = "change" => req[r].seen.password = acc[e].entity.password]_vars
=============================================================================
