# Attoly API: TLA+ models, model checks and proofs

Attoly is a URL shortener: a Spring Boot service in front of PostgreSQL
(users, roles, shortcuts, complaints), Redis (refresh, verification and reset
tokens, a lock registry) and Stripe (checkout, subscriptions, webhooks).
Several instances may run side by side. What a reader of one service method
does not see is what these modules are about: requests of several instances
interleave between Redis commands, transactions interleave at READ COMMITTED,
webhooks are repeated and late, leases and keys run out, instances die.

`A/` below is `src/src/main/java/de/mueller_constantin/attoly/api/`.

## Inventory

| part | state | operations | hard part | correct when | modelled in |
|---|---|---|---|---|---|
| **Refresh tokens** `A/security/token/opaque/OpaqueTokenProvider.java` | Redis: storage key, rotated key, lock key, each with a time to live | `generateToken`, `validateToken`, `exchange` | several Redis commands per exchange, many instances, a lock that is a lease, crashes | a token has one successor; a good token is not refused; every request ends | `RefreshTokens`, `OneTimeTokens` |
| **Shortcuts** `A/domain/impl/ShortcutServiceImpl.java`, `SubscriptionEntitlementServiceImpl.java` | table `shortcuts` | `create` with up to three checks, `deleteByTag`, clean-up job | checks and insert are separate transactions; plans change; expiry | limits and features of a plan hold, gone shortcuts stay gone | `Shortcuts` |
| **User accounts, roles** `A/domain/impl/UserServiceImpl.java` | tables `users`, `user_roles` | create, update (lock), roles, delete; OAuth2 login, seeding job | whole-row updates under a version, guards that read other rows, soft deletion under a unique address | an administrator remains, no lost update, deleted is deleted; every operation as if it took place at once | `UserAccounts`, `UserService` |
| **Verification, password reset** `A/domain/impl/UserVerificationServiceImpl.java`, `PasswordResetServiceImpl.java` | Redis tokens, `users` | send, verify, reset, change | Redis and PostgreSQL do not commit together; mails go out before the commit | a token works once, for its account, and is not lost for nothing | `AccountRecovery` |
| **Access tokens, login, access rules** `A/security/token`, `A/config/SecurityConfig.java`, `A/security/access` | tokens in the hands of clients; a security context per request | login, issue, authenticate a request, `@PreAuthorize` | tokens name an address and are never revoked; the account is loaded twice in a request | who lost a role or an account acts no more | `Sessions` |
| **Billing** `A/domain/impl/PaymentServiceImpl.java`, `A/web/v1/PaymentController.java` | billing columns and plan of `users`; sessions and subscriptions at Stripe | checkout session, three webhooks, deletion guard | events repeated, late, reordered; a second session | account and provider agree, who pays is served | `Billing` |
| **Complaints** `A/domain/impl/ComplaintServiceImpl.java` | table `complaints` | create, list, delete | refers to shortcuts that go; deletion is two transactions | none is lost, judged twice or opened again | `Moderation`, `ModerationLists` |
| **RSQL filters** `A/repository/rsql` | none | a filter becomes a specification | nesting, what nobody supports | means what the filter says, or is refused | `RsqlFilter` |
| **Mail** `A/domain/impl/EmailServiceImpl.java` | none | send | fails, or seems to | | in `AccountRecovery`, `UserAccounts` |
| **Error handling, DTOs, configuration** | none of their own | | | | not modelled |
| **Documentation viewer** `src/src/main/resources/public/js` | none | | | | third-party bundle, not modelled |

How they meet: the success handler of a login calls `generateToken`, that of a
refresh calls `exchange`; both need the account of the principal
(`PrincipalService`). Every request with an access token loads that account;
the handler loads the one it changes. Creating a shortcut asks the entitlement
service, which reads the plan of the account; webhooks write that plan.
Registration mails a verification token from inside its transaction. Deleting
an account reads its billing data and leaves shortcuts, tokens and the provider
alone. Users, billing data and plan are one row: roles, passwords, verification,
deletion and webhooks write it concurrently, each from the entity it loaded.

## Modules

| module | models | kind |
|---|---|---|
| `OneTimeTokens` | what `OneTimeTokenProvider` promises: issue, rotate once, answer, lapse | abstract specification |
| `RefreshTokens` | `OpaqueTokenProvider` and its callers, one action per Redis command, a clock, crashes; the inductive invariant `IInv` | detailed specification, `ImplementsRotation` maps it to `OneTimeTokens` |
| `UserService` | what `UserService` promises: each operation at once, on the account as it is | abstract specification |
| `Shortcuts` | creation check by check, insert, deletion, expiry, clean-up, plans | component |
| `UserAccounts` | the `users` table under transactions (load, guard, commit; insert, commit) | component, `ImplementsService` maps it to `UserService` |
| `AccountRecovery` | verification, reset and change of a password: steps in Redis and commits in PostgreSQL, mails, crashes | component over two stores |
| `Sessions` | tokens, security contexts and access rules on top of `UserAccounts` | composition, extends `UserAccounts` |
| `Billing` | one account, its checkout sessions and subscriptions, the webhooks | component with the provider as environment |
| `Moderation` | complaints and their deletion on top of `Shortcuts` | composition, extends `Shortcuts` |
| `RsqlFilter` | the fold of `JpaRSQLSpecificationBuilder` and the meaning of a filter | pure functions |
| `ModerationLists` | what a filtered list of complaints shows | composition of `Moderation` and `RsqlFilter` |
| `*Proofs` | invariants and theorems for all constants: seven of the modules, and `RotationProofs`, a second one about `RefreshTokens` | proofs |
| `MC*` | symmetry sets and constant values for TLC | |

Every model also contains a few *mutants*: operators named as such in their
comment, which change a definition the way a plausible slip in the code would.
`PROJECT.json` says which property each must break. Nothing else uses them.

### RefreshTokens

Redis is `store` (storage keys), `linkTo`/`linkTTL` (rotated keys) and
`holder`/`lease` (lock keys); each key holds the ticks it has left, so time
needs no bound. A request has a program counter and the locals of the Java
code: `tok` (the presented `rawToken`), `cur` (the argument of the recursion of
`validateToken`) and `new` (the token to answer).

| code | actions |
|---|---|
| login: `generateToken` | `Login` |
| `RefreshTokenAuthenticationProvider.authenticate` → `validateToken` | `Present`, `CheckKey`, `CheckLink` |
| `loadUserByUsername` throws | `PrincipalGone` |
| `executeLocked` | `Acquire`, `Unlock` |
| `exchange` 87–91, and `validateToken` under the lock | `ReadLink`, `FollowKey`, `FollowLink` |
| `exchange` 95–110 | `ReadPrincipal`, `Build`, `SetLink`, `Delete` |
| process killed, time passing | `Crash`, `Tick` |

`getExpire` (line 47) only fills a field of the answer and is not a step.
Access tokens are stateless and left out of the answer. `consume` is called by
nothing in the program and is not modelled. The lock is that of Spring
Integration's `RedisLockRegistry`, taken from how it is used: one key per
token, set if absent with the lease, removed by its holder, and an `unlock`
whose key is gone or foreign throws.

`disturbed` collects the tokens whose exchange was cut: by a crash between
`SetLink` and `Delete`, or by a lease that ended before the last write.
`SingleUse`, `GraceChain` and `RejectOnlyDead` exempt exactly these, and only as
the token they are about: after a crash before `Delete`, the old storage key is
still there when the rotated key has run out, and the token is exchanged once
more. A token whose own exchange was not cut is covered by all three whatever
happened to the tokens it leads to. `NoCircle` exempts none.

### Shortcuts

A request moves through `permanent`, `expirable`, `password` and `save`, one
transaction each; `SetPlan`, `DeleteAccount`, `DeleteByTag` and `Tick` come in
between. Counting, finding and expiry use one predicate, `Valid`, as the
queries of `ShortcutRepository` do. Tags are rows: a fresh 6-byte tag is a row
not used before. `CleanUp` changes nothing because the job cannot: it reaches
a `@Modifying` query without any transaction (a declared query method does not
get one from Spring Data, and neither caller opens one).
`PlansAssumption` is weaker than `subscription-plans.yml`: any limits.

`create` looks for the account again at every check, which is why a request of
an account deleted meanwhile is refused (`HasAccount`) - unless it asks for
nothing that is checked. It is then saved for the deleted owner, whom the
auditor took from the token of the request. The plan, though, is that of the
entity the first check loaded: one EntityManager serves the whole request
(open-in-view), and a query for an entity it holds gives that entity
(`PlanSeen`). The counts are current.

### UserAccounts

A transaction is a record with the entity as loaded. `Guard` runs the checks
that query other rows, at the moment they are run; `Commit` writes all columns
of the entity if it is dirty and its version is still the one loaded, and fails
otherwise. `Insert` waits for a concurrent insert of the same address, as a
unique index does. `SyncSubscription` is a webhook of `Billing`, seen from
here. `overtaken` and `raced` are history: they name the write skew that
`AdminRemains` exempts.

`UserService` has the operations without the transactions: `Create`,
`AssignRole`, `RemoveRole`, `Lock`, `Unlock`, `Delete`, `Subscribe`, each one
step with the guard it documents, evaluated at that step. `ImplementsService`
says that a dirty commit is such a step, and everything else (loading, guards,
refusals, failed commits, inserts not yet committed) none. The mapping is the
identity on the table, `skewed` is `raced`. `Lock` has no guard in
`UserService`: a locked administrator still counts, so the guard of `update`
protects nothing, and it may be outdated when the lock commits.

`lock` and `unlock` are `UserServiceImpl.update`, a
service method no controller calls today.

### AccountRecovery

`token` is Redis, `acc` the `users` table by address, `req` the requests with
the entity each has loaded. A command to Redis takes effect at once; the write
of a request takes effect when it commits, under the version of the row, or not
at all.

| code | actions |
|---|---|
| `UserServiceImpl.create` | `Register`, `Insert`, `Store`, `Mail` or `MailFails`, `CommitRegistration` |
| `sendVerificationMessage*`, `sendResetMessage*` | `Ask`, `Store`, `Mail` or `MailFails` |
| `verifyByToken`, `resetByToken` | `FindToken`, `FindUser`, `DeleteToken`, `Write` |
| `changePasswordByEmail` | `ChangePassword`, `Write` |
| OAuth2 login, `delete`, other writes of the row | `RegisterExternal`, `DeleteAccount`, `Touch` |
| instance killed, time passing | `Crash`, `Tick` |

The insert of a registration is flushed by the query that
`sendVerificationMessageById` makes, before the token is stored; the unique
index then makes a second registration of the address wait (`Inserting`) and
fail. Verification writes nothing when the entity is verified already (no dirty
column), a password is always dirty because a new hash differs. `contested` and
`excused` are history: they name the races and cuts that `SingleUse` and
`MailedTokenWorks` exempt, and no more.

### Sessions

An authentication that succeeded is in `passed` until the success handler has
issued its tokens; `access` and `refresh` hold the tokens clients have, with the
ticks left. `Authenticate` is `AccessTokenAuthenticationFilter`, which puts what
`PrincipalService` loads into `principal`; `Handle` asks `Allowed`, the
expressions of the two controllers that change accounts, and starts a
transaction of `UserAccounts`; `Go` is one more step of it. The security context
ends with the transaction (`Cleared`). `Refresh` looks for a live account and,
as the code, at nothing else. A refresh token stays until it expires, which
allows more than the exchange modelled in `RefreshTokens` does.

### Moderation, ModerationLists, RsqlFilter

`Report` finds the shortcut and `CommitReport` inserts the complaint, one
transaction in which the shortcut may go. `deleteById` opens no transaction:
`Find` and `Delete` are two, and `stale` says that the version found is not the
current one. `Specification` is the builder: the children of a node are mapped,
then joined from the first on; an unsupported field or operator raises an
exception, which no list survives. `Listed` adds `deleted = false`. The parser
is external; a filter is its tree, here the sequence of its nodes, children
before parents and the root last, which makes the recursion of the builder a
function on the positions. `Meant` says what a filter means without builder or
fold: a row matches if the root belongs to the set of nodes that come out true
for it, and `Matches` says which set that is only by what the connectives ask.

### Billing

A webhook handler is one transaction on one row and one step here; when two
overlap, the version fails one, and Stripe repeats it. `events` holds every
event Stripe sent, in the order of what it reports, and its place is its id;
`done` says which were handled. `Deliver` handles any that was not, `Redeliver`
any that was: Stripe promises neither an order nor that an answer reaches it. A
failing event stays and blocks no other. `account.lastEvent` recognises the
event handled last and no older one (`Handled`), as the code does. The
provider's half (`Attempt`, `Pay`, `Change`, `Cancel`) is modelled from what the
controller receives: a subscription begins with the first attempt to pay
(incomplete, and it may expire) or when the session is paid for, takes the
eight statuses `mapStripeStatus` knows, and has the one price that is sold.
`Pay` reports the two events of a checkout in either order.

Two histories name what properties set apart. `overlap`: a subscription began
while another one ran. `outdated`: what was handled last is older than what had
been handled (`Newer`); handling the newest report once more ends it.

## Runs

| run | checks | bounds |
|---|---|---|
| `refreshtokens_safety` | `TypeOK`, `IInv`, `SingleUse`, `GraceChain`, `NoCircle`, `RejectOnlyDead` | 4 tokens, 2 requests, 1 crash, overruns; lifetime 6, lease 3, grace 2 |
| `refreshtokens_rotation` | `ImplementsRotation` | 4 tokens, 3 requests, no crash, no overrun |
| `refreshtokens_live` | `RequestTerminates` | 3 tokens, 2 requests, 1 crash; lifetime 3, lease 1, grace 1 |
| `shortcuts_safety` | `TypeOK`, `BoundedPermanent`, `BoundedExpirable`, `OnlyEntitled`, `StaysGone` | 3 rows, 2 requests, 1 account, 2 plans with limits 1/0 and 1/1 |
| `shortcuts_cleanup` | `AnonymousDeleted` **violated** | 1 row and request |
| `useraccounts_safety` | `TypeOK`, `AdminRemains`, `DeletedUnsubscribed`, `NoLostUpdate`, `DeletedForGood`, `ImplementsService` | 2 addresses, 2 transactions, every operation (an unlock is the lock with the other value) |
| `useraccounts_admin`, `useraccounts_start` | `AlwaysAdministrable`, `InstancesStart` **violated** | 3 addresses, 2 transactions |
| `accountrecovery_safety` | `TypeOK`, `SingleUse`, `MailedTokenWorks`, `TokenForItsAccount`, `VerifiedByMail`, `OwnChangesOnly` | 1 address, 2 tokens, 2 requests, 2 passwords, lifetime 2, 2 rows |
| `sessions_access` | `SessionsTypeOK`, `EntitledActors`, `TokensKeepTheirAccount`, `DeletedGainsNothing`, `DeletedLosesAccess` | 2 addresses, 2 requests, lifetimes 1, tokens of one account at a time |
| `billing_safety` | `TypeOK`, `InSync`, `NothingStuck`, `SettledDeletion`, `PaidIsServed` | 2 subscriptions, 2 customers, 5 events in any order, repeated at will, 8 statuses |
| `moderation_safety` | `ModerationTypeOK`, `AcknowledgedOnce`, `OpenUntilJudged`, `ListsWhatIsMeant` | 2 complaints, 2 moderators, 1 reporter, 2 shortcuts, filters up to two levels deep |

Why the bounds suffice to reach the cases: an exchange that is overtaken twice
needs a root, a first successor and two competing ones, hence four tokens; the
lifetime is longer than lease and grace window together, as in the code
(7200 s, 30 s, 10 s), and the lease is longer than the window. Requests are
admitted only while a token, or a row, is left for each (`Reserve`), so that no
request is ever stopped by the pool: the bound ends the arrival of requests,
not their progress. A limit of one is exceeded by two requests, and three rows
leave room for more than the bound allows. Two addresses and two transactions
contain every pair of operations on one row and on two. Two tokens are one of
each kind or two of one kind; two requests race for one token; two rows of an
address are a registration that is rolled back and the next one. In `Sessions`
one account is there to begin with and the other is made, and either is
promoted, demoted or deleted by the other or by itself between any two steps of
a request. Five events are two checkouts (four) and what happens between them or
after, or one checkout and a second subscription that is tried and expires. Two
moderators are all a complaint needs to be found twice,
and two levels of a filter are what the builder's recursion adds to its loop.

Deadlock is checked except in `Billing`, where no step may be left when the
last event has been sent and the account is gone.

What the passing runs show:

- **`SingleUse`, `ImplementsRotation`** (refresh tokens): racing
  exchanges of one token answer the same successor or none. When nothing is cut,
  the ten-step exchange is a rotation that happens at once, at `SetLink`.
- **`GraceChain`**: a rotated key leads to something that lives at least as long.
- **`NoCircle`**: rotated keys never lead in a circle, whatever was cut and done
  twice, so the recursion of `validateToken` cannot go round.
- **`RejectOnlyDead`**: `validateToken` reads storage key, then rotated key, and
  `exchange` writes rotated key, then deletes the storage key; in these orders
  a good token is never refused while it is being exchanged.
- **`BoundedPermanent`, `BoundedExpirable`**: what the missing transaction costs:
  the limit is exceeded by less than the number of concurrent requests, in
  existing and pending shortcuts together, and plan changes do not add to that.
- **`OnlyEntitled`**, **`StaysGone`**: across plan changes and account deletion.
- **`AdminRemains`**: without the write skew, no sequence of removals and
  deletions, in whatever interleaving, takes the last administrator away.
- **`NoLostUpdate`, `DeletedUnsubscribed`**: the version protects what the whole
  row updates would overwrite, and makes the subscription check atomic with the
  deletion.
- **`ImplementsService`**: with all of that together, the transactions do to the
  accounts what `UserService` does in one step each; what the version does not
  protect, the write skew, is all that shows.
- **`DeletedForGood`**: no path brings a deleted account or its roles back.
- **`SingleUse`, `MailedTokenWorks`** (recovery): a verification or reset token
  changes one account once, unless two requests had both found it; what is in a
  mailbox works until it expires, except where an instance died, a version was
  old or there was nothing left to verify.
- **`TokenForItsAccount`, `VerifiedByMail`, `OwnChangesOnly`**: tokens name
  addresses and accounts of an address change, yet no token serves an account
  that came after its own was committed, nobody verifies without the mailbox, and no write of
  the whole row brings an older password or an unverified address back.
- **`EntitledActors`, `TokensKeepTheirAccount`, `DeletedLosesAccess`**: tokens
  outlive roles and accounts; what they still open is nothing.
  `DeletedGainsNothing` is the safety half of the last: nobody is authenticated
  for a deleted account again, and tokens only age or come of an authentication
  that had passed before.
- **`InSync`**: when the newest report has been handled, the account shows its
  subscription as the provider has it: whatever else is still outstanding,
  failed before, came early or was repeated, and with subscriptions that
  overlap. One thing spoils it, something older handled after something newer
  (`outdated`), and the newest report repairs that.
- **`NothingStuck`**, **`PaidIsServed`**: what Stripe repeats gets somewhere, and
  who pays is served; the first is the safety half of the second.
- **`SettledDeletion`**: an account on which the newest report was handled is not
  deleted while something is being paid for. These three set `outdated` and
  `overlap` apart, and TLC finds each of them violated without either.
- **`AcknowledgedOnce`, `OpenUntilJudged`, `ListsWhatIsMeant`**: two transactions
  of `deleteById` acknowledge one deletion; shortcuts go and complaints stay; a
  list shows what its filter means or is refused.

What the violations show is in `PROJECT.json` under `findings`, each with the
sentence of the documentation it contradicts. Read from the definitions, and
not given runs of their own:

- racing creations exceed the limit of a plan, by as much as
  `BoundedPermanent` allows (`error.properties:21` names the limit);
- webhooks that are handled in another order, or repeated after a later one, leave
  the older status on the account (`InSync` without `~outdated` is broken in six
  steps: only the id of the event handled last is kept; `openapi.yml:607`: "The
  status of the subscription in the billing system.");
- a subscription that expires before its first payment, or stays unpaid, leaves the
  account CANCELED and on PRO (`Synced`): `isTerminalOrFreeLikeStatus`
  (`PaymentServiceImpl.java:125`) lists both, but is asked only when there is no
  price, and there always is one. `Shows` leaves the plan of these two open;
- an expired subscription stays on the account as `sub`, and a checkout event
  repeated after the end puts the ended one back; the deletion guard reads the
  status as well, so neither keeps an account from being deleted;
- a token whose exchange was cut by a crash is exchanged twice
  (`OneTimeTokenProvider.java:14`: "consuming/invalidating the old one");
- two resets with one token that both found it both succeed (`contested`);
- the token of a registration that was rolled back serves the next registration
  of the address (`TokenForItsAccount` has to allow it);
- `resetByToken` gives the account of an identity provider a password, where
  `changePasswordByEmail` refuses (`Write`, `ChangePassword`);
- `PasswordResetServiceImpl.java:96` and `:99` throw
  `InvalidVerificationTokenException`, where the method declares
  `InvalidResetTokenException`;
- a refresh looks at neither lock nor verification, and a password reset ends no
  session (`Refresh`);
- `lock` and `unlock` are reached by no endpoint;
- `CheckExpirable` refuses a permanent shortcut for its `expiresAt`
  (`openapi.yml:787`: "Ignored if `permanent` is set to true");
- `DeleteAccount` leaves the account's shortcuts live (`openapi.yml:181`: "All
  shortcuts that were created by the user are also deleted");
- the list of shortcuts without a filter shows expired ones, and
  `isShortcutOwnerOf` fails on an anonymous shortcut;
- `UnsupportedFilterQueryOperatorException` is made with its arguments swapped
  in the field mappers;
- `OpenSession` twice and `Pay` twice give an account two subscriptions
  (`overlap`): it shows the one reported last, and when that one ends it is on FREE
  while the other is paid for.

## Fairness

Safety properties use none. `RefreshTokens!FairSpec` asks weak fairness of every
request's steps (a servlet thread that was not killed is scheduled again; the
lock, once its key is gone, is taken by some waiting request) and of `Tick`.
`PrincipalGone`, `Crash`, `Login` and `Present` are never forced. A request that
waits while others keep taking the lock is served in the model because the pool
of tokens ends their arrival; the code polls the key and has no queue.
`Shortcuts!FairSpec` serves requests, runs the job again and again and lets time
pass. `Billing!FairSpec` is the provider's retry: an event that can be handled
is handled in the end. `Sessions!FairSessionsSpec` lets time pass, success
handlers end and requests being served go on; nobody is forced to log in, to
present a token or to start anything.

## Proofs

Every theorem holds for all values of the constants that satisfy the named
assumptions: sets of requests (and of rows and tokens, where they are counted)
are finite, the null values are apart from what they stand beside, an
administrator exists to begin with, limits and lifetimes are numbers, and a
refresh token lives longer than lease and grace window together. TLC evaluates
all of them. In every module the invariant is a conjunction of named parts, one
lemma per action shows that the action keeps it, and the theorems follow.

**`RefreshTokensProofs`** (`InductiveInvariant`, `TypeCorrect`,
`TokensSingleUse`, `GraceChainHolds`, `NoCircleHolds`).
`SingleUse` speaks of tokens clients hold; every such token was
`published` (`KnownPublished`), that is, named by a rotated key, and a token has
one published successor (`OneHeir`). The only step that publishes is `SetLink`,
and when it is taken there is none yet (`NoHeirYet`). That is established at
`ReadPrincipal`, under the lock, by the storage key being there: with a published
successor the key would be gone or about to be deleted by the exchange that
published it (`HeirReplaces`), which would have to be this one, because an
undisturbed exchange owns its lock (`Exclusion`, which rests on `LockHeld`: a
lock key exists as long as its lease). `GraceChain` needs the other half, time:
a successor is younger than the lease under which it was minted (`YoungHeir`), so
it outlives the window if a lifetime exceeds lease and window together, and when
its own storage key is deleted its rotated key was written later (`Handover`).
A rotated key is written only for a token some client holds (`LinkKnown`), and
nobody holds a successor before it is named: hence each key on a chain is
younger than the one before (`LinkGrows`), and no circle can close
(`NoCircleHolds`, beside `IInv`). TLC checks this `IInv` in
`refreshtokens_safety`.

**`RotationProofs`** (`FollowingInductive`, `OnlyDeadRejected`,
`ExchangeIsRotation`, `CutByCrashOrOverrun`) is about
`RefreshTokens` as well, in two halves. The first is about a request that reads
while others write, and assumes nothing: instances die and leases run out. Who
has left the token it presented did so because its key was gone and it had been
rotated, and a `Path` of rotated keys that last as long as the first of them
leads from there to where it is now. `RInv` says this of every request, that a
key it missed does not come back, and that nobody else writes the rotated key
of an exchange that is not cut. `PathOn` extends a path (this is what `LinkGrows`
is for), `PathKept` keeps it, and `PathToDead` turns a path that ends at a dead
token into the end of the token presented: `OnlyDeadRejected`.
What a token leads to is stated without recursion, in `Path` as in `Resolves`: by
every set that is closed under the step.
The second half is the refinement, as long as `NothingCut`: a login is Issue,
`SetLink` is Rotate, deleting a key and the clock are Lapse, `Unlock` is Answer,
the rest is hidden. That a rotation makes nothing else acceptable rests on
`GraceChain`, for the token's own key is there when its rotated key is set.
`ExchangeIsRotation` has `[]NothingCut` as its hypothesis, the behaviours without
a cut; `CutByCrashOrOverrun` proves that every behaviour is one when instances do
not die and leases outlast their exchanges
(`MaxCrashes = 0`, `~CanOverrun`), which is what `refreshtokens_rotation` runs.

**`UserAccountsProofs`** (`AdminRemainsHolds`, `DeletedUnsubscribedHolds`,
`NoUpdateIsLost`, `DeletedIsForGood`, `ServedAtOnce`, types). A transaction whose row nobody
wrote works on the row as it is (`LoadedIsCurrent`): that alone carries
`NoLostUpdate`, and with `DeletesUnsubscribed`, what the guard has seen, it
carries `DeletedUnsubscribed`. `InsertedAlone` is the unique index. For
`AdminRemains` the other administrator the guard has seen must still be there at
the commit (`OtherAdminStays`), which holds until another one goes: whoever
goes marks the others as overtaken, and the theorem exempts exactly these.
`ServedAtOnce` is the refinement of `UserService`: by `LoadedIsCurrent` a commit
that writes the whole row changes what its operation is about and nothing else,
by `DeletesUnsubscribed` and `OtherAdminStays` the guards of the service, which
were evaluated earlier and on other rows, are true at that moment (`CommitFits`);
what remains is to name the operation (`CommitServes`, `NextServes`).

**`AccountRecoveryProofs`** (`TokensSingleUse`, `MailedTokensWork`,
`TokensForTheirAccount`, `VerifiedOnlyByMail`, `OwnChangesOnlyHolds`, types).
Most of the invariant says where a token is: in Redis before it is in a mail
(`StoredFirst`), claimed only when mailed and of the right kind
(`ClaimsMailed`), and, unless requests raced for it, in the hands of one request
from its deletion to its use and of none after (`UsedByOne`, `DeletedForUse`).
`OneRow` says that an address has one row that is ever committed, soft deletion
and the unique index being what they are; that is why a token that names an
address changes the right account. `LoadedIsCurrent` is the version again. The
lemmas `RequestStep`, `RowWritten` and `RowAdded` are shared by the actions.

**`ShortcutsProofs`** (`PermanentBounded`, `ExpirableBounded`, `EntitledOnly`,
`GoneForGood`, types). Existing and pending shortcuts are counted together: a
request that passes a check joins the pending ones when the existing ones are
below a limit (`Admit`), an insert moves one from one set to the other (`Move`),
and everything else only takes away (`Shrink`). `PlansKnown` ties the plan a
request has loaded to a plan the account has had, `Checked` what a request still
asks for to the checks behind it.

**`SessionsProofs`** (`SessionsAreAccounts`, `SessionsServedAtOnce`,
`ActorsEntitled`, `TokensKeepAccounts`, `SessionsKeepAnAdmin`,
`DeletedGainNothing`, types).
`SessionsAreAccounts` is the refinement: every step of `Sessions` is a step of
`UserAccounts` or leaves it alone, so the theorems about accounts hold here, and
with `ServedAtOnce` clients with tokens do what `UserService` allows. Because an address has one
account for ever (`OneAccount`), a token, which names an address, is of that
account (`TokensOfAccounts`); `PrincipalsKept` says that a request acts with the
authorities it arrived with.

**`BillingProofs`** (`AccountInSync`, `NothingGetsStuck`, `DeletionIsSettled`,
types) holds for any order of events and any repetition. The newest report is
what the provider knows (`Told`), for every status change is reported. Handling
it puts that on the account; an older report or a checkout event of another
subscription that is handled later is `outdated` by definition of `Newer`, the
latter because a checkout event has a report on its subscription beside it
(`Paired`, `CheckoutIsOlder`). So `InSync` is inductive beside these. The other
two theorems need to know which subscription is the latest: when none overlap,
the events of each come together and those of the running one last (`Grouped`,
`RunningIsLast`), hence a checkout event that was handled last is that of the
newest report, and its customer is on the account (`NewestIsLinked`).
`NothingGetsStuck` adds that who paid has a checkout event (`Completed`), which
cannot fail. The lemma `SendStep` is shared by the four actions that send.

**`ModerationProofs`** (`ModerationIsShortcuts`, `OneAcknowledgement`,
`StaysOpen`, `BuilderIsMeant`, `ListsAsMeant`, types). `Moderation` refines
`Shortcuts`. Who found a complaint and was not overtaken holds an open one
(`Found`), and an open complaint was never acknowledged (`Judged`); complaints
are about shortcuts that were inserted, which stay as rows (`AboutShortcuts`,
`RowsStay`).
`BuilderIsMeant` is about the builder alone: for every filter and every set of
rows it makes the specification the filter means, or refuses. It needs induction
over the nodes of a filter and over the children of a node. The library's
induction theorems have operator parameters, which no installed prover can
instantiate; `Least` and `Induction` restate induction over sets of numbers, from
the least element that `NatLessThanWellFounded` gives. With it `AllJoinedIs`
unrolls the loop over the children, `SpecificationsBuilt` the recursion over the
nodes, `NodeAsMeant` compares one node with `TrueOf`, and `SupportedAsMeant` and
`UnsupportedRefused` go up the tree. `ListsAsMeant` is the invariant of the run.

Model-checked only are the liveness properties `RequestTerminates`, `PaidIsServed`
and `DeletedLosesAccess`, of which `NoCircle`, `NothingStuck` and
`DeletedGainsNothing` are the halves that could be proved: they rest on fairness, hence on `ENABLED`, which is
outside of what the installed provers do. Every invariant and every action
property of a passing run is a theorem.

## Not modelled

Cryptography, encoding, JSON and HTTP; the error handler (a refused operation
changes nothing); DTOs and their mappers; configuration; the transport and the
contents of mails; the redirect cookies of the OAuth2 login; access rules other
than those of account and role administration; reads that change nothing, apart
from the filtered list of complaints; the field mappings of users and shortcuts,
which are longer than that of complaints and of the same kind; `consume` of the
token provider, which nothing calls. Draws of `SecureRandom` are taken to be
fresh: 16 bytes for a refresh token, 6 for a tag, whose collision the unique
constraint turns into a failed request. Redis is one server that does not lose
acknowledged writes.

`redoc.standalone.js`, which displays `openapi.yml`, is a minified third-party
bundle: the program serves it and does not call it.

## Plan

1. *(done)* `RefreshTokens`, `OneTimeTokens`, `Shortcuts`, `UserAccounts`,
   `Billing`; `AccountRecovery`, `Sessions`, `Moderation`, `RsqlFilter`.
2. *(done)* Inductive invariants and their proofs for the seven modules with a
   state.
3. *(done)* The refinement of `OneTimeTokens` proved for behaviours that are not
   cut, and `RejectOnlyDead` for all; `UserService` as the abstract specification
   of `UserAccounts`, and the filters, without recursive operators, proved.
4. Abstract specifications for `AccountRecovery` (a mailed token as a capability
   used once) and `Shortcuts`, and their refinements.
5. `Shortcuts` with the plans of `Billing` and the accounts of `UserAccounts`
   composed, in place of the environment actions `SetPlan` and `DeleteAccount`.
6. The error handler as a function from exceptions to answers.
