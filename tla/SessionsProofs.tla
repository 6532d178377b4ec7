--------------------------- MODULE SessionsProofs ---------------------------
(***************************************************************************)
(* Proofs about Sessions, for any number of addresses, tokens and requests. *)
(* Every step of Sessions is a step of UserAccounts or leaves its variables *)
(* alone, so that what UserAccountsProofs shows of accounts holds here too; *)
(* on top of it: whose token a request presents, and who may act.           *)
(***************************************************************************)
EXTENDS Sessions, UserAccountsProofs

USE AccountsAssumption, LifetimesAssumption
USE DEF Changes, Inserts

\* An address has one account, deleted or not.
OneAccount == \A e \in Emails : row[e] = IF status[e] = "absent" THEN 0 ELSE 1

\* A token is of the one account of its address.
TokensOfAccounts ==
  \A t \in access \cup refresh \cup passed : t.email \in Emails /\ t.row = 1 /\ row[t.email] = 1

\* A request acts with the authorities it arrived with.
PrincipalsKept ==
  \A r \in Requests : principal[r].on =>
    /\ principal[r].row = principal[r].token
    /\ principal[r].admin => r \in entitled

SInv ==
  /\ IInv
  /\ SessionsTypeOK
  /\ OneAccount
  /\ TokensOfAccounts
  /\ PrincipalsKept
  /\ EntitledActors

-----------------------------------------------------------------------------
\* Nobody's principal.
LEMMA AnyoneIs == Anyone \in PrincipalType /\ ~Anyone.on
<1>1. MaxRow \in Nat \ {0}
  OBVIOUS
<1>. QED
  BY <1>1 DEF Anyone, PrincipalType

\* Each step of a handler is a step of UserAccounts, the rest leaves accounts
\* and transactions as they are.
LEMMA StepIsStep == SessionsNext \/ UNCHANGED allVars => [Next]_vars
<1>1. ASSUME NEW r \in Requests, Go(r) PROVE [Next]_vars
  BY <1>1 DEF Go, Served, Leave, Next
<1>2. ASSUME NEW r \in Requests, NEW op \in Changes \cap Operations, NEW e \in Emails,
             NEW role \in Roles, Handle(r, op, e, role)
      PROVE  [Next]_vars
  BY <1>2 DEF Handle, Served, Next
<1>3. ASSUME NEW r \in Requests, NEW op \in Inserts \cap Operations, NEW e \in Emails,
             Served(Arrive(r, op, e))
      PROVE  [Next]_vars
  BY <1>3 DEF Served, Next
<1>. QED
  BY <1>1, <1>2, <1>3
     DEF SessionsNext, allVars, Login, Refresh, Issue, Authenticate, Tick

\* Nobody is logged in to begin with.
LEMMA InitSInv == SessionsInit => SInv
<1>. SUFFICES ASSUME SessionsInit PROVE SInv
  OBVIOUS
<1>1. IInv /\ TypeOK
  BY InitIInv DEF SessionsInit, IInv
<1>2. /\ status \in [Emails -> {"absent", "live", "deleted"}]
      /\ \A e \in Emails : status[e] # "deleted"
      /\ row = [e \in Emails |-> IF Live(e) THEN 1 ELSE 0]
  BY <1>1 DEF SessionsInit, Init, TypeOK
<1>3. OneAccount /\ row \in [Emails -> 0..MaxRow]
  <2>1. MaxRow \in Nat \ {0}
    OBVIOUS
  <2>2. \A e \in Emails : row[e] = IF status[e] = "absent" THEN 0 ELSE 1
    BY <1>2 DEF Live
  <2>3. row \in [Emails -> {0, 1}] /\ {0, 1} \subseteq 0..MaxRow
    BY <1>2, <2>1
  <2>. QED
    BY <2>2, <2>3 DEF OneAccount
<1>4. Anyone \in PrincipalType /\ ~Anyone.on
  BY AnyoneIs
<1>5. SessionsTypeOK
  BY <1>1, <1>2, <1>3, <1>4 DEF SessionsTypeOK, SessionsInit, OneAccount
<1>6. TokensOfAccounts /\ PrincipalsKept /\ EntitledActors
  BY <1>4 DEF SessionsInit, Init, NoTx, TokensOfAccounts, PrincipalsKept, EntitledActors
<1>. QED
  BY <1>1, <1>3, <1>5, <1>6 DEF SInv

-----------------------------------------------------------------------------
(* Steps that leave the accounts alone. *)

\* What has to be shown of such a step is where tokens and principals come from.
LEMMA TokenStep ==
  ASSUME SInv, UNCHANGED <<vars, row>>,
         access' \subseteq TokenOf(AccessLife), refresh' \subseteq TokenOf(RefreshLife),
         passed' \subseteq Passed,
         \A t \in access' \cup refresh' \cup passed' : t.row = 1 /\ row[t.email] = 1,
         UNCHANGED <<principal, entitled>>
  PROVE  SInv'
<1>1. IInv'
  BY NextIInv DEF SInv
<1>2. TypeOK'
  BY <1>1 DEF IInv
<1>3. SessionsTypeOK'
  BY <1>2 DEF SInv, SessionsTypeOK, vars
<1>4. OneAccount'
  BY DEF SInv, OneAccount, vars
<1>5. TokensOfAccounts'
  BY DEF TokensOfAccounts, TokenOf, Passed
<1>6. PrincipalsKept' /\ EntitledActors'
  BY DEF SInv, PrincipalsKept, EntitledActors, vars
<1>. QED
  BY <1>1, <1>3, <1>4, <1>5, <1>6 DEF SInv

\* Tokens are issued to the account that passed, and age.
LEMMA TokenSteps ==
  ASSUME SInv,
         \/ \E e \in Emails : Login(e)
         \/ \E t \in refresh : Refresh(t)
         \/ \E p \in passed : Issue(p)
         \/ Tick
  PROVE  SInv'
<1>1. /\ access \subseteq TokenOf(AccessLife) /\ refresh \subseteq TokenOf(RefreshLife)
      /\ passed \subseteq Passed /\ 1 \in 0..MaxRow
      /\ AccessLife \in Nat \ {0} /\ RefreshLife \in Nat \ {0}
  BY DEF SInv, SessionsTypeOK
<1>2. \A t \in access \cup refresh \cup passed : t.email \in Emails /\ t.row = 1 /\ row[t.email] = 1
  BY DEF SInv, TokensOfAccounts
<1>3. ASSUME NEW e \in Emails, Login(e) PROVE SInv'
  <2>1. row[e] = 1
    BY <1>3 DEF Login, Live, SInv, OneAccount
  <2>2. [email |-> e, row |-> row[e]] \in Passed
    BY <1>1, <2>1 DEF Passed
  <2>. QED
    BY <1>1, <1>2, <1>3, <2>1, <2>2, TokenStep DEF Login
<1>4. ASSUME NEW t \in refresh, Refresh(t) PROVE SInv'
  <2>1. t.email \in Emails /\ t.row = 1 /\ row[t.email] = 1
    BY <1>2
  <2>2. [email |-> t.email, row |-> t.row] \in Passed
    BY <1>1, <2>1 DEF Passed
  <2>. QED
    BY <1>1, <1>2, <1>4, <2>1, <2>2, TokenStep DEF Refresh
<1>5. ASSUME NEW p \in passed, Issue(p) PROVE SInv'
  <2>1. p.email \in Emails /\ p.row = 1 /\ row[p.email] = 1
    BY <1>2
  <2>2. /\ [email |-> p.email, row |-> p.row, left |-> AccessLife] \in TokenOf(AccessLife)
        /\ [email |-> p.email, row |-> p.row, left |-> RefreshLife] \in TokenOf(RefreshLife)
    BY <1>1, <2>1 DEF TokenOf
  <2>. QED
    BY <1>1, <1>2, <1>5, <2>1, <2>2, TokenStep DEF Issue
<1>6. ASSUME Tick PROVE SInv'
  <2>1. ASSUME NEW life \in Nat \ {0}, NEW S \in SUBSET TokenOf(life),
               \A t \in S : t.row = 1 /\ row[t.email] = 1
        PROVE  Aged(S) \subseteq TokenOf(life) /\ \A t \in Aged(S) : t.row = 1 /\ row[t.email] = 1
    <3>1. ASSUME NEW t \in S, t.left > 1
          PROVE  LET a == [t EXCEPT !.left = @ - 1]
                 IN  a \in TokenOf(life) /\ a.row = t.row /\ a.email = t.email
      BY <3>1 DEF TokenOf
    <3>. QED
      BY <2>1, <3>1 DEF Aged
  <2>2. /\ Aged(access) \subseteq TokenOf(AccessLife)
        /\ \A t \in Aged(access) : t.row = 1 /\ row[t.email] = 1
    BY <1>1, <1>2, <2>1
  <2>3. /\ Aged(refresh) \subseteq TokenOf(RefreshLife)
        /\ \A t \in Aged(refresh) : t.row = 1 /\ row[t.email] = 1
    BY <1>1, <1>2, <2>1
  <2>4. /\ access' = Aged(access) /\ refresh' = Aged(refresh)
        /\ UNCHANGED <<vars, passed, principal, row, entitled>>
    BY <1>6 DEF Tick
  <2>. QED
    BY <1>1, <1>2, <2>2, <2>3, <2>4, TokenStep
<1>. QED
  BY <1>3, <1>4, <1>5, <1>6

\* A request begins with a token, or ends without a transaction.
LEMMA PrincipalStep ==
  ASSUME SInv, NEW r \in Requests, Leave(r) \/ \E t \in access : Authenticate(r, t)
  PROVE  SInv'
<1>1. UNCHANGED <<vars, access, refresh, passed, row>> /\ tx[r].pc = "idle"
  BY DEF Leave, Authenticate
<1>2. IInv'
  BY <1>1, NextIInv DEF SInv
<1>3. TypeOK'
  BY <1>2 DEF IInv
<1>4. OneAccount' /\ TokensOfAccounts'
  BY <1>1 DEF SInv, OneAccount, TokensOfAccounts, vars
<1>5. principal \in [Requests -> PrincipalType] /\ entitled \subseteq Requests
  BY DEF SInv, SessionsTypeOK
<1>6. PICK q \in PrincipalType :
        /\ principal' = [principal EXCEPT ![r] = q]
        /\ q.on => q.row = q.token /\ (q.admin => r \in entitled')
        /\ entitled' \subseteq Requests
        /\ \A x \in Requests : x # r => (x \in entitled' <=> x \in entitled)
  <2>1. CASE Leave(r)
    <3>1. Anyone \in PrincipalType /\ ~Anyone.on
      BY AnyoneIs
    <3>2. principal' = [principal EXCEPT ![r] = Anyone] /\ entitled' = entitled \ {r}
      BY <2>1 DEF Leave
    <3>3. entitled' \subseteq Requests /\ \A x \in Requests : x # r => (x \in entitled' <=> x \in entitled)
      BY <1>5, <3>2
    <3>. QED
      BY <3>1, <3>2, <3>3
  <2>2. ASSUME NEW t \in access, Authenticate(r, t)
        PROVE  \E q \in PrincipalType :
                 /\ principal' = [principal EXCEPT ![r] = q]
                 /\ q.on => q.row = q.token /\ (q.admin => r \in entitled')
                 /\ entitled' \subseteq Requests
                 /\ \A x \in Requests : x # r => (x \in entitled' <=> x \in entitled)
    <3>1. t.email \in Emails /\ t.row = 1 /\ row[t.email] = 1 /\ 1 \in 0..MaxRow
      BY DEF SInv, TokensOfAccounts
    <3>. DEFINE a == AdminRole \in roles[t.email]
                q == [on |-> TRUE, email |-> t.email, row |-> row[t.email],
                      admin |-> a, token |-> t.row]
    <3>2. a \in BOOLEAN
      OBVIOUS
    <3>3. a => r \in entitled'
      BY <2>2 DEF Authenticate
    <3>4. principal' = [principal EXCEPT ![r] = q]
      BY <2>2 DEF Authenticate
    <3>. HIDE DEF a
    <3>5. q \in PrincipalType /\ q.row = q.token /\ (q.admin <=> a)
      BY <3>1, <3>2 DEF PrincipalType
    <3>6. entitled' \subseteq Requests /\ \A x \in Requests : x # r => (x \in entitled' <=> x \in entitled)
      BY <1>5, <2>2 DEF Authenticate
    <3>. QED
      BY <3>3, <3>4, <3>5, <3>6
  <2>. QED
    BY <2>1, <2>2
<1>7. SessionsTypeOK'
  BY <1>1, <1>3, <1>5, <1>6 DEF SInv, SessionsTypeOK, vars
<1>8. PrincipalsKept'
  BY <1>5, <1>6 DEF SInv, PrincipalsKept
<1>9. EntitledActors'
  BY <1>1, <1>5, <1>6 DEF SInv, EntitledActors, vars
<1>. QED
  BY <1>2, <1>4, <1>7, <1>8, <1>9 DEF SInv

-----------------------------------------------------------------------------
(* Steps of the handlers. *)

\* A transaction that is under way remains the one it was.
WorkKept(x) ==
  tx'[x].pc # "idle" => tx[x].pc # "idle" /\ tx'[x].op = tx[x].op /\ tx'[x].email = tx[x].email

\* What becomes of an address: an account once, deleted once.
StatusKept ==
  \A e \in Emails : \/ status'[e] = status[e]
                    \/ status[e] = "absent" /\ status'[e] = "live"
                    \/ status[e] = "live" /\ status'[e] = "deleted"

\* Every step within a transaction is like that.
LEMMA GoKeeps ==
  ASSUME IInv, NEW r \in Requests,
         Guard(r) \/ Commit(r) \/ Insert(r) \/ CommitInsert(r) \/ MailFails(r)
  PROVE  StatusKept /\ \A x \in Requests : WorkKept(x)
<1>1. tx \in [Requests -> TxType] /\ status \in [Emails -> {"absent", "live", "deleted"}]
  BY DEF IInv, TypeOK
<1>2. NoTx.pc = "idle"
  BY DEF NoTx
<1>3. CASE Guard(r)
  BY <1>1, <1>2, <1>3 DEF Guard, StatusKept, WorkKept, TxType
<1>4. CASE Commit(r)
  <2>1. CASE Dirty(tx[r]) /\ ~tx[r].stale
    <3>1. /\ Live(tx[r].email)
          /\ status' = IF tx[r].op = "delete" THEN [status EXCEPT ![tx[r].email] = "deleted"]
                                              ELSE status
          /\ tx'[r] = NoTx
          /\ \A q \in Requests \ {r} : SameWork(tx'[q], tx[q])
      BY <1>4, <2>1, CommitFrame
    <3>. QED
      BY <1>1, <1>2, <3>1 DEF StatusKept, WorkKept, SameWork, Live
  <2>2. CASE ~(Dirty(tx[r]) /\ ~tx[r].stale)
    BY <1>1, <1>2, <1>4, <2>2 DEF Commit, End, StatusKept, WorkKept
  <2>. QED
    BY <2>1, <2>2
<1>5. CASE Insert(r)
  BY <1>1, <1>2, <1>5 DEF Insert, End, StatusKept, WorkKept, TxType
<1>6. CASE CommitInsert(r)
  BY <1>1, <1>2, <1>6 DEF CommitInsert, End, StatusKept, WorkKept, IInv, InsertedAlone
<1>7. CASE MailFails(r)
  BY <1>1, <1>2, <1>7 DEF MailFails, End, StatusKept, WorkKept
<1>. QED
  BY <1>3, <1>4, <1>5, <1>6, <1>7

\* A step served for a request: what is left to show is that the transaction it
\* leaves behind is one its principal may have.
LEMMA ServedStep ==
  ASSUME SInv, NEW step, Served(step), [Next]_vars, StatusKept,
         \A x \in Requests : tx'[x].op \in Changes /\ tx'[x].pc # "idle" =>
            \/ x \in entitled
            \/ tx'[x].op = "delete" /\ tx'[x].email = principal[x].email
  PROVE  SInv'
<1>1. /\ principal' = Cleared /\ entitled' = {r \in entitled : ~Ended(r)} /\ row' = NewRows
      /\ UNCHANGED <<access, refresh, passed>>
  BY DEF Served
<1>2. IInv'
  BY NextIInv DEF SInv
<1>3. TypeOK' /\ TypeOK
  BY <1>2 DEF SInv, IInv
<1>4. /\ principal \in [Requests -> PrincipalType] /\ entitled \subseteq Requests
      /\ row \in [Emails -> 0..MaxRow] /\ 1 \in 0..MaxRow /\ 0 \in 0..MaxRow
  BY DEF SInv, SessionsTypeOK
<1>5. Anyone \in PrincipalType /\ ~Anyone.on
  BY AnyoneIs
<1>6. \A e \in Emails : row'[e] = IF status'[e] = "absent" THEN 0 ELSE 1
  BY <1>1, <1>3 DEF SInv, OneAccount, StatusKept, NewRows, Live, TypeOK
<1>7. row' \in [Emails -> 0..MaxRow]
  <2>1. row' = [e \in Emails |-> row'[e]]
    BY <1>1 DEF NewRows
  <2>. QED
    BY <1>4, <1>6, <2>1
<1>8. /\ \A x \in Requests : principal'[x] = IF Ended(x) THEN Anyone ELSE principal[x]
      /\ principal' \in [Requests -> PrincipalType]
  BY <1>1, <1>4, <1>5 DEF Cleared
<1>9. SessionsTypeOK'
  BY <1>1, <1>3, <1>4, <1>6, <1>7, <1>8 DEF SInv, SessionsTypeOK
<1>10. OneAccount'
  BY <1>6 DEF OneAccount
<1>11. TokensOfAccounts'
  <2>1. \A e \in Emails : row[e] = 1 => row'[e] = 1
    BY <1>6 DEF SInv, OneAccount, StatusKept
  <2>. QED
    BY <1>1, <2>1 DEF SInv, TokensOfAccounts
<1>12. PrincipalsKept'
  BY <1>1, <1>5, <1>8 DEF SInv, PrincipalsKept
<1>13. EntitledActors'
  <2>1. \A x \in Requests : tx'[x].pc # "idle" => ~Ended(x)
    BY DEF Ended
  <2>. QED
    BY <1>1, <1>8, <2>1 DEF EntitledActors
<1>. QED
  BY <1>2, <1>9, <1>10, <1>11, <1>12, <1>13 DEF SInv

\* A request that may do so begins a change.
LEMMA HandleStep ==
  ASSUME SInv, NEW r \in Requests, NEW op \in Changes \cap Operations, NEW e \in Emails,
         NEW role \in Roles, Handle(r, op, e, role)
  PROVE  SInv'
<1>1. Served(Load(r, op, e, role)) /\ Load(r, op, e, role) /\ Allowed(principal[r], op, e)
  BY DEF Handle, Served
<1>2. [Next]_vars
  BY <1>1 DEF Next
<1>3. StatusKept
  BY <1>1 DEF Load, StatusKept
<1>4. tx \in [Requests -> TxType]
  BY DEF SInv, IInv, TypeOK
<1>5. /\ tx'[r].op = op /\ tx'[r].email = e
      /\ \A x \in Requests : x # r => tx'[x] = tx[x]
  BY <1>1, <1>4 DEF Load, NoTx
<1>6. r \in entitled \/ (op = "delete" /\ e = principal[r].email)
  BY <1>1 DEF Allowed, SInv, PrincipalsKept
<1>7. \A x \in Requests : tx'[x].op \in Changes /\ tx'[x].pc # "idle" =>
         \/ x \in entitled
         \/ tx'[x].op = "delete" /\ tx'[x].email = principal[x].email
  BY <1>5, <1>6 DEF SInv, EntitledActors
<1>. QED
  BY <1>1, <1>2, <1>3, <1>7, ServedStep

\* A registration, a login by an identity provider or the seeding job begins.
LEMMA ArriveStep ==
  ASSUME SInv, NEW r \in Requests, NEW op \in Inserts \cap Operations, NEW e \in Emails,
         Served(Arrive(r, op, e))
  PROVE  SInv'
<1>1. Arrive(r, op, e)
  BY DEF Served
<1>2. [Next]_vars
  BY <1>1 DEF Next
<1>3. StatusKept
  BY <1>1 DEF Arrive, StatusKept
<1>4. tx \in [Requests -> TxType]
  BY DEF SInv, IInv, TypeOK
<1>5. tx'[r].op = op /\ \A x \in Requests : x # r => tx'[x] = tx[x]
  BY <1>1, <1>4 DEF Arrive, NoTx
<1>6. \A x \in Requests : tx'[x].op \in Changes /\ tx'[x].pc # "idle" =>
         \/ x \in entitled
         \/ tx'[x].op = "delete" /\ tx'[x].email = principal[x].email
  BY <1>5 DEF SInv, EntitledActors
<1>. QED
  BY <1>2, <1>3, <1>6, ServedStep

\* A request goes on.
LEMMA GoStep ==
  ASSUME SInv, NEW r \in Requests, Go(r)
  PROVE  SInv'
<1>1. ASSUME NEW step, Served(step),
             step => Guard(r) \/ Commit(r) \/ Insert(r) \/ CommitInsert(r) \/ MailFails(r)
      PROVE  SInv'
  <2>1. Guard(r) \/ Commit(r) \/ Insert(r) \/ CommitInsert(r) \/ MailFails(r)
    BY <1>1 DEF Served
  <2>2. [Next]_vars
    BY <2>1 DEF Next
  <2>3. StatusKept /\ \A x \in Requests : WorkKept(x)
    BY <2>1, GoKeeps DEF SInv
  <2>4. \A x \in Requests : tx'[x].op \in Changes /\ tx'[x].pc # "idle" =>
           \/ x \in entitled
           \/ tx'[x].op = "delete" /\ tx'[x].email = principal[x].email
    BY <2>3 DEF SInv, EntitledActors, WorkKept
  <2>. QED
    BY <1>1, <2>2, <2>3, <2>4, ServedStep
<1>2. CASE Leave(r)
  BY <1>2, PrincipalStep
<1>. QED
  BY <1>1, <1>2 DEF Go

\* Nothing happens.
LEMMA NoStep == SInv /\ UNCHANGED allVars => SInv'
<1>. SUFFICES ASSUME SInv, UNCHANGED allVars PROVE SInv'
  OBVIOUS
<1>. QED
  BY TokenStep DEF allVars, sessionVars, SInv, SessionsTypeOK, TokensOfAccounts

-----------------------------------------------------------------------------
\* A system with sessions is a system of accounts: whatever is true of
\* UserAccounts is true of it.
THEOREM SessionsAreAccounts == SessionsSpec => Spec
<1>1. SessionsInit => Init
  BY DEF SessionsInit
<1>2. [SessionsNext]_allVars => [Next]_vars
  BY StepIsStep
<1>. QED
  BY <1>1, <1>2, PTL DEF SessionsSpec, Spec

\* SInv holds in every reachable state.
THEOREM SessionsInductive == SessionsSpec => []SInv
<1>1. SInv /\ [SessionsNext]_allVars => SInv'
  <2>. SUFFICES ASSUME SInv, [SessionsNext]_allVars PROVE SInv'
    OBVIOUS
  <2>. QED
    BY TokenSteps, PrincipalStep, HandleStep, ArriveStep, GoStep, NoStep DEF SessionsNext
<1>. QED
  BY <1>1, InitSInv, PTL DEF SessionsSpec

\* Every variable keeps its type.
THEOREM SessionsTypeCorrect == SessionsSpec => []SessionsTypeOK
<1>1. SInv => SessionsTypeOK
  BY DEF SInv
<1>. QED
  BY <1>1, SessionsInductive, PTL

\* The access rules and what AccessTokenAuthenticationFilter loads: who was not
\* an administrator when a request arrived changes no account but its own.
THEOREM ActorsEntitled == SessionsSpec => []EntitledActors
<1>1. SInv => EntitledActors
  BY DEF SInv
<1>. QED
  BY <1>1, SessionsInductive, PTL

\* Tokens name an address, and the address has one account for ever.
THEOREM TokensKeepAccounts == SessionsSpec => []TokensKeepTheirAccount
<1>1. SInv => TokensKeepTheirAccount
  BY DEF SInv, PrincipalsKept, TokensKeepTheirAccount
<1>. QED
  BY <1>1, SessionsInductive, PTL

\* The last administrator stays although sessions outlive roles and accounts.
THEOREM SessionsKeepAnAdmin == SessionsSpec => []AdminRemains
BY SessionsAreAccounts, AdminRemainsHolds, PTL

\* What clients do with their tokens, however late their requests are served,
\* amounts to operations of UserService, each of which takes place at once.
THEOREM SessionsServedAtOnce == SessionsSpec => ImplementsService
BY SessionsAreAccounts, ServedAtOnce, PTL

\* What a step gives to a deleted account: nothing, but for the tokens of those
\* who had passed before.
GainsNothing(e) ==
  /\ \A p \in passed' \ passed : p.email # e
  /\ \A r \in Requests : principal'[r].on /\ principal'[r].email = e
       => principal[r].on /\ principal[r].email = e
  /\ \A t \in access' \cup refresh' : t.email = e =>
       \/ t \in access \cup refresh
       \/ \E u \in access \cup refresh : u.email = e /\ u.left > t.left
       \/ \E p \in passed \ passed' : p.email = e

\* Tokens that age were there before, with more ticks left.
LEMMA AgedTokens ==
  ASSUME NEW life \in Nat, NEW S \in SUBSET TokenOf(life), NEW t \in Aged(S)
  PROVE  \E u \in S : u.email = t.email /\ u.left > t.left
<1>1. PICK u \in S : u.left > 1 /\ t = [u EXCEPT !.left = @ - 1]
  BY DEF Aged
<1>2. u \in TokenOf(life)
  OBVIOUS
<1>3. t.email = u.email /\ t.left = u.left - 1 /\ u.left \in Nat
  BY <1>1, <1>2 DEF TokenOf
<1>. QED
  BY <1>3

\* Login and refresh ask for a live account, and so does the filter.
LEMMA NextGains ==
  ASSUME SInv, [SessionsNext]_allVars, NEW e \in Emails, status[e] = "deleted"
  PROVE  GainsNothing(e)
<1>0. /\ principal \in [Requests -> PrincipalType] /\ ~Anyone.on
      /\ access \in SUBSET TokenOf(AccessLife) /\ refresh \in SUBSET TokenOf(RefreshLife)
      /\ AccessLife \in Nat /\ RefreshLife \in Nat
  BY AnyoneIs DEF SInv, SessionsTypeOK
<1>1. ASSUME NEW a \in Emails, Login(a) PROVE GainsNothing(e)
  BY <1>1 DEF Login, Live, GainsNothing
<1>2. ASSUME NEW t \in refresh, Refresh(t) PROVE GainsNothing(e)
  BY <1>2 DEF Refresh, Live, GainsNothing
<1>3. ASSUME NEW p \in passed, Issue(p) PROVE GainsNothing(e)
  BY <1>3 DEF Issue, GainsNothing
<1>4. ASSUME NEW r \in Requests, NEW t \in access, Authenticate(r, t) PROVE GainsNothing(e)
  <2>1. t.email # e
    BY <1>4 DEF Authenticate, Live
  <2>2. \A q \in Requests : principal'[q] = principal[q] \/ principal'[q].email = t.email
    BY <1>0, <1>4 DEF Authenticate
  <2>. QED
    BY <1>4, <2>1, <2>2 DEF Authenticate, GainsNothing
<1>5. ASSUME NEW step, Served(step) PROVE GainsNothing(e)
  BY <1>0, <1>5 DEF Served, Cleared, GainsNothing
<1>6. ASSUME NEW r \in Requests, Go(r) PROVE GainsNothing(e)
  <2>1. CASE Leave(r)
    BY <1>0, <2>1 DEF Leave, GainsNothing
  <2>. QED
    BY <1>5, <1>6, <2>1 DEF Go
<1>7. CASE Tick
  BY <1>0, <1>7, AgedTokens DEF Tick, GainsNothing
<1>8. CASE UNCHANGED allVars
  BY <1>8 DEF allVars, sessionVars, GainsNothing
<1>. QED
  BY <1>1, <1>2, <1>3, <1>4, <1>5, <1>6, <1>7, <1>8 DEF SessionsNext, Handle

\* Login, refresh and AccessTokenAuthenticationFilter look for a live account,
\* the success handlers do not: what a deleted account can still be given.
THEOREM DeletedGainNothing == SessionsSpec => DeletedGainsNothing
<1>1. SInv /\ [SessionsNext]_allVars =>
        \A e \in Emails : status[e] = "deleted" => GainsNothing(e)
  BY NextGains
<1>. QED
  BY <1>1, SessionsInductive, PTL DEF SessionsSpec, DeletedGainsNothing, GainsNothing
=============================================================================
