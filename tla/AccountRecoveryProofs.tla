------------------------ MODULE AccountRecoveryProofs ------------------------
(***************************************************************************)
(* Proofs about AccountRecovery, for any number of addresses, tokens and    *)
(* requests.  IInv says what a request may rely on between its steps, and   *)
(* where a token can be once it was mailed, found, deleted and used.        *)
(***************************************************************************)
EXTENDS AccountRecovery, TLAPS

USE RecoveryAssumption
USE DEF Kinds

\* A request that has found a token and not yet ended.
Claims(q) == q.pc \in {"user", "delete", "write"} /\ q.op \in Kinds

\* A registration whose row is inserted and not committed.
Registers(q) == q.op = "register" /\ q.pc \in {"store", "mail", "commit"}

\* A claimed token is one that was mailed, of the kind that was asked for.
ClaimsMailed ==
  \A r \in Requests :
    /\ req[r].pc \in {"user", "delete"} => req[r].op \in Kinds
    /\ req[r].pc = "write" => req[r].op \in {"change"} \cup Kinds
    /\ Claims(req[r]) => /\ req[r].token \in mailed
                         /\ token[req[r].token].kind = req[r].op
                         /\ token[req[r].token].email = req[r].email

\* Until somebody else writes the row, a request works on the row as it is.
LoadedIsCurrent ==
  \A r \in Requests : req[r].pc \in {"delete", "write"} /\ ~req[r].stale =>
    Live(req[r].email) /\ acc[req[r].email].entity = req[r].seen

\* An uncommitted row is the only one of its address, and not verified.
InsertedAlone ==
  \A r \in Requests :
    /\ req[r].pc = "commit" => req[r].op = "register"
    /\ Registers(req[r]) =>
         /\ acc[req[r].email].status = "absent" /\ ~req[r].seen.verified
         /\ \A q \in Requests : Registers(req[q]) /\ req[q].email = req[r].email => q = r

\* A token is in Redis before it is in a mail.
StoredFirst ==
  /\ \A t \in mailed : token[t].status # "unused"
  /\ \A r \in Requests : req[r].pc = "mail" =>
       req[r].token \in Tokens /\ token[req[r].token].status # "unused"

\* A row has an id, and a token is made for a row.
RowsGiven ==
  /\ \A e \in Emails : acc[e].status # "absent" => acc[e].entity.row > 0
  /\ \A r \in Requests : req[r].pc = "store" \/ Registers(req[r]) => req[r].seen.row > 0

\* As long as no two requests raced for a token, who deleted it is the only one
\* who has found it, and after its use nobody has.
UsedByOne ==
  \A t \in Tokens : t \notin contested =>
    /\ uses[t] <= 1
    /\ uses[t] > 0 => /\ token[t].status = "deleted"
                      /\ \A q \in Requests : ~(Claims(req[q]) /\ req[q].token = t)
    /\ \A r \in Requests : Claims(req[r]) /\ req[r].pc = "write" /\ req[r].token = t =>
         /\ token[t].status = "deleted"
         /\ \A q \in Requests : Claims(req[q]) /\ req[q].token = t => q = r

\* A token is deleted for a change that is made, is about to be made or cannot be.
DeletedForUse ==
  \A t \in Tokens : token[t].status = "deleted" =>
    \/ uses[t] > 0
    \/ t \in excused
    \/ \E r \in Requests : req[r].pc = "write" /\ req[r].op \in Kinds /\ req[r].token = t

\* An address has one row that is ever committed, and it is what tokens change.
OneRow ==
  /\ \A e \in Emails : \A x \in Rows : <<e, x>> \in existed =>
       acc[e].status # "absent" /\ x = acc[e].entity.row
  /\ \A t \in Tokens : \A x \in served[t] :
       /\ token[t].status # "unused"
       /\ acc[token[t].email].status # "absent" /\ x = acc[token[t].email].entity.row

IInv ==
  /\ TypeOK
  /\ ClaimsMailed
  /\ LoadedIsCurrent
  /\ InsertedAlone
  /\ StoredFirst
  /\ RowsGiven
  /\ UsedByOne
  /\ DeletedForUse
  /\ VerifiedByMail
  /\ OneRow

-----------------------------------------------------------------------------
\* The address that stands in an idle request is one.
LEMMA AnyEmailIs == AnyEmail \in Emails
BY DEF AnyEmail

\* An idle request is a request.
LEMMA NoReqIs ==
  /\ NoReq \in ReqType
  /\ NoReq.pc = "idle" /\ NoReq.op = "none"
BY AnyEmailIs DEF NoReq, ReqType, NoEntity, Entity, Rows

\* The parts of a request have the types of their columns and variables.
LEMMA Parts ==
  ASSUME NEW q \in ReqType
  PROVE  /\ q.op \in {"none", "register", "change"} \cup Kinds /\ q.email \in Emails
         /\ q.token \in Tokens \cup {NoToken}
         /\ q.password \in Passwords \cup {NoPassword}
         /\ q.seen \in Entity /\ q.stale \in BOOLEAN
BY DEF ReqType

\* Nothing is stored, claimed or written to begin with: IInv holds.
LEMMA InitIInv == Init => IInv
<1>. SUFFICES ASSUME Init PROVE IInv
  OBVIOUS
<1>1. TypeOK
  <2>1. NoEntity \in Entity
    BY DEF NoEntity, Entity, Rows
  <2>2. [status |-> "absent", entity |-> NoEntity] \in AccountType
    BY <2>1 DEF AccountType
  <2>3. [status |-> "unused", kind |-> "verify", email |-> AnyEmail, row |-> 0, ttl |-> 0] \in TokenType
    BY AnyEmailIs DEF TokenType, Rows
  <2>. QED
    BY <2>2, <2>3, NoReqIs DEF Init, TypeOK, Rows
<1>2. ClaimsMailed /\ LoadedIsCurrent /\ InsertedAlone /\ StoredFirst
  BY NoReqIs DEF Init, ClaimsMailed, LoadedIsCurrent, InsertedAlone, StoredFirst, Claims, Registers
<1>3. RowsGiven /\ UsedByOne /\ DeletedForUse /\ OneRow
  BY NoReqIs DEF Init, RowsGiven, UsedByOne, DeletedForUse, OneRow, Claims, Registers
<1>4. VerifiedByMail
  BY DEF Init, VerifiedByMail, NoEntity
<1>. QED
  BY <1>1, <1>2, <1>3, <1>4 DEF IInv

-----------------------------------------------------------------------------
(* Steps of one request that write to neither store: what is left to show of *)
(* each is what the request becomes.                                         *)

\* What a request may become when accounts and tokens stay as they are.
Sound(q) ==
  /\ q \in ReqType
  /\ q.pc \in {"user", "delete"} => q.op \in Kinds
  /\ q.pc = "write" => q.op \in {"change"} \cup Kinds
  /\ Claims(q) => /\ q.token \in mailed
                  /\ token[q.token].kind = q.op /\ token[q.token].email = q.email
  /\ q.pc \in {"delete", "write"} /\ ~q.stale => Live(q.email) /\ acc[q.email].entity = q.seen
  /\ q.pc = "commit" => q.op = "register"
  /\ Registers(q) => acc[q.email].status = "absent" /\ ~q.seen.verified
  /\ q.pc = "mail" => q.token \in Tokens /\ token[q.token].status # "unused"
  /\ q.pc = "store" \/ Registers(q) => q.seen.row > 0

\* The token q claims is one it claimed before or that was there to be found.
ClaimKept(old, q) ==
  /\ Claims(q) => \/ Claims(old) /\ old.token = q.token
                  \/ q.pc # "write" /\ token[q.token].status = "stored"
  /\ Claims(q) /\ q.pc = "write" => Claims(old) /\ old.pc = "write" /\ old.token = q.token

LEMMA RequestStep ==
  ASSUME IInv, NEW r \in Requests, NEW q,
         req' = [req EXCEPT ![r] = q],
         Sound(q), ClaimKept(req[r], q),
         Registers(q) => \/ Registers(req[r]) /\ req[r].email = q.email
                         \/ \A x \in Requests : ~(Registers(req[x]) /\ req[x].email = q.email),
         Claims(req[r]) /\ req[r].pc = "write" => req[r].token \in excused',
         made' \in [Emails -> Rows],
         mailed \subseteq mailed', mailed' \subseteq Tokens,
         \A t \in mailed' : token[t].status # "unused",
         excused \subseteq excused', excused' \subseteq Tokens,
         UNCHANGED <<acc, token, uses, served, existed, contested>>
  PROVE  IInv'
<1>1. TypeOK'
  BY DEF IInv, TypeOK, Sound
<1>2. ClaimsMailed'
  BY DEF IInv, TypeOK, ClaimsMailed, Sound
<1>3. LoadedIsCurrent'
  BY DEF IInv, TypeOK, LoadedIsCurrent, Sound, Live
<1>4. InsertedAlone'
  BY DEF IInv, TypeOK, InsertedAlone, Sound
<1>5. StoredFirst'
  BY DEF IInv, TypeOK, StoredFirst, Sound
<1>6. RowsGiven'
  BY DEF IInv, TypeOK, RowsGiven, Sound
<1>7. UsedByOne'
  BY DEF IInv, TypeOK, UsedByOne, ClaimKept
<1>8. DeletedForUse'
  BY DEF IInv, TypeOK, DeletedForUse, Claims
<1>9. VerifiedByMail'
  BY DEF IInv, VerifiedByMail
<1>10. OneRow'
  BY DEF IInv, OneRow
<1>. QED
  BY <1>1, <1>2, <1>3, <1>4, <1>5, <1>6, <1>7, <1>8, <1>9, <1>10 DEF IInv

\* A request that ends claims nothing.
LEMMA EndStep ==
  ASSUME IInv, NEW r \in Requests, req' = End(req, r),
         mailed \subseteq mailed', mailed' \subseteq Tokens,
         \A t \in mailed' : token[t].status # "unused",
         excused \subseteq excused', excused' \subseteq Tokens,
         Claims(req[r]) /\ req[r].pc = "write" => req[r].token \in excused',
         UNCHANGED <<acc, made, token, uses, served, existed, contested>>
  PROVE  IInv'
<1>1. Sound(NoReq) /\ ~Claims(NoReq) /\ ~Registers(NoReq)
  BY NoReqIs DEF Sound, Claims, Registers
<1>2. made' \in [Emails -> Rows]
  BY DEF IInv, TypeOK
<1>. QED
  BY <1>1, <1>2, RequestStep DEF End, ClaimKept

\* A new request: of any type and address, in a state it may be in.
LEMMA NewStep ==
  ASSUME IInv, NEW r \in Requests, NEW q, req[r].pc = "idle",
         req' = [req EXCEPT ![r] = q], Sound(q),
         ~Registers(q),
         Claims(q) => q.pc # "write" /\ token[q.token].status = "stored",
         UNCHANGED <<acc, made, token, mailed, history>>
  PROVE  IInv'
<1>1. /\ made' \in [Emails -> Rows] /\ mailed' \subseteq Tokens /\ excused' \subseteq Tokens
      /\ \A t \in mailed' : token[t].status # "unused"
      /\ ~Claims(req[r])
  BY DEF IInv, TypeOK, StoredFirst, Claims, history
<1>. QED
  BY <1>1, RequestStep DEF ClaimKept, history

\* UserServiceImpl.create begins.
LEMMA RegisterStep ==
  ASSUME IInv, NEW r \in Requests, NEW e \in Emails, NEW p \in Passwords, Register(r, e, p)
  PROVE  IInv'
<1>. DEFINE q == [NoReq EXCEPT !.pc = "insert", !.op = "register", !.email = e, !.password = p]
<1>1. q \in ReqType /\ q.pc = "insert" /\ q.op = "register"
  BY NoReqIs, AnyEmailIs DEF ReqType, NoReq
<1>. HIDE DEF q
<1>2. Sound(q) /\ ~Registers(q) /\ ~Claims(q)
  BY <1>1 DEF Sound, Registers, Claims
<1>. QED
  BY <1>2, NewStep DEF Register, q

\* sendVerificationMessageByEmail, sendResetMessageByEmail begin.
LEMMA AskStep ==
  ASSUME IInv, NEW r \in Requests, NEW kind \in Kinds, NEW e \in Emails, Ask(r, kind, e)
  PROVE  IInv'
<1>. DEFINE q == [NoReq EXCEPT !.pc = "store", !.op = kind, !.email = e, !.seen = acc[e].entity]
<1>1. acc[e].entity \in Entity /\ acc[e].entity.row > 0
  BY DEF Ask, IInv, TypeOK, AccountType, RowsGiven, Live
<1>2. q \in ReqType /\ q.pc = "store" /\ q.op = kind /\ q.seen = acc[e].entity
  BY <1>1, NoReqIs, AnyEmailIs DEF ReqType, NoReq
<1>. HIDE DEF q
<1>3. Sound(q) /\ ~Registers(q) /\ ~Claims(q)
  BY <1>1, <1>2 DEF Sound, Registers, Claims
<1>. QED
  BY <1>3, NewStep DEF Ask, q

\* verifyByToken, resetByToken find their token.
LEMMA FindTokenStep ==
  ASSUME IInv, NEW r \in Requests, NEW kind \in Kinds, NEW t \in Tokens, NEW p \in Passwords,
         FindToken(r, kind, t, p)
  PROVE  IInv'
<1>. DEFINE q == [NoReq EXCEPT !.pc = "user", !.op = kind, !.token = t, !.email = token[t].email,
                               !.password = IF kind = "reset" THEN p ELSE NoPassword]
<1>1. token[t].email \in Emails
  BY DEF IInv, TypeOK, TokenType
<1>2. /\ q \in ReqType /\ q.pc = "user" /\ q.op = kind
      /\ q.token = t /\ q.email = token[t].email
  BY <1>1, NoReqIs, AnyEmailIs DEF ReqType, NoReq
<1>3. req[r].pc = "idle" /\ req' = [req EXCEPT ![r] = q] /\ t \in mailed
      /\ token[t].status = "stored" /\ token[t].kind = kind
      /\ UNCHANGED <<acc, made, token, mailed, history>>
  BY DEF FindToken, Resolves
<1>. HIDE DEF q
<1>4. Sound(q) /\ ~Registers(q)
  BY <1>2, <1>3 DEF Sound, Registers, Claims
<1>. QED
  BY <1>2, <1>3, <1>4, NewStep

\* changePasswordByEmail loads the account and checks the password.
LEMMA ChangePasswordStep ==
  ASSUME IInv, NEW r \in Requests, NEW e \in Emails, NEW current \in Passwords,
         NEW p \in Passwords, ChangePassword(r, e, current, p)
  PROVE  IInv'
<1>. DEFINE q == [NoReq EXCEPT !.pc = "write", !.op = "change", !.email = e, !.password = p,
                               !.seen = acc[e].entity]
<1>1. acc[e].entity \in Entity /\ Live(e)
  BY DEF ChangePassword, IInv, TypeOK, AccountType
<1>2. /\ q \in ReqType /\ q.pc = "write" /\ q.op = "change"
      /\ q.email = e /\ q.seen = acc[e].entity
  BY <1>1, NoReqIs, AnyEmailIs DEF ReqType, NoReq
<1>. HIDE DEF q
<1>3. Sound(q) /\ ~Registers(q) /\ ~Claims(q)
  BY <1>1, <1>2 DEF Sound, Registers, Claims
<1>. QED
  BY <1>3, NewStep DEF ChangePassword, q

\* The row of a registration is inserted, or its address is taken.
LEMMA InsertStep ==
  ASSUME IInv, NEW r \in Requests, Insert(r)
  PROVE  IInv'
<1>. DEFINE e == req[r].email
            s == [NoEntity EXCEPT !.row = made[e] + 1, !.password = req[r].password]
            q == [req[r] EXCEPT !.pc = "store", !.seen = s]
<1>1. /\ req[r] \in ReqType /\ req[r].pc = "insert" /\ e \in Emails /\ ~Claims(req[r])
      /\ mailed' \subseteq Tokens /\ excused' \subseteq Tokens
      /\ \A t \in mailed' : token[t].status # "unused"
      /\ UNCHANGED <<acc, token, mailed, history>>
  BY Parts DEF Insert, IInv, TypeOK, StoredFirst, Claims, history
<1>2. CASE acc[e].status # "absent"
  BY <1>1, <1>2, EndStep DEF Insert, history
<1>3. CASE acc[e].status = "absent"
  <2>1. /\ made[e] \in Nat /\ made[e] < MaxRows
        /\ made' = [made EXCEPT ![e] = @ + 1]
        /\ req' = [req EXCEPT ![r].pc = "store", ![r].seen = s]
        /\ \A x \in Requests : ~(Registers(req[x]) /\ req[x].email = e)
    BY <1>1, <1>3 DEF Insert, IInv, TypeOK, Rows, Inserting, Registers
  <2>2. made' \in [Emails -> Rows] /\ made[e] + 1 \in Rows
    BY <1>1, <2>1 DEF IInv, TypeOK, Rows
  <2>3. s \in Entity /\ s.row = made[e] + 1 /\ ~s.verified
    BY <1>1, <2>2, Parts DEF Entity, NoEntity
  <2>. HIDE DEF s
  <2>4. /\ q \in ReqType /\ q.pc = "store" /\ q.seen = s /\ q.email = e
    BY <1>1, <2>3 DEF ReqType
  <2>5. req' = [req EXCEPT ![r] = q]
    BY <1>1, <2>1 DEF IInv, TypeOK
  <2>. HIDE DEF q
  <2>6. Sound(q) /\ ~Claims(q)
    BY <1>3, <2>1, <2>3, <2>4 DEF Sound, Claims
  <2>. QED
    BY <1>1, <2>1, <2>2, <2>4, <2>5, <2>6, RequestStep DEF ClaimKept, history
<1>. QED
  BY <1>2, <1>3

\* The mail goes out: a request for one ends, a registration commits next.
LEMMA MailStep ==
  ASSUME IInv, NEW r \in Requests, Mail(r) \/ MailFails(r)
  PROVE  IInv'
<1>. DEFINE q == [req[r] EXCEPT !.pc = "commit"]
<1>1. /\ req[r] \in ReqType /\ req[r].pc = "mail" /\ ~Claims(req[r])
      /\ mailed \subseteq mailed' /\ mailed' \subseteq Tokens
      /\ \A t \in mailed' : token[t].status # "unused"
      /\ excused' \subseteq Tokens
      /\ made' \in [Emails -> Rows]
      /\ UNCHANGED <<acc, made, token, history>>
  BY DEF Mail, MailFails, IInv, TypeOK, StoredFirst, Claims, history
<1>2. CASE req' = End(req, r)
  BY <1>1, <1>2, EndStep DEF history
<1>3. CASE req[r].op = "register" /\ req' = [req EXCEPT ![r].pc = "commit"]
  <2>1. /\ q \in ReqType /\ q.pc = "commit" /\ q.op = "register"
        /\ q.email = req[r].email /\ q.seen = req[r].seen
    BY <1>1, <1>3 DEF ReqType
  <2>2. req' = [req EXCEPT ![r] = q]
    BY <1>1, <1>3 DEF IInv, TypeOK
  <2>. HIDE DEF q
  <2>3. Sound(q) /\ ~Claims(q) /\ Registers(req[r])
    BY <1>1, <1>3, <2>1 DEF Sound, Claims, Registers, IInv, InsertedAlone, RowsGiven
  <2>. QED
    BY <1>1, <2>1, <2>2, <2>3, RequestStep DEF ClaimKept, history
<1>. QED
  BY <1>2, <1>3 DEF Mail, MailFails

\* The account of a token is loaded, or there is none.
LEMMA FindUserStep ==
  ASSUME IInv, NEW r \in Requests, FindUser(r)
  PROVE  IInv'
<1>. DEFINE e == req[r].email
            q == [req[r] EXCEPT !.pc = "delete", !.seen = acc[e].entity]
<1>1. /\ req[r] \in ReqType /\ req[r].pc = "user" /\ e \in Emails
      /\ acc[e].entity \in Entity
      /\ req[r].op \in Kinds /\ Claims(req[r])
      /\ mailed' \subseteq Tokens /\ excused' \subseteq Tokens
      /\ \A t \in mailed' : token[t].status # "unused"
      /\ made' \in [Emails -> Rows]
      /\ UNCHANGED <<acc, made, token, mailed, history>>
  BY Parts DEF FindUser, IInv, TypeOK, AccountType, StoredFirst, ClaimsMailed, Claims, history
<1>2. CASE ~Live(e)
  BY <1>1, <1>2, EndStep DEF FindUser, history
<1>3. CASE Live(e)
  <2>1. /\ q \in ReqType /\ q.pc = "delete" /\ q.seen = acc[e].entity
        /\ q.email = e /\ q.op = req[r].op /\ q.token = req[r].token
    BY <1>1 DEF ReqType
  <2>2. req' = [req EXCEPT ![r] = q]
    BY <1>1, <1>3 DEF FindUser, IInv, TypeOK
  <2>. HIDE DEF q
  <2>3. Sound(q) /\ ~Registers(q) /\ ClaimKept(req[r], q)
    BY <1>1, <1>3, <2>1 DEF Sound, Claims, Registers, ClaimKept, IInv, ClaimsMailed
  <2>. QED
    BY <1>1, <2>2, <2>3, RequestStep DEF history
<1>. QED
  BY <1>2, <1>3

\* The instance of a request dies.
LEMMA CrashStep ==
  ASSUME IInv, NEW r \in Requests, Crash(r)
  PROVE  IInv'
<1>1. /\ mailed' \subseteq Tokens
      /\ \A t \in mailed' : token[t].status # "unused"
  BY DEF Crash, IInv, TypeOK, StoredFirst
<1>2. excused' \subseteq Tokens
  BY DEF Crash, IInv, TypeOK, ClaimsMailed, Claims
<1>. QED
  BY <1>1, <1>2, EndStep DEF Crash, Claims

-----------------------------------------------------------------------------
(* Steps that write to a store. *)

\* Who has loaded a row that is written holds an old version; nothing else
\* about a request changes.
LEMMA InvalidateIs ==
  ASSUME NEW q \in [Requests -> ReqType], NEW e \in Emails
  PROVE  /\ Invalidate(q, e) \in [Requests -> ReqType]
         /\ \A x \in Requests :
              /\ Invalidate(q, e)[x].pc = q[x].pc /\ Invalidate(q, e)[x].op = q[x].op
              /\ Invalidate(q, e)[x].email = q[x].email /\ Invalidate(q, e)[x].token = q[x].token
              /\ Invalidate(q, e)[x].seen = q[x].seen
              /\ ~Invalidate(q, e)[x].stale =>
                   ~q[x].stale /\ ~(q[x].email = e /\ q[x].pc \in {"delete", "write"})
<1>1. ASSUME NEW x \in Requests
      PROVE  LET i == [q[x] EXCEPT !.stale = TRUE]
             IN  /\ i \in ReqType /\ i.pc = q[x].pc /\ i.op = q[x].op /\ i.email = q[x].email
                 /\ i.token = q[x].token /\ i.seen = q[x].seen /\ i.stale
  BY DEF ReqType
<1>. QED
  BY <1>1 DEF Invalidate

\* A row is written whose loaders are invalidated: what is left to show is that
\* it stays the row it was, and verified by mail.
LEMMA RowWritten ==
  ASSUME IInv, NEW e \in Emails, NEW q \in [Requests -> ReqType],
         \A x \in Requests : q[x] = req[x] \/ q[x] = NoReq,
         req' = Invalidate(q, e),
         acc' \in [Emails -> AccountType],
         \A x \in Emails : x # e => acc'[x] = acc[x],
         acc[e].status # "absent", acc'[e].status # "absent",
         acc'[e].entity.row = acc[e].entity.row,
         UNCHANGED <<made, token, mailed, existed, contested>>
  PROVE  /\ acc' \in [Emails -> AccountType] /\ req' \in [Requests -> ReqType]
         /\ \A x \in Emails : acc'[x].status = "absent" => acc'[x].entity = NoEntity
         /\ ClaimsMailed' /\ LoadedIsCurrent' /\ InsertedAlone' /\ StoredFirst' /\ RowsGiven'
         /\ \A x \in Emails : /\ acc'[x].entity.row = acc[x].entity.row
                              /\ acc'[x].status = "absent" <=> acc[x].status = "absent"
         /\ \A x \in Requests : /\ Claims(req'[x]) => Claims(req[x]) /\ req'[x].token = req[x].token
                                                      /\ req'[x].pc = req[x].pc
                                /\ q[x] = req[x] => /\ req'[x].pc = req[x].pc /\ req'[x].op = req[x].op
                                                    /\ req'[x].token = req[x].token
<1>1. /\ req' \in [Requests -> ReqType]
      /\ \A x \in Requests :
           /\ req'[x].pc = q[x].pc /\ req'[x].op = q[x].op
           /\ req'[x].email = q[x].email /\ req'[x].token = q[x].token
           /\ req'[x].seen = q[x].seen
           /\ ~req'[x].stale => ~q[x].stale /\ ~(q[x].email = e /\ q[x].pc \in {"delete", "write"})
  BY InvalidateIs
<1>2. \A x \in Requests : q[x].pc # "idle" => q[x] = req[x]
  BY NoReqIs
<1>3. req \in [Requests -> ReqType] /\ acc \in [Emails -> AccountType]
  BY DEF IInv, TypeOK
<1>4. ClaimsMailed'
  BY <1>1, <1>2 DEF IInv, ClaimsMailed, Claims
<1>5. LoadedIsCurrent'
  <2>1. ASSUME NEW x \in Requests, req'[x].pc \in {"delete", "write"}, ~req'[x].stale
        PROVE  /\ req'[x].email \in Emails /\ req'[x].email # e
               /\ Live(req'[x].email) /\ acc[req'[x].email].entity = req'[x].seen
    <3>1. q[x] = req[x] /\ req[x].pc \in {"delete", "write"} /\ ~req[x].stale /\ req[x].email # e
      BY <1>1, <1>2, <2>1
    <3>. QED
      BY <1>1, <1>3, <3>1, Parts DEF IInv, LoadedIsCurrent
  <2>. QED
    BY <2>1 DEF LoadedIsCurrent, Live
<1>6. InsertedAlone'
  BY <1>1, <1>2, <1>3, Parts DEF IInv, InsertedAlone, Registers
<1>7. StoredFirst'
  BY <1>1, <1>2 DEF IInv, StoredFirst
<1>8. RowsGiven'
  BY <1>1, <1>2 DEF IInv, RowsGiven, Registers
<1>9. \A x \in Emails : acc'[x].status = "absent" => acc'[x].entity = NoEntity
  BY DEF IInv, TypeOK
<1>. QED
  BY <1>1, <1>2, <1>4, <1>5, <1>6, <1>7, <1>8, <1>9 DEF Claims

\* Deleting an account, writing another column of it.
LEMMA OtherWriteStep ==
  ASSUME IInv, NEW e \in Emails, DeleteAccount(e) \/ Touch(e)
  PROVE  IInv'
<1>1. /\ Live(e) /\ req' = Invalidate(req, e) /\ acc \in [Emails -> AccountType]
      /\ req \in [Requests -> ReqType]
      /\ UNCHANGED <<made, token, mailed, history>>
      /\ acc' = acc \/ acc' = [acc EXCEPT ![e].status = "deleted"]
  BY DEF DeleteAccount, Touch, IInv, TypeOK
<1>2. /\ acc' \in [Emails -> AccountType] /\ acc'[e].status # "absent"
      /\ \A x \in Emails : acc'[x].entity = acc[x].entity
      /\ \A x \in Emails : x # e => acc'[x] = acc[x]
  BY <1>1 DEF AccountType, Live
<1>3. /\ acc' \in [Emails -> AccountType] /\ req' \in [Requests -> ReqType]
      /\ \A x \in Emails : acc'[x].status = "absent" => acc'[x].entity = NoEntity
      /\ ClaimsMailed' /\ LoadedIsCurrent' /\ InsertedAlone' /\ StoredFirst' /\ RowsGiven'
      /\ \A x \in Emails : /\ acc'[x].entity.row = acc[x].entity.row
                           /\ acc'[x].status = "absent" <=> acc[x].status = "absent"
      /\ \A x \in Requests : /\ Claims(req'[x]) => Claims(req[x]) /\ req'[x].token = req[x].token
                                                   /\ req'[x].pc = req[x].pc
                             /\ req'[x].pc = req[x].pc /\ req'[x].op = req[x].op
                             /\ req'[x].token = req[x].token
  BY <1>1, <1>2, RowWritten DEF Live, history
<1>4. TypeOK'
  BY <1>1, <1>3 DEF IInv, TypeOK, history
<1>5. UsedByOne'
  BY <1>1, <1>3 DEF IInv, UsedByOne, history
<1>6. DeletedForUse'
  BY <1>1, <1>3 DEF IInv, DeletedForUse, history
<1>7. VerifiedByMail'
  BY <1>1, <1>2 DEF IInv, VerifiedByMail, history
<1>8. OneRow'
  <2>1. \A t \in Tokens : token[t].email \in Emails
    BY DEF IInv, TypeOK, TokenType
  <2>. QED
    BY <1>1, <1>3, <2>1 DEF IInv, OneRow, TypeOK, history
<1>. QED
  BY <1>3, <1>4, <1>5, <1>6, <1>7, <1>8 DEF IInv

\* The write of a verification, a reset or a change takes effect.
LEMMA WriteStep ==
  ASSUME IInv, NEW r \in Requests, Write(r)
  PROVE  IInv'
<1>. DEFINE q == req[r]
            t == q.token
            e == q.email
            dirty == q.op = "verify" => ~q.seen.verified
            byToken == q.op \in Kinds
<1>1. /\ req \in [Requests -> ReqType] /\ acc \in [Emails -> AccountType]
      /\ q \in ReqType /\ q.pc = "write" /\ e \in Emails
      /\ q.password \in Passwords \cup {NoPassword}
      /\ UNCHANGED <<made, token, mailed, existed, contested>>
  BY Parts DEF Write, IInv, TypeOK
<1>2. byToken => /\ t \in mailed /\ t \in Tokens /\ Claims(q)
                 /\ token[t].kind = q.op /\ token[t].email = e /\ token[t].status # "unused"
  BY <1>1 DEF IInv, TypeOK, ClaimsMailed, Claims, StoredFirst
<1>3. CASE ~(dirty /\ ~q.stale)
  <2>1. /\ req' = End(req, r) /\ UNCHANGED <<acc, uses, served>>
        /\ excused' = IF byToken THEN excused \cup {t} ELSE excused
    BY <1>3 DEF Write
  <2>2. /\ mailed' \subseteq Tokens /\ excused' \subseteq Tokens
        /\ \A x \in mailed' : token[x].status # "unused"
    BY <1>1, <1>2, <2>1 DEF IInv, TypeOK, StoredFirst
  <2>. QED
    BY <1>1, <2>1, <2>2, EndStep DEF Claims
<1>4. CASE dirty /\ ~q.stale
  <2>1. /\ acc' = [acc EXCEPT ![e].entity = Changed(q)]
        /\ req' = Invalidate(End(req, r), e)
        /\ uses' = IF byToken /\ uses[t] < 2 THEN [uses EXCEPT ![t] = @ + 1] ELSE uses
        /\ served' = IF byToken THEN [served EXCEPT ![t] = @ \cup {q.seen.row}] ELSE served
        /\ UNCHANGED excused
    BY <1>4 DEF Write
  <2>2. Live(e) /\ acc[e].entity = q.seen
    BY <1>1, <1>4 DEF IInv, LoadedIsCurrent
  <2>3. /\ Changed(q) \in Entity /\ Changed(q).row = q.seen.row
        /\ Changed(q).external = q.seen.external
        /\ q.op # "verify" => Changed(q).verified = q.seen.verified
    <3>1. q.seen \in Entity
      BY <1>1, Parts
    <3>. QED
      BY <1>1, <3>1 DEF Changed, Entity
  <2>4. /\ acc' \in [Emails -> AccountType] /\ acc'[e].status = "live"
        /\ acc'[e].entity = Changed(q) /\ acc'[e].entity.row = acc[e].entity.row
        /\ \A x \in Emails : x # e => acc'[x] = acc[x]
    BY <1>1, <2>1, <2>2, <2>3 DEF AccountType, Live
  <2>5. /\ End(req, r) \in [Requests -> ReqType]
        /\ \A x \in Requests : End(req, r)[x] = IF x = r THEN NoReq ELSE req[x]
    BY <1>1, NoReqIs DEF End
  <2>6. /\ req' \in [Requests -> ReqType]
        /\ \A x \in Emails : acc'[x].status = "absent" => acc'[x].entity = NoEntity
        /\ ClaimsMailed' /\ LoadedIsCurrent' /\ InsertedAlone' /\ StoredFirst' /\ RowsGiven'
        /\ \A x \in Emails : /\ acc'[x].entity.row = acc[x].entity.row
                             /\ acc'[x].status = "absent" <=> acc[x].status = "absent"
        /\ \A x \in Requests :
             /\ Claims(req'[x]) => Claims(req[x]) /\ req'[x].token = req[x].token
                                   /\ req'[x].pc = req[x].pc
             /\ x # r => /\ req'[x].pc = req[x].pc /\ req'[x].op = req[x].op
                         /\ req'[x].token = req[x].token
    BY <1>1, <2>1, <2>2, <2>4, <2>5, RowWritten DEF Live
  <2>7. req'[r].pc = "idle"
    BY <2>1, <2>5, NoReqIs, InvalidateIs, <1>1
  <2>8. /\ uses' \in [Tokens -> 0..2] /\ \A x \in Tokens : uses'[x] >= uses[x]
        /\ byToken => uses'[t] > 0
        /\ byToken /\ uses[t] = 0 => uses'[t] = 1
        /\ \A x \in Tokens : ~(byToken /\ x = t) => uses'[x] = uses[x]
    BY <1>2, <2>1 DEF IInv, TypeOK
  <2>9. TypeOK'
    <3>1. served' \in [Tokens -> SUBSET Rows]
      BY <1>1, <1>2, <2>1, <2>3, Parts DEF IInv, TypeOK, Entity
    <3>. QED
      BY <1>1, <2>1, <2>4, <2>6, <2>8, <3>1 DEF IInv, TypeOK
  <2>10. UsedByOne'
    <3>. SUFFICES ASSUME NEW x \in Tokens, x \notin contested
                  PROVE  /\ uses'[x] <= 1
                         /\ uses'[x] > 0 => /\ token[x].status = "deleted"
                                            /\ \A y \in Requests : ~(Claims(req'[y]) /\ req'[y].token = x)
                         /\ \A z \in Requests : Claims(req'[z]) /\ req'[z].pc = "write" /\ req'[z].token = x =>
                              /\ token[x].status = "deleted"
                              /\ \A y \in Requests : Claims(req'[y]) /\ req'[y].token = x => y = z
      BY <1>1 DEF UsedByOne
    <3>1. CASE byToken /\ x = t
      <4>1. /\ token[x].status = "deleted" /\ uses[x] = 0
            /\ \A y \in Requests : Claims(req[y]) /\ req[y].token = x => y = r
        BY <1>1, <1>2, <3>1 DEF IInv, UsedByOne, TypeOK
      <4>2. \A y \in Requests : ~(Claims(req'[y]) /\ req'[y].token = x)
        BY <2>6, <2>7, <4>1 DEF Claims
      <4>. QED
        BY <2>8, <3>1, <4>1, <4>2
    <3>2. CASE ~(byToken /\ x = t)
      BY <2>6, <2>8, <3>2 DEF IInv, UsedByOne
    <3>. QED
      BY <3>1, <3>2
  <2>11. DeletedForUse'
    BY <1>1, <1>2, <2>1, <2>6, <2>8 DEF IInv, DeletedForUse, TypeOK
  <2>12. VerifiedByMail'
    <3>. SUFFICES ASSUME NEW x \in Emails, acc'[x].entity.verified, ~acc'[x].entity.external
                  PROVE  \E y \in mailed : token[y].kind = "verify" /\ token[y].email = x /\ uses'[y] > 0
      BY <1>1 DEF VerifiedByMail
    <3>1. CASE acc[x].entity.verified /\ ~acc[x].entity.external
      BY <2>8, <3>1 DEF IInv, VerifiedByMail, TypeOK
    <3>2. CASE x = e /\ q.op = "verify"
      BY <1>2, <2>8, <3>2
    <3>. QED
      BY <2>2, <2>3, <2>4, <3>1, <3>2
  <2>13. OneRow'
    <3>1. \A x \in Tokens : token[x].email \in Emails
      BY DEF IInv, TypeOK, TokenType
    <3>2. \A x \in Tokens : \A y \in served'[x] :
            y \in served[x] \/ (byToken /\ x = t /\ y = acc[e].entity.row)
      BY <1>2, <2>1, <2>2 DEF IInv, TypeOK
    <3>. QED
      BY <1>1, <1>2, <2>2, <2>6, <3>1, <3>2 DEF IInv, OneRow, TypeOK, Live
  <2>. QED
    BY <2>6, <2>9, <2>10, <2>11, <2>12, <2>13 DEF IInv
<1>. QED
  BY <1>3, <1>4

\* A token that nobody has used or found goes to Redis.
LEMMA StoreStep ==
  ASSUME IInv, NEW r \in Requests, NEW t \in Tokens, Store(r, t)
  PROVE  IInv'
<1>. DEFINE n == [status |-> "stored", email |-> req[r].email, row |-> req[r].seen.row,
                  kind |-> IF req[r].op = "reset" THEN "reset" ELSE "verify", ttl |-> Lifetime]
            q == [req[r] EXCEPT !.pc = "mail", !.token = t]
<1>1. /\ req[r] \in ReqType /\ req[r].pc = "store" /\ token[t].status = "unused"
      /\ token' = [token EXCEPT ![t] = n]
      /\ UNCHANGED <<acc, made, mailed, history>>
  BY DEF Store, IInv, TypeOK
<1>2. /\ q \in ReqType /\ q.pc = "mail" /\ q.token = t /\ q.op = req[r].op
      /\ q.email = req[r].email /\ q.seen = req[r].seen
      /\ ~Claims(q) /\ ~Claims(req[r]) /\ (Registers(q) <=> Registers(req[r]))
  BY <1>1 DEF ReqType, Claims, Registers
<1>3. req' = [req EXCEPT ![r] = q]
  BY <1>1 DEF Store, IInv, TypeOK
<1>4. req[r].email \in Emails /\ req[r].seen.row \in Rows /\ req[r].seen.row > 0
  BY <1>1, Parts DEF IInv, RowsGiven, Entity
<1>5. n \in TokenType /\ n.status = "stored" /\ n.row > 0
  BY <1>4 DEF TokenType
<1>. HIDE DEF n, q
<1>6. /\ token \in [Tokens -> TokenType] /\ req \in [Requests -> ReqType]
      /\ token'[t] = n /\ \A x \in Tokens : x # t => token'[x] = token[x]
      /\ t \notin mailed /\ mailed \subseteq Tokens
      /\ req'[r] = q /\ \A x \in Requests : x # r => req'[x] = req[x]
  BY <1>1, <1>3 DEF IInv, TypeOK, StoredFirst
<1>7. \A x \in Requests : Claims(req'[x]) => Claims(req[x]) /\ req'[x] = req[x]
  BY <1>2, <1>6
<1>8. TypeOK'
  BY <1>1, <1>2, <1>3, <1>5, <1>6 DEF IInv, TypeOK, history
<1>9. ClaimsMailed'
  BY <1>1, <1>2, <1>6, <1>7 DEF IInv, ClaimsMailed
<1>10. LoadedIsCurrent'
  BY <1>1, <1>2, <1>6 DEF IInv, LoadedIsCurrent, Live
<1>11. InsertedAlone'
  BY <1>1, <1>2, <1>6 DEF IInv, InsertedAlone
<1>12. StoredFirst'
  BY <1>1, <1>2, <1>5, <1>6 DEF IInv, StoredFirst
<1>13. RowsGiven'
  BY <1>1, <1>2, <1>4, <1>6 DEF IInv, RowsGiven
<1>14. \A x \in Requests : ~(Claims(req[x]) /\ req[x].token = t)
  BY <1>6 DEF IInv, ClaimsMailed
<1>15. t \notin contested => uses[t] = 0
  BY <1>1 DEF IInv, UsedByOne, TypeOK
<1>16. UsedByOne'
  BY <1>1, <1>6, <1>7, <1>14, <1>15 DEF IInv, UsedByOne, history
<1>17. DeletedForUse'
  BY <1>1, <1>5, <1>6 DEF IInv, DeletedForUse, history
<1>18. VerifiedByMail'
  BY <1>1, <1>6 DEF IInv, VerifiedByMail, history
<1>19. OneRow'
  <2>1. served[t] = {}
    BY <1>1 DEF IInv, OneRow
  <2>. QED
    BY <1>1, <1>6, <2>1 DEF IInv, OneRow, history
<1>. QED
  BY <1>8, <1>9, <1>10, <1>11, <1>12, <1>13, <1>16, <1>17, <1>18, <1>19 DEF IInv

\* A row of an address that had none is committed: nobody works on it yet.
LEMMA RowAdded ==
  ASSUME IInv, NEW e \in Emails, NEW s \in Entity,
         acc[e].status = "absent", s.row > 0, s.verified => s.external,
         acc' = [acc EXCEPT ![e] = [status |-> "live", entity |-> s]],
         existed' = existed \cup {<<e, s.row>>},
         made' \in [Emails -> Rows],
         req' \in [Requests -> ReqType],
         \A x \in Requests : \/ req'[x] = NoReq /\ ~Claims(req[x])
                             \/ req'[x] = req[x] /\ ~(Registers(req[x]) /\ req[x].email = e),
         UNCHANGED <<token, mailed, uses, served, contested, excused>>
  PROVE  IInv'
<1>1. /\ acc \in [Emails -> AccountType] /\ req \in [Requests -> ReqType]
      /\ [status |-> "live", entity |-> s] \in AccountType /\ s.row \in Rows
      /\ acc' \in [Emails -> AccountType]
      /\ acc'[e].status = "live" /\ acc'[e].entity = s
      /\ \A x \in Emails : x # e => acc'[x] = acc[x]
  BY DEF IInv, TypeOK, AccountType, Entity
<1>2. ~Claims(NoReq) /\ ~Registers(NoReq) /\ NoReq.pc = "idle"
  BY NoReqIs DEF Claims, Registers
<1>3. TypeOK'
  BY <1>1 DEF IInv, TypeOK
<1>4. ClaimsMailed'
  BY <1>2 DEF IInv, ClaimsMailed
<1>5. LoadedIsCurrent'
  BY <1>1, <1>2, Parts DEF IInv, LoadedIsCurrent, Live
<1>6. InsertedAlone'
  BY <1>1, <1>2, Parts DEF IInv, InsertedAlone
<1>7. StoredFirst' /\ RowsGiven'
  BY <1>1, <1>2 DEF IInv, StoredFirst, RowsGiven
<1>8. UsedByOne'
  BY <1>2 DEF IInv, UsedByOne
<1>9. DeletedForUse'
  BY DEF IInv, DeletedForUse, ClaimsMailed, Claims
<1>10. VerifiedByMail'
  BY <1>1 DEF IInv, VerifiedByMail
<1>11. OneRow'
  <2>1. \A x \in Tokens : token[x].email \in Emails
    BY DEF IInv, TypeOK, TokenType
  <2>2. \A x \in Rows : <<e, x>> \notin existed
    BY DEF IInv, OneRow
  <2>3. ASSUME NEW f \in Emails, NEW x \in Rows, <<f, x>> \in existed'
        PROVE  acc'[f].status # "absent" /\ x = acc'[f].entity.row
    <3>1. CASE <<f, x>> \in existed
      BY <1>1, <2>2, <3>1 DEF IInv, OneRow
    <3>2. CASE <<f, x>> = <<e, s.row>>
      BY <1>1, <3>2
    <3>. QED
      BY <2>3, <3>1, <3>2
  <2>4. ASSUME NEW t \in Tokens, NEW x \in served[t]
        PROVE  /\ token[t].status # "unused"
               /\ acc'[token[t].email].status # "absent"
               /\ x = acc'[token[t].email].entity.row
    BY <1>1, <2>1 DEF IInv, OneRow
  <2>. QED
    BY <2>3, <2>4 DEF OneRow
<1>. QED
  BY <1>3, <1>4, <1>5, <1>6, <1>7, <1>8, <1>9, <1>10, <1>11 DEF IInv

\* A registration commits.
LEMMA CommitStep ==
  ASSUME IInv, NEW r \in Requests, CommitRegistration(r)
  PROVE  IInv'
<1>1. /\ req \in [Requests -> ReqType] /\ req[r] \in ReqType /\ req[r].pc = "commit"
      /\ Registers(req[r]) /\ ~Claims(req[r])
  BY DEF CommitRegistration, IInv, TypeOK, InsertedAlone, Registers, Claims
<1>2. /\ req[r].email \in Emails /\ req[r].seen \in Entity
      /\ acc[req[r].email].status = "absent" /\ ~req[r].seen.verified /\ req[r].seen.row > 0
      /\ \A x \in Requests : Registers(req[x]) /\ req[x].email = req[r].email => x = r
  BY <1>1, Parts DEF IInv, InsertedAlone, RowsGiven
<1>3. /\ req' \in [Requests -> ReqType]
      /\ req'[r] = NoReq /\ \A x \in Requests : x # r => req'[x] = req[x]
  BY <1>1, NoReqIs DEF CommitRegistration, End
<1>4. made' \in [Emails -> Rows]
  BY DEF CommitRegistration, IInv, TypeOK
<1>5. /\ acc' = [acc EXCEPT ![req[r].email] = [status |-> "live", entity |-> req[r].seen]]
      /\ existed' = existed \cup {<<req[r].email, req[r].seen.row>>}
      /\ UNCHANGED <<token, mailed, uses, served, contested, excused>>
  BY DEF CommitRegistration
<1>6. \A x \in Requests : \/ req'[x] = NoReq /\ ~Claims(req[x])
                          \/ req'[x] = req[x] /\ ~(Registers(req[x]) /\ req[x].email = req[r].email)
  BY <1>1, <1>2, <1>3
<1>. QED
  BY <1>2, <1>3, <1>4, <1>5, <1>6, RowAdded

\* The first login through an identity provider.
LEMMA RegisterExternalStep ==
  ASSUME IInv, NEW e \in Emails, RegisterExternal(e)
  PROVE  IInv'
<1>. DEFINE s == [row |-> made[e] + 1, verified |-> TRUE, external |-> TRUE, password |-> NoPassword]
<1>1. /\ made[e] \in Nat /\ made[e] + 1 \in Rows /\ made' \in [Emails -> Rows]
      /\ req \in [Requests -> ReqType] /\ req' = req
  BY DEF RegisterExternal, IInv, TypeOK, Rows
<1>2. s \in Entity /\ s.row > 0 /\ s.external /\ s.row = made[e] + 1
  BY <1>1 DEF Entity
<1>3. \A x \in Requests : ~(Registers(req[x]) /\ req[x].email = e)
  BY DEF RegisterExternal, Inserting, Registers
<1>. HIDE DEF s
<1>4. /\ acc[e].status = "absent"
      /\ acc' = [acc EXCEPT ![e] = [status |-> "live", entity |-> s]]
      /\ existed' = existed \cup {<<e, s.row>>}
      /\ UNCHANGED <<token, mailed, uses, served, contested, excused>>
  BY <1>2 DEF RegisterExternal, s
<1>. QED
  BY <1>1, <1>2, <1>3, <1>4, RowAdded

\* A claimed token is deleted.
LEMMA DeleteTokenStep ==
  ASSUME IInv, NEW r \in Requests, DeleteToken(r)
  PROVE  IInv'
<1>. DEFINE t == req[r].token
            q == [req[r] EXCEPT !.pc = "write"]
<1>1. /\ req \in [Requests -> ReqType] /\ req[r] \in ReqType /\ req[r].pc = "delete"
      /\ req[r].op \in Kinds /\ Claims(req[r]) /\ t \in mailed /\ t \in Tokens
      /\ token \in [Tokens -> TokenType] /\ token[t].status # "unused"
      /\ token' = [token EXCEPT ![t].status = "deleted"]
      /\ UNCHANGED <<acc, made, mailed, uses, served, existed, excused>>
  BY DEF DeleteToken, IInv, TypeOK, ClaimsMailed, StoredFirst, Claims
<1>2. /\ q \in ReqType /\ q.pc = "write" /\ q.op = req[r].op /\ q.email = req[r].email
      /\ q.token = t /\ q.seen = req[r].seen /\ (q.stale <=> req[r].stale)
  BY <1>1 DEF ReqType
<1>3. req' = [req EXCEPT ![r] = q]
  BY <1>1 DEF DeleteToken
<1>. HIDE DEF q
<1>4. req'[r] = q /\ \A x \in Requests : x # r => req'[x] = req[x]
  BY <1>1, <1>3
<1>5. /\ token' \in [Tokens -> TokenType] /\ token'[t].status = "deleted"
      /\ \A x \in Tokens : /\ token'[x].kind = token[x].kind /\ token'[x].email = token[x].email
                           /\ token'[x].row = token[x].row
                           /\ token'[x].status = "unused" <=> token[x].status = "unused"
                           /\ x # t => token'[x] = token[x]
  BY <1>1 DEF TokenType
<1>6. contested' \subseteq Tokens /\ contested \subseteq contested'
  BY <1>1 DEF DeleteToken, IInv, TypeOK
<1>7. \A x \in Requests : /\ Claims(req'[x]) <=> Claims(req[x])
                          /\ req'[x].token = req[x].token /\ req'[x].op = req[x].op
                          /\ req'[x].email = req[x].email /\ req'[x].seen = req[x].seen
                          /\ req'[x].stale <=> req[x].stale
                          /\ Registers(req'[x]) <=> Registers(req[x])
                          /\ x # r => req'[x].pc = req[x].pc
  BY <1>1, <1>2, <1>4 DEF Claims, Registers
<1>8. TypeOK'
  BY <1>1, <1>2, <1>3, <1>5, <1>6 DEF IInv, TypeOK
<1>9. ClaimsMailed'
  <2>1. mailed \subseteq Tokens
    BY DEF IInv, TypeOK
  <2>. QED
    BY <1>1, <1>2, <1>4, <1>5, <1>7, <2>1 DEF IInv, ClaimsMailed
<1>10. LoadedIsCurrent'
  BY <1>1, <1>2, <1>4, <1>7 DEF IInv, LoadedIsCurrent, Live
<1>11. InsertedAlone'
  BY <1>1, <1>2, <1>4, <1>7 DEF IInv, InsertedAlone
<1>12. StoredFirst'
  BY <1>1, <1>2, <1>4, <1>5 DEF IInv, StoredFirst, TypeOK
<1>13. RowsGiven'
  BY <1>1, <1>2, <1>4, <1>7 DEF IInv, RowsGiven
<1>14. UsedByOne'
  <2>. SUFFICES ASSUME NEW x \in Tokens, x \notin contested'
                PROVE  /\ uses[x] <= 1
                       /\ uses[x] > 0 => /\ token'[x].status = "deleted"
                                         /\ \A y \in Requests : ~(Claims(req'[y]) /\ req'[y].token = x)
                       /\ \A z \in Requests : Claims(req'[z]) /\ req'[z].pc = "write" /\ req'[z].token = x =>
                            /\ token'[x].status = "deleted"
                            /\ \A y \in Requests : Claims(req'[y]) /\ req'[y].token = x => y = z
    BY <1>1 DEF UsedByOne
  <2>1. CASE x # t
    BY <1>1, <1>2, <1>4, <1>5, <1>6, <1>7, <2>1 DEF IInv, UsedByOne
  <2>2. CASE x = t
    <3>1. \A y \in Requests \ {r} : ~(req[y].pc \in {"user", "delete"} /\ req[y].token = t)
      BY <2>2 DEF DeleteToken
    <3>2. uses[t] = 0 /\ \A z \in Requests : ~(Claims(req[z]) /\ req[z].pc = "write" /\ req[z].token = t)
      BY <1>1, <1>6, <2>2 DEF IInv, UsedByOne, TypeOK
    <3>3. \A y \in Requests : Claims(req'[y]) /\ req'[y].token = x => y = r
      BY <1>7, <2>2, <3>1, <3>2 DEF Claims
    <3>. QED
      BY <1>5, <2>2, <3>2, <3>3
  <2>. QED
    BY <2>1, <2>2
<1>15. DeletedForUse'
  <2>1. req'[r].pc = "write" /\ req'[r].op \in Kinds /\ req'[r].token = t
    BY <1>1, <1>2, <1>4
  <2>. QED
    BY <1>1, <1>4, <1>5, <2>1 DEF IInv, DeletedForUse
<1>16. VerifiedByMail'
  BY <1>1, <1>5 DEF IInv, VerifiedByMail, TypeOK
<1>17. OneRow'
  BY <1>1, <1>5 DEF IInv, OneRow
<1>. QED
  BY <1>8, <1>9, <1>10, <1>11, <1>12, <1>13, <1>14, <1>15, <1>16, <1>17 DEF IInv

\* Time passes: only what is left of the tokens' lifetimes changes.
LEMMA TickStep == IInv /\ Tick => IInv'
<1>. SUFFICES ASSUME IInv, Tick PROVE IInv'
  OBVIOUS
<1>1. /\ token \in [Tokens -> TokenType]
      /\ token' = [t \in Tokens |-> [token[t] EXCEPT !.ttl = IF @ > 0 THEN @ - 1 ELSE 0]]
      /\ UNCHANGED <<acc, made, mailed, req, history>>
  BY DEF Tick, IInv, TypeOK
<1>2. \A t \in Tokens : /\ token'[t] \in TokenType /\ token'[t].status = token[t].status
                        /\ token'[t].kind = token[t].kind /\ token'[t].email = token[t].email
                        /\ token'[t].row = token[t].row
  BY <1>1 DEF TokenType
<1>3. TypeOK'
  BY <1>1, <1>2 DEF IInv, TypeOK, history
<1>4. ClaimsMailed' /\ StoredFirst'
  BY <1>1, <1>2 DEF IInv, TypeOK, ClaimsMailed, StoredFirst
<1>5. LoadedIsCurrent' /\ InsertedAlone' /\ RowsGiven'
  BY <1>1 DEF IInv, LoadedIsCurrent, InsertedAlone, RowsGiven, Live
<1>6. UsedByOne' /\ DeletedForUse' /\ OneRow'
  BY <1>1, <1>2 DEF IInv, UsedByOne, DeletedForUse, OneRow, history
<1>7. VerifiedByMail'
  BY <1>1, <1>2 DEF IInv, TypeOK, VerifiedByMail, history
<1>. QED
  BY <1>3, <1>4, <1>5, <1>6, <1>7 DEF IInv

\* Nothing at all happens.
LEMMA StutterStep == IInv /\ UNCHANGED vars => IInv'
BY DEF IInv, vars, history, TypeOK, ClaimsMailed, LoadedIsCurrent, InsertedAlone, StoredFirst,
       RowsGiven, UsedByOne, DeletedForUse, VerifiedByMail, OneRow, Live

-----------------------------------------------------------------------------
\* IInv holds in every reachable state.
THEOREM InductiveInvariant == Spec => []IInv
<1>1. Init => IInv
  BY InitIInv
<1>2. IInv /\ [Next]_vars => IInv'
  <2>. SUFFICES ASSUME IInv, [Next]_vars PROVE IInv'
    OBVIOUS
  <2>1. ASSUME NEW r \in Requests, Step(r) PROVE IInv'
    BY <2>1, InsertStep, StoreStep, MailStep, CommitStep, FindUserStep, DeleteTokenStep, WriteStep
       DEF Step
  <2>2. ASSUME NEW e \in Emails, RegisterExternal(e) \/ DeleteAccount(e) \/ Touch(e) PROVE IInv'
    BY <2>2, RegisterExternalStep, OtherWriteStep
  <2>. QED
    BY <2>1, <2>2, RegisterStep, AskStep, FindTokenStep, ChangePasswordStep, CrashStep, TickStep,
       StutterStep DEF Next
<1>. QED
  BY <1>1, <1>2, PTL DEF Spec

\* Every variable keeps its type.
THEOREM TypeCorrect == Spec => []TypeOK
<1>1. IInv => TypeOK
  BY DEF IInv
<1>. QED
  BY <1>1, InductiveInvariant, PTL

\* verifyByToken, resetByToken: a token that no two requests raced for changes
\* an account once.
THEOREM TokensSingleUse == Spec => []SingleUse
<1>1. IInv => SingleUse
  BY DEF IInv, TypeOK, UsedByOne, SingleUse
<1>. QED
  BY <1>1, InductiveInvariant, PTL

\* A token that was mailed is good until it is used or expires, but for what
\* the two stores cannot do together.
THEOREM MailedTokensWork == Spec => []MailedTokenWorks
<1>1. IInv => MailedTokenWorks
  <2>1. IInv => \A t \in mailed : t \in Tokens /\ token[t].status \in {"stored", "deleted"}
    BY DEF IInv, TypeOK, StoredFirst, TokenType
  <2>. QED
    BY <2>1 DEF IInv, DeletedForUse, MailedTokenWorks
<1>. QED
  BY <1>1, InductiveInvariant, PTL

\* The account a token changes is the one it was made for, or the only one
\* its address ever had.
THEOREM TokensForTheirAccount == Spec => []TokenForItsAccount
<1>1. IInv => TokenForItsAccount
  <2>1. IInv => \A t \in Tokens : token[t].email \in Emails /\ token[t].row \in Rows
    BY DEF IInv, TypeOK, TokenType
  <2>. QED
    BY <2>1 DEF IInv, OneRow, TokenForItsAccount
<1>. QED
  BY <1>1, InductiveInvariant, PTL

\* A verified address is one whose mail was read, or an identity provider's.
THEOREM VerifiedOnlyByMail == Spec => []VerifiedByMail
<1>1. IInv => VerifiedByMail
  BY DEF IInv
<1>. QED
  BY <1>1, InductiveInvariant, PTL

-----------------------------------------------------------------------------
\* What a step may do to the entity of a live account.
EntityKept(e) ==
  Live(e) /\ acc[e].entity.row = acc'[e].entity.row =>
    /\ acc[e].entity.verified => acc'[e].entity.verified
    /\ acc'[e].entity.password # acc[e].entity.password =>
         /\ acc'[e].entity.verified = acc[e].entity.verified
         /\ acc'[e].status = "live"
         /\ \E r \in Requests :
              /\ req[r].pc = "write" /\ req'[r].pc = "idle"
              /\ req[r].op \in {"reset", "change"}
              /\ req[r].email = e /\ req[r].password = acc'[e].entity.password
              /\ req[r].op = "change" => req[r].seen.password = acc[e].entity.password

\* The write of a request changes what its operation is about.
LEMMA WriteKeeps ==
  ASSUME IInv, NEW r \in Requests, Write(r), NEW e \in Emails
  PROVE  EntityKept(e)
<1>. DEFINE q == req[r]
<1>1. /\ req \in [Requests -> ReqType] /\ acc \in [Emails -> AccountType]
      /\ q \in ReqType /\ q.pc = "write" /\ q.email \in Emails /\ q.seen \in Entity
      /\ q.op \in {"change", "verify", "reset"}
  BY Parts DEF Write, IInv, TypeOK, ClaimsMailed
<1>2. CASE acc'[e].entity = acc[e].entity
  BY <1>2 DEF EntityKept
<1>3. CASE /\ acc' = [acc EXCEPT ![e].entity = Changed(q)]
           /\ req' = Invalidate(End(req, r), e)
           /\ e = q.email /\ ~q.stale
  <2>1. Live(e) /\ acc[e].entity = q.seen
    BY <1>1, <1>3 DEF IInv, LoadedIsCurrent
  <2>2. acc'[e].entity = Changed(q) /\ acc'[e].status = "live"
    BY <1>1, <1>3, <2>1 DEF AccountType, Live
  <2>3. /\ q.op = "verify" => Changed(q).verified /\ Changed(q).password = q.seen.password
        /\ q.op # "verify" => Changed(q).verified = q.seen.verified
                              /\ Changed(q).password = q.password
    BY <1>1 DEF Changed, Entity
  <2>4. End(req, r) \in [Requests -> ReqType] /\ End(req, r)[r] = NoReq
    BY <1>1, NoReqIs DEF End
  <2>5. req'[r].pc = "idle"
    BY <1>3, <2>4, NoReqIs, InvalidateIs
  <2>6. CASE q.op = "verify"
    BY <2>1, <2>2, <2>3, <2>6 DEF EntityKept
  <2>7. CASE q.op \in {"reset", "change"}
    BY <1>1, <1>3, <2>1, <2>2, <2>3, <2>5, <2>7 DEF EntityKept
  <2>. QED
    BY <1>1, <2>6, <2>7
<1>. QED
  BY <1>1, <1>2, <1>3 DEF Write

\* Where the entity stays, or there was no live account, there is nothing to show.
LEMMA NextKeeps == IInv /\ [Next]_vars => \A e \in Emails : EntityKept(e)
<1>. SUFFICES ASSUME IInv, [Next]_vars, NEW e \in Emails PROVE EntityKept(e)
  OBVIOUS
<1>1. ASSUME acc'[e].entity = acc[e].entity \/ ~Live(e) PROVE EntityKept(e)
  BY <1>1 DEF EntityKept
<1>2. acc \in [Emails -> AccountType]
  BY DEF IInv, TypeOK
<1>3. ASSUME NEW r \in Requests, CommitRegistration(r) PROVE EntityKept(e)
  <2>1. req[r].email \in Emails /\ acc[req[r].email].status = "absent"
    BY <1>3, Parts DEF CommitRegistration, IInv, TypeOK, InsertedAlone, Registers
  <2>2. e = req[r].email \/ acc'[e] = acc[e]
    BY <1>2, <1>3 DEF CommitRegistration
  <2>. QED
    BY <1>1, <2>1, <2>2 DEF Live
<1>4. ASSUME NEW r \in Requests, Step(r) PROVE EntityKept(e)
  BY <1>1, <1>3, <1>4, WriteKeeps
     DEF Step, Insert, Store, Mail, MailFails, FindUser, DeleteToken
<1>5. ASSUME NEW x \in Emails, RegisterExternal(x) \/ DeleteAccount(x) \/ Touch(x)
      PROVE  EntityKept(e)
  BY <1>1, <1>2, <1>5 DEF RegisterExternal, DeleteAccount, Touch, Live, AccountType
<1>6. CASE UNCHANGED acc
  BY <1>1, <1>6
<1>. QED
  BY <1>4, <1>5, <1>6
     DEF Next, vars, Register, Ask, FindToken, ChangePassword, Crash, Tick

\* verifyByToken, resetByToken and changePasswordByEmail write the whole row,
\* and none of them brings back what another one changed.
THEOREM OwnChangesOnlyHolds == Spec => OwnChangesOnly
<1>1. IInv /\ [Next]_vars =>
        [\A e \in Emails : Live(e) /\ acc[e].entity.row = acc'[e].entity.row =>
           /\ acc[e].entity.verified => acc'[e].entity.verified
           /\ acc'[e].entity.password # acc[e].entity.password =>
                /\ acc'[e].entity.verified = acc[e].entity.verified
                /\ acc'[e].status = "live"
                /\ \E r \in Requests :
                     /\ req[r].pc = "write" /\ req'[r].pc = "idle"
                     /\ req[r].op \in {"reset", "change"}
                     /\ req[r].email = e /\ req[r].password = acc'[e].entity.password
                     /\ req[r].op = "change" => req[r].seen.password = acc[e].entity.password]_vars
  BY NextKeeps DEF EntityKept
<1>. QED
  BY <1>1, InductiveInvariant, PTL DEF Spec, OwnChangesOnly
=============================================================================
