------------------------- MODULE UserAccountsProofs -------------------------
(***************************************************************************)
(* Proofs about UserAccounts, for any number of addresses, transactions and *)
(* roles.  IInv says what a transaction may rely on between its load and    *)
(* its commit; it holds initially and every step preserves it, one lemma    *)
(* per action below.                                                        *)
(***************************************************************************)
EXTENDS UserAccounts, FiniteSetTheorems, TLAPS

USE AccountsAssumption
USE DEF Changes, Inserts

\* Until its row is written by somebody else, a transaction works on the row
\* as it is.
LoadedIsCurrent ==
  \A r \in Requests : tx[r].pc \in {"loaded", "checked"} =>
    /\ tx[r].op \in Changes
    /\ ~tx[r].stale =>
         /\ Live(tx[r].email)
         /\ tx[r].roles = roles[tx[r].email]
         /\ tx[r].locked <=> tx[r].email \in locked
         /\ tx[r].subscribed <=> tx[r].email \in subscribed

\* The unique index: an uncommitted row is the only one of its address.
InsertedAlone ==
  \A r \in Requests : tx[r].pc = "inserted" =>
    /\ status[tx[r].email] = "absent"
    /\ \A q \in Requests : tx[q].pc = "inserted" /\ tx[q].email = tx[r].email => q = r

\* What the guard has seen of the billing data is what the commit writes.
DeletesUnsubscribed ==
  \A r \in Requests : tx[r].pc = "checked" /\ tx[r].op = "delete" => ~tx[r].subscribed

\* The other administrator whom the guard has seen is there until one goes.
OtherAdminStays ==
  \A r \in Requests : tx[r].pc = "checked" /\ AdminGoes(tx[r]) /\ ~tx[r].overtaken =>
    OtherAdmin(tx[r].email)

IInv ==
  /\ TypeOK
  /\ LoadedIsCurrent
  /\ InsertedAlone
  /\ DeletesUnsubscribed
  /\ OtherAdminStays
  /\ AdminRemains
  /\ DeletedUnsubscribed

-----------------------------------------------------------------------------
\* The system starts with administrators and no transaction: IInv holds.
LEMMA InitIInv == Init => IInv
<1>. SUFFICES ASSUME Init PROVE IInv
  OBVIOUS
<1>1. TypeOK
  BY DEF Init, TypeOK, NoTx, TxType
<1>2. LoadedIsCurrent /\ InsertedAlone /\ DeletesUnsubscribed /\ OtherAdminStays
  BY DEF Init, NoTx, LoadedIsCurrent, InsertedAlone, DeletesUnsubscribed, OtherAdminStays
<1>3. AdminRemains
  BY DEF Init, AdminRemains, LiveAdmins, Live
<1>4. DeletedUnsubscribed
  BY DEF Init, DeletedUnsubscribed
<1>. QED
  BY <1>1, <1>2, <1>3, <1>4 DEF IInv

\* findById: the entity is the row.
LEMMA LoadIInv ==
  ASSUME NEW r \in Requests, NEW op \in Changes, NEW e \in Emails, NEW role \in Roles,
         IInv, Load(r, op, e, role)
  PROVE  IInv'
<1>1. TypeOK'
  <2>. DEFINE loaded == [NoTx EXCEPT !.pc = "loaded", !.op = op, !.email = e, !.role = role,
                           !.roles = roles[e], !.locked = (e \in locked),
                           !.subscribed = (e \in subscribed)]
  <2>1. loaded \in TxType
    <3>1. \A R \in SUBSET Roles : \A l, b \in BOOLEAN :
            [NoTx EXCEPT !.pc = "loaded", !.op = op, !.email = e, !.role = role,
                         !.roles = R, !.locked = l, !.subscribed = b] \in TxType
      BY DEF NoTx, TxType
    <3>2. roles[e] \in SUBSET Roles
      BY DEF IInv, TypeOK
    <3>3. (e \in locked) \in BOOLEAN /\ (e \in subscribed) \in BOOLEAN
      OBVIOUS
    <3>. QED
      BY <3>1, <3>2, <3>3
  <2>2. tx' = [tx EXCEPT ![r] = loaded]
    BY DEF Load
  <2>. HIDE DEF loaded
  <2>. QED
    BY <2>1, <2>2 DEF IInv, TypeOK, Load
<1>2. LoadedIsCurrent'
  BY DEF IInv, TypeOK, LoadedIsCurrent, Load, NoTx, Live
<1>3. InsertedAlone'
  BY DEF IInv, TypeOK, InsertedAlone, Load, NoTx
<1>4. DeletesUnsubscribed'
  BY DEF IInv, TypeOK, DeletesUnsubscribed, Load, NoTx
<1>5. OtherAdminStays'
  BY DEF IInv, TypeOK, OtherAdminStays, Load, NoTx, OtherAdmin, LiveAdmins, Live, AdminGoes, RolesAfter
<1>6. (AdminRemains /\ DeletedUnsubscribed)'
  BY DEF IInv, AdminRemains, LiveAdmins, Live, DeletedUnsubscribed, Load
<1>. QED
  BY <1>1, <1>2, <1>3, <1>4, <1>5, <1>6 DEF IInv

\* The guard sees another administrator before it lets one go.
LEMMA GuardIInv ==
  ASSUME NEW r \in Requests, IInv, Guard(r)
  PROVE  IInv'
<1>1. TypeOK'
  BY DEF IInv, TypeOK, Guard, NoTx, TxType
<1>2. LoadedIsCurrent'
  BY DEF IInv, TypeOK, LoadedIsCurrent, Guard, NoTx, Live
<1>3. InsertedAlone'
  BY DEF IInv, TypeOK, InsertedAlone, Guard, NoTx
<1>4. DeletesUnsubscribed'
  BY DEF IInv, TypeOK, DeletesUnsubscribed, Guard, Refused, NoTx
<1>5. OtherAdminStays'
  <2>0. LiveAdmins' = LiveAdmins
    BY DEF Guard, LiveAdmins, Live
  <2>. SUFFICES ASSUME NEW q \in Requests, (tx[q].pc = "checked")',
                       AdminGoes(tx[q])', ~(tx[q].overtaken)'
                PROVE  OtherAdmin(tx[q].email)'
    BY DEF OtherAdminStays
  <2>1. CASE q # r
    BY <2>0, <2>1 DEF IInv, TypeOK, OtherAdminStays, OtherAdmin, Guard, AdminGoes, RolesAfter
  <2>2. CASE q = r
    <3>1. tx'[r] = [tx[r] EXCEPT !.pc = "checked"] /\ ~Refused(tx[r])
      BY <2>2 DEF IInv, TypeOK, Guard, NoTx
    <3>2. /\ tx[r] \in TxType /\ tx[r].op \in Changes
          /\ tx'[r].email = tx[r].email /\ tx'[r].op = tx[r].op
          /\ tx'[r].role = tx[r].role /\ tx'[r].roles = tx[r].roles
      BY <3>1 DEF IInv, TypeOK, LoadedIsCurrent, Guard, TxType
    <3>3. AdminGoes(tx[r])
      BY <2>2, <3>2 DEF AdminGoes, RolesAfter
    <3>4. AffectsAdministration(tx[r])
      BY <3>2, <3>3 DEF TxType, AdminGoes, RolesAfter, AffectsAdministration
    <3>. QED
      BY <2>0, <2>2, <3>1, <3>2, <3>4 DEF Refused, OtherAdmin
  <2>. QED
    BY <2>1, <2>2
<1>6. (AdminRemains /\ DeletedUnsubscribed)'
  BY DEF IInv, AdminRemains, LiveAdmins, Live, DeletedUnsubscribed, Guard
<1>. QED
  BY <1>1, <1>2, <1>3, <1>4, <1>5, <1>6 DEF IInv

\* Two records of one transaction that differ in its marks only.
SameWork(s, t) ==
  /\ s.pc = t.pc /\ s.op = t.op /\ s.email = t.email /\ s.role = t.role
  /\ s.roles = t.roles /\ s.locked = t.locked /\ s.subscribed = t.subscribed

\* Marking a transaction keeps its type and the other mark.
LEMMA Marks ==
  /\ NoTx \in TxType
  /\ \A t \in TxType :
       /\ [t EXCEPT !.stale = TRUE] \in TxType
       /\ [t EXCEPT !.stale = TRUE].stale
       /\ [t EXCEPT !.overtaken = TRUE] \in TxType
       /\ [t EXCEPT !.overtaken = TRUE].overtaken
       /\ [t EXCEPT !.stale = TRUE].overtaken = t.overtaken
       /\ [t EXCEPT !.overtaken = TRUE].stale = t.stale
  BY DEF TxType, NoTx

\* A commit that writes: who has loaded the row is told, and so is who wants to
\* take an administrator away after the one that goes now.
LEMMA CommitFrame ==
  ASSUME NEW r \in Requests, IInv, Commit(r), Dirty(tx[r]), ~tx[r].stale
  PROVE  /\ tx[r].pc = "checked" /\ tx[r] \in TxType /\ tx[r].op \in Changes
         /\ Live(tx[r].email)
         /\ tx[r].roles = roles[tx[r].email]
         /\ tx[r].locked <=> tx[r].email \in locked
         /\ tx[r].subscribed <=> tx[r].email \in subscribed
         /\ status' = IF tx[r].op = "delete" THEN [status EXCEPT ![tx[r].email] = "deleted"]
                                             ELSE status
         /\ roles' = [roles EXCEPT ![tx[r].email] = RolesAfter(tx[r])]
         /\ locked' = Put(locked, tx[r].email, LockedAfter(tx[r]))
         /\ subscribed' = Put(subscribed, tx[r].email, tx[r].subscribed)
         /\ raced' = (raced \/ (AdminGoes(tx[r]) /\ tx[r].overtaken))
         /\ tx' \in [Requests -> TxType]
         /\ tx'[r] = NoTx
         /\ \A q \in Requests \ {r} :
              /\ SameWork(tx'[q], tx[q])
              /\ tx[q].stale => tx'[q].stale
              /\ tx[q].email = tx[r].email /\ tx[q].pc \in {"loaded", "checked"} => tx'[q].stale
              /\ tx[q].overtaken => tx'[q].overtaken
              /\ AdminGoes(tx[r]) /\ AdminGoes(tx[q]) /\ tx[q].pc = "checked" => tx'[q].overtaken
<1>. DEFINE e == tx[r].email
            others == Invalidate(End(tx, r), e)
<1>1. /\ tx[r].pc = "checked"
      /\ status' = IF tx[r].op = "delete" THEN [status EXCEPT ![e] = "deleted"] ELSE status
      /\ roles' = [roles EXCEPT ![e] = RolesAfter(tx[r])]
      /\ locked' = Put(locked, e, LockedAfter(tx[r]))
      /\ subscribed' = Put(subscribed, e, tx[r].subscribed)
      /\ raced' = (raced \/ (AdminGoes(tx[r]) /\ tx[r].overtaken))
      /\ tx' = IF AdminGoes(tx[r]) THEN Overtake(others) ELSE others
  BY DEF Commit
<1>2. /\ tx[r] \in TxType /\ tx[r].op \in Changes
      /\ Live(e) /\ tx[r].roles = roles[e]
      /\ tx[r].locked <=> e \in locked
      /\ tx[r].subscribed <=> e \in subscribed
  BY <1>1 DEF IInv, TypeOK, LoadedIsCurrent
<1>3. /\ others \in [Requests -> TxType]
      /\ others[r] = NoTx
      /\ \A q \in Requests \ {r} :
           others[q] = IF tx[q].email = e /\ tx[q].pc \in {"loaded", "checked"}
                       THEN [tx[q] EXCEPT !.stale = TRUE] ELSE tx[q]
  <2>1. End(tx, r) \in [Requests -> TxType]
    BY Marks DEF IInv, TypeOK, End
  <2>2. End(tx, r)[r] = NoTx /\ \A q \in Requests \ {r} : End(tx, r)[q] = tx[q]
    BY DEF IInv, TypeOK, End
  <2>3. NoTx.pc = "idle"
    BY DEF NoTx
  <2>. QED
    BY <2>1, <2>2, <2>3, Marks DEF Invalidate
<1>4. \A q \in Requests \ {r} :
        /\ SameWork(others[q], tx[q])
        /\ tx[q].stale => others[q].stale
        /\ tx[q].email = e /\ tx[q].pc \in {"loaded", "checked"} => others[q].stale
        /\ others[q].overtaken = tx[q].overtaken
  <2>. SUFFICES ASSUME NEW q \in Requests \ {r}
                PROVE  /\ SameWork(others[q], tx[q])
                       /\ tx[q].stale => others[q].stale
                       /\ tx[q].email = e /\ tx[q].pc \in {"loaded", "checked"} => others[q].stale
                       /\ others[q].overtaken = tx[q].overtaken
    OBVIOUS
  <2>0. tx[q] \in TxType
    BY DEF IInv, TypeOK
  <2>1. CASE tx[q].email = e /\ tx[q].pc \in {"loaded", "checked"}
    <3>1. others[q] = [tx[q] EXCEPT !.stale = TRUE]
      BY <1>3, <2>1
    <3>2. SameWork(others[q], tx[q])
      BY <2>0, <3>1 DEF SameWork, TxType
    <3>3. others[q].stale /\ others[q].overtaken = tx[q].overtaken
      BY <2>0, <3>1, Marks
    <3>. QED
      BY <3>2, <3>3
  <2>2. CASE ~(tx[q].email = e /\ tx[q].pc \in {"loaded", "checked"})
    <3>1. others[q] = tx[q]
      BY <1>3, <2>2
    <3>. QED
      BY <2>2, <3>1 DEF SameWork
  <2>. QED
    BY <2>1, <2>2
<1>. HIDE DEF others
<1>5. CASE ~AdminGoes(tx[r])
  BY <1>1, <1>2, <1>3, <1>4, <1>5
<1>6. CASE AdminGoes(tx[r])
  <2>1. /\ tx' \in [Requests -> TxType]
        /\ tx'[r] = NoTx
        /\ \A q \in Requests :
             tx'[q] = IF others[q].pc = "checked" /\ AdminGoes(others[q])
                      THEN [others[q] EXCEPT !.overtaken = TRUE] ELSE others[q]
    <3>1. NoTx.pc = "idle"
      BY DEF NoTx
    <3>2. tx' = Overtake(others)
      BY <1>1, <1>6
    <3>. QED
      BY <1>3, <3>1, <3>2, Marks DEF Overtake
  <2>2. \A q \in Requests \ {r} : AdminGoes(others[q]) <=> AdminGoes(tx[q])
    BY <1>4 DEF AdminGoes, RolesAfter, SameWork
  <2>3. \A q \in Requests \ {r} :
          /\ SameWork(tx'[q], others[q])
          /\ tx'[q].stale = others[q].stale
          /\ others[q].overtaken => tx'[q].overtaken
          /\ others[q].pc = "checked" /\ AdminGoes(others[q]) => tx'[q].overtaken
    <3>. SUFFICES ASSUME NEW q \in Requests \ {r}
                  PROVE  /\ SameWork(tx'[q], others[q])
                         /\ tx'[q].stale = others[q].stale
                         /\ others[q].overtaken => tx'[q].overtaken
                         /\ others[q].pc = "checked" /\ AdminGoes(others[q]) => tx'[q].overtaken
      OBVIOUS
    <3>1. CASE others[q].pc = "checked" /\ AdminGoes(others[q])
      <4>1. tx'[q] = [others[q] EXCEPT !.overtaken = TRUE]
        BY <2>1, <3>1
      <4>2. others[q] \in TxType
        BY <1>3
      <4>3. SameWork(tx'[q], others[q])
        BY <4>1, <4>2 DEF SameWork, TxType
      <4>4. tx'[q].overtaken /\ tx'[q].stale = others[q].stale
        BY <4>1, <4>2, Marks
      <4>. QED
        BY <4>3, <4>4
    <3>2. CASE ~(others[q].pc = "checked" /\ AdminGoes(others[q]))
      <4>1. tx'[q] = others[q]
        BY <2>1, <3>2
      <4>. QED
        BY <3>2, <4>1 DEF SameWork
    <3>. QED
      BY <3>1, <3>2
  <2>. QED
    BY <1>1, <1>2, <1>4, <2>1, <2>2, <2>3 DEF SameWork
<1>. QED
  BY <1>5, <1>6

\* A commit that writes keeps IInv.
LEMMA CommitWritesIInv ==
  ASSUME NEW r \in Requests, IInv, Commit(r), Dirty(tx[r]), ~tx[r].stale
  PROVE  IInv'
<1>. DEFINE e == tx[r].email
<1>. USE CommitFrame DEF SameWork
<1>0. e \in Emails /\ RolesAfter(tx[r]) \in SUBSET Roles
  BY DEF IInv, TypeOK, TxType, RolesAfter
<1>1. TypeOK'
  <2>1. status' \in [Emails -> {"absent", "live", "deleted"}] /\ roles' \in [Emails -> SUBSET Roles]
    BY <1>0 DEF IInv, TypeOK
  <2>2. locked' \subseteq Emails /\ subscribed' \subseteq Emails
    BY <1>0 DEF IInv, TypeOK, Put
  <2>3. raced' \in BOOLEAN
    BY DEF IInv, TypeOK, AdminGoes, TxType
  <2>4. ASSUME NEW x \in Emails, status'[x] = "absent"
        PROVE  roles'[x] = {} /\ x \notin locked' \cup subscribed'
    <3>1. x # e /\ status[x] = "absent"
      BY <1>0, <2>4 DEF IInv, TypeOK, Live
    <3>. QED
      BY <1>0, <3>1 DEF IInv, TypeOK, Put
  <2>. QED
    BY <2>1, <2>2, <2>3, <2>4 DEF TypeOK
<1>2. LoadedIsCurrent'
  <2>. SUFFICES ASSUME NEW q \in Requests, tx'[q].pc \in {"loaded", "checked"}
                PROVE  /\ tx'[q].op \in Changes
                       /\ ~tx'[q].stale =>
                            /\ status'[tx'[q].email] = "live"
                            /\ tx'[q].roles = roles'[tx'[q].email]
                            /\ tx'[q].locked <=> tx'[q].email \in locked'
                            /\ tx'[q].subscribed <=> tx'[q].email \in subscribed'
    BY DEF LoadedIsCurrent, Live
  <2>1. q # r
    BY DEF NoTx
  <2>2. /\ tx'[q].op \in Changes
        /\ ~tx'[q].stale => /\ tx[q].email # e /\ ~tx[q].stale
    BY <2>1 DEF IInv, LoadedIsCurrent
  <2>3. tx[q].email \in Emails
    BY DEF IInv, TypeOK, TxType
  <2>. QED
    BY <1>0, <2>1, <2>2, <2>3 DEF IInv, TypeOK, LoadedIsCurrent, Live, Put
<1>3. InsertedAlone'
  <2>. SUFFICES ASSUME NEW q \in Requests, tx'[q].pc = "inserted"
                PROVE  /\ status'[tx'[q].email] = "absent"
                       /\ \A p \in Requests : tx'[p].pc = "inserted" /\ tx'[p].email = tx'[q].email
                                                => p = q
    BY DEF InsertedAlone
  <2>1. q # r /\ \A p \in Requests : tx'[p].pc = "inserted" => p # r
    BY DEF NoTx
  <2>2. status[tx[q].email] = "absent" /\ tx[q].email \in Emails
    BY <2>1 DEF IInv, InsertedAlone, TypeOK, TxType
  <2>. QED
    BY <1>0, <2>1, <2>2 DEF IInv, TypeOK, InsertedAlone, Live
<1>4. DeletesUnsubscribed'
  BY DEF IInv, DeletesUnsubscribed, NoTx
<1>5. ~AdminGoes(tx[r]) => \A x \in LiveAdmins : x \in LiveAdmins'
  BY <1>0 DEF IInv, TypeOK, AdminGoes, LiveAdmins, Live
<1>6. LiveAdmins \ {e} \subseteq LiveAdmins'
  BY <1>0 DEF IInv, TypeOK, LiveAdmins, Live
<1>7. OtherAdminStays'
  <2>. SUFFICES ASSUME NEW q \in Requests, tx'[q].pc = "checked",
                       AdminGoes(tx'[q]), ~tx'[q].overtaken
                PROVE  LiveAdmins' \ {tx'[q].email} # {}
    BY DEF OtherAdminStays, OtherAdmin, AdminGoes, RolesAfter
  <2>1. q # r
    BY DEF NoTx
  <2>2. AdminGoes(tx[q]) /\ ~tx[q].overtaken /\ tx[q].pc = "checked"
    BY <2>1 DEF AdminGoes, RolesAfter
  <2>3. ~AdminGoes(tx[r])
    BY <2>1, <2>2
  <2>. QED
    BY <1>5, <2>1, <2>2, <2>3 DEF IInv, OtherAdminStays, OtherAdmin
<1>8. AdminRemains'
  <2>1. CASE ~AdminGoes(tx[r])
    BY <1>5, <2>1 DEF IInv, AdminRemains
  <2>2. CASE AdminGoes(tx[r]) /\ tx[r].overtaken
    BY <2>2 DEF AdminRemains
  <2>3. CASE AdminGoes(tx[r]) /\ ~tx[r].overtaken
    BY <1>6, <2>3 DEF IInv, OtherAdminStays, OtherAdmin, AdminRemains
  <2>. QED
    BY <2>1, <2>2, <2>3
<1>9. DeletedUnsubscribed'
  BY <1>0 DEF IInv, TypeOK, DeletedUnsubscribed, DeletesUnsubscribed, Live, Put
<1>. QED
  BY <1>1, <1>2, <1>3, <1>4, <1>7, <1>8, <1>9 DEF IInv

\* A transaction that ends leaves the tables and the other transactions alone:
\* a refused insert, an old version, a failing mail.
LEMMA EndIInv ==
  ASSUME NEW r \in Requests, IInv, tx' = End(tx, r),
         UNCHANGED <<status, roles, locked, subscribed, raced>>
  PROVE  IInv'
<1>0. /\ tx' \in [Requests -> TxType]
      /\ tx'[r].pc = "idle"
      /\ \A q \in Requests \ {r} : tx'[q] = tx[q]
  BY Marks DEF IInv, TypeOK, End, NoTx
<1>1. TypeOK'
  BY <1>0 DEF IInv, TypeOK
<1>2. LoadedIsCurrent'
  BY <1>0 DEF IInv, LoadedIsCurrent, Live
<1>3. (InsertedAlone /\ DeletesUnsubscribed)'
  BY <1>0 DEF IInv, InsertedAlone, DeletesUnsubscribed
<1>4. LiveAdmins' = LiveAdmins
  BY DEF LiveAdmins, Live
<1>5. OtherAdminStays'
  BY <1>0, <1>4 DEF IInv, OtherAdminStays, OtherAdmin, AdminGoes, RolesAfter
<1>6. (AdminRemains /\ DeletedUnsubscribed)'
  BY <1>4 DEF IInv, AdminRemains, DeletedUnsubscribed
<1>. QED
  BY <1>1, <1>2, <1>3, <1>5, <1>6 DEF IInv

\* An operation on an account, committed or not, keeps IInv.
LEMMA CommitIInv ==
  ASSUME NEW r \in Requests, IInv, Commit(r)
  PROVE  IInv'
<1>1. CASE Dirty(tx[r]) /\ ~tx[r].stale
  BY <1>1, CommitWritesIInv
<1>2. CASE Dirty(tx[r]) => tx[r].stale
  BY <1>2, EndIInv DEF Commit
<1>. QED
  BY <1>1, <1>2

\* A path that makes accounts begins: nothing is inserted yet.
LEMMA ArriveIInv ==
  ASSUME NEW r \in Requests, NEW op \in Inserts, NEW e \in Emails, IInv, Arrive(r, op, e)
  PROVE  IInv'
<1>0. /\ tx' \in [Requests -> TxType]
      /\ tx'[r].pc = "insert"
      /\ \A q \in Requests \ {r} : tx'[q] = tx[q]
      /\ UNCHANGED <<status, roles, locked, subscribed, raced>>
  BY DEF IInv, TypeOK, Arrive, NoTx, TxType
<1>1. TypeOK'
  BY <1>0 DEF IInv, TypeOK
<1>2. (LoadedIsCurrent /\ InsertedAlone /\ DeletesUnsubscribed)'
  BY <1>0 DEF IInv, LoadedIsCurrent, Live, InsertedAlone, DeletesUnsubscribed
<1>4. LiveAdmins' = LiveAdmins
  BY <1>0 DEF LiveAdmins, Live
<1>5. OtherAdminStays'
  BY <1>0, <1>4 DEF IInv, OtherAdminStays, OtherAdmin, AdminGoes, RolesAfter
<1>6. (AdminRemains /\ DeletedUnsubscribed)'
  BY <1>0, <1>4 DEF IInv, AdminRemains, DeletedUnsubscribed
<1>. QED
  BY <1>1, <1>2, <1>5, <1>6 DEF IInv

\* uq_users_email: an insert goes through alone and without a row of the address.
LEMMA InsertIInv ==
  ASSUME NEW r \in Requests, IInv, Insert(r)
  PROVE  IInv'
<1>1. CASE tx' = End(tx, r)
  BY <1>1, EndIInv DEF Insert
<1>2. CASE status[tx[r].email] = "absent" /\ tx' = [tx EXCEPT ![r].pc = "inserted"]
  <2>0. /\ tx' \in [Requests -> TxType]
        /\ tx'[r].pc = "inserted" /\ tx'[r].email = tx[r].email
        /\ \A q \in Requests \ {r} : tx'[q] = tx[q]
        /\ UNCHANGED <<status, roles, locked, subscribed, raced>>
    BY <1>2 DEF IInv, TypeOK, Insert, TxType
  <2>1. TypeOK'
    BY <2>0 DEF IInv, TypeOK
  <2>2. InsertedAlone'
    BY <1>2, <2>0 DEF IInv, Insert, InsertedAlone
  <2>3. (LoadedIsCurrent /\ DeletesUnsubscribed)'
    BY <2>0 DEF IInv, LoadedIsCurrent, Live, DeletesUnsubscribed
  <2>4. LiveAdmins' = LiveAdmins
    BY <2>0 DEF LiveAdmins, Live
  <2>5. OtherAdminStays'
    BY <2>0, <2>4 DEF IInv, OtherAdminStays, OtherAdmin, AdminGoes, RolesAfter
  <2>6. (AdminRemains /\ DeletedUnsubscribed)'
    BY <2>0, <2>4 DEF IInv, AdminRemains, DeletedUnsubscribed
  <2>. QED
    BY <2>1, <2>2, <2>3, <2>5, <2>6 DEF IInv
<1>. QED
  BY <1>1, <1>2 DEF Insert

\* A new account takes nothing from anybody.
LEMMA CommitInsertIInv ==
  ASSUME NEW r \in Requests, IInv, CommitInsert(r)
  PROVE  IInv'
<1>. DEFINE e == tx[r].email
<1>0. /\ tx' \in [Requests -> TxType]
      /\ tx'[r].pc = "idle" /\ tx[r].pc = "inserted"
      /\ \A q \in Requests \ {r} : tx'[q] = tx[q]
      /\ UNCHANGED <<locked, subscribed, raced>>
  BY Marks DEF IInv, TypeOK, CommitInsert, End, NoTx
<1>1. /\ e \in Emails /\ status[e] = "absent"
      /\ \A x \in Emails \ {e} : status'[x] = status[x] /\ roles'[x] = roles[x]
      /\ status'[e] = "live"
      /\ status' \in [Emails -> {"absent", "live", "deleted"}]
      /\ roles' \in [Emails -> SUBSET Roles]
  BY <1>0 DEF IInv, TypeOK, TxType, InsertedAlone, CommitInsert
<1>2. TypeOK'
  BY <1>0, <1>1 DEF IInv, TypeOK
<1>3. LoadedIsCurrent'
  BY <1>0, <1>1 DEF IInv, TypeOK, TxType, LoadedIsCurrent, Live
<1>4. InsertedAlone'
  BY <1>0, <1>1 DEF IInv, TypeOK, TxType, InsertedAlone
<1>5. DeletesUnsubscribed'
  BY <1>0 DEF IInv, DeletesUnsubscribed
<1>6. LiveAdmins \subseteq LiveAdmins'
  BY <1>1 DEF LiveAdmins, Live
<1>7. OtherAdminStays'
  BY <1>0, <1>6 DEF IInv, OtherAdminStays, OtherAdmin, AdminGoes, RolesAfter
<1>8. AdminRemains'
  BY <1>0, <1>6 DEF IInv, AdminRemains
<1>9. DeletedUnsubscribed'
  BY <1>0, <1>1 DEF IInv, DeletedUnsubscribed
<1>. QED
  BY <1>2, <1>3, <1>4, <1>5, <1>7, <1>8, <1>9 DEF IInv

\* A webhook writes a live row, and who has loaded it is told.
LEMMA SyncIInv ==
  ASSUME NEW e \in Emails, NEW active \in BOOLEAN, IInv, SyncSubscription(e, active)
  PROVE  IInv'
<1>0. /\ \A q \in Requests :
           tx'[q] = IF tx[q].email = e /\ tx[q].pc \in {"loaded", "checked"}
                    THEN [tx[q] EXCEPT !.stale = TRUE] ELSE tx[q]
      /\ tx' \in [Requests -> TxType]
      /\ UNCHANGED <<status, roles, locked, raced>>
      /\ subscribed' = Put(subscribed, e, active)
      /\ Live(e)
  BY Marks DEF IInv, TypeOK, SyncSubscription, Invalidate
<1>1. \A q \in Requests : /\ SameWork(tx'[q], tx[q]) /\ tx'[q].overtaken = tx[q].overtaken
                          /\ ~tx'[q].stale => tx'[q] = tx[q]
                                              /\ ~(tx[q].email = e /\ tx[q].pc \in {"loaded", "checked"})
  <2>. SUFFICES ASSUME NEW q \in Requests
                PROVE  /\ SameWork(tx'[q], tx[q]) /\ tx'[q].overtaken = tx[q].overtaken
                       /\ ~tx'[q].stale => tx'[q] = tx[q]
                                           /\ ~(tx[q].email = e /\ tx[q].pc \in {"loaded", "checked"})
    OBVIOUS
  <2>1. tx[q] \in TxType
    BY DEF IInv, TypeOK
  <2>2. CASE tx[q].email = e /\ tx[q].pc \in {"loaded", "checked"}
    <3>1. tx'[q] = [tx[q] EXCEPT !.stale = TRUE]
      BY <1>0, <2>2
    <3>2. SameWork(tx'[q], tx[q])
      BY <2>1, <3>1 DEF SameWork, TxType
    <3>3. tx'[q].stale /\ tx'[q].overtaken = tx[q].overtaken
      BY <2>1, <3>1, Marks
    <3>. QED
      BY <3>2, <3>3
  <2>3. CASE ~(tx[q].email = e /\ tx[q].pc \in {"loaded", "checked"})
    <3>1. tx'[q] = tx[q]
      BY <1>0, <2>3
    <3>. QED
      BY <2>3, <3>1 DEF SameWork
  <2>. QED
    BY <2>2, <2>3
<1>2. TypeOK'
  BY <1>0 DEF IInv, TypeOK, Put, Live
<1>3. LoadedIsCurrent'
  BY <1>0, <1>1 DEF IInv, LoadedIsCurrent, Live, Put, SameWork
<1>4. InsertedAlone'
  BY <1>0, <1>1 DEF IInv, InsertedAlone, SameWork
<1>5. DeletesUnsubscribed'
  BY <1>1 DEF IInv, DeletesUnsubscribed, SameWork
<1>6. LiveAdmins' = LiveAdmins
  BY <1>0 DEF LiveAdmins, Live
<1>7. OtherAdminStays'
  BY <1>1, <1>6 DEF IInv, OtherAdminStays, OtherAdmin, AdminGoes, RolesAfter, SameWork
<1>8. AdminRemains'
  BY <1>0, <1>6 DEF IInv, AdminRemains
<1>9. DeletedUnsubscribed'
  BY <1>0 DEF IInv, DeletedUnsubscribed, Live, Put
<1>. QED
  BY <1>2, <1>3, <1>4, <1>5, <1>7, <1>8, <1>9 DEF IInv

-----------------------------------------------------------------------------
\* Every step of UserAccounts keeps IInv.
LEMMA NextIInv == IInv /\ [Next]_vars => IInv'
<1>. SUFFICES ASSUME IInv, [Next]_vars PROVE IInv'
  OBVIOUS
<1>1. ASSUME NEW r \in Requests, MailFails(r) PROVE IInv'
  BY <1>1, EndIInv DEF MailFails
<1>2. CASE UNCHANGED vars
  BY <1>2 DEF vars, IInv, TypeOK, LoadedIsCurrent, InsertedAlone, DeletesUnsubscribed,
              OtherAdminStays, OtherAdmin, AdminGoes, RolesAfter, AdminRemains,
              DeletedUnsubscribed, LiveAdmins, Live
<1>. QED
  BY <1>1, <1>2, LoadIInv, GuardIInv, CommitIInv, ArriveIInv, InsertIInv, CommitInsertIInv,
     SyncIInv DEF Next

\* What a transaction relies on between load and commit always holds.
THEOREM InductiveInvariant == Spec => []IInv
  BY InitIInv, NextIInv, PTL DEF Spec

\* Every table and every transaction keeps its type.
THEOREM TypeCorrect == Spec => []TypeOK
<1>1. IInv => TypeOK
  BY DEF IInv
<1>. QED
  BY <1>1, InductiveInvariant, PTL

\* removeRole, delete, update: with any number of administrators and concurrent
\* transactions, only the write skew that raced records takes the last one.
THEOREM AdminRemainsHolds == Spec => []AdminRemains
<1>1. IInv => AdminRemains
  BY DEF IInv
<1>. QED
  BY <1>1, InductiveInvariant, PTL

\* delete and the webhook of the provider: no account goes with a subscription.
THEOREM DeletedUnsubscribedHolds == Spec => []DeletedUnsubscribed
<1>1. IInv => DeletedUnsubscribed
  BY DEF IInv
<1>. QED
  BY <1>1, InductiveInvariant, PTL

-----------------------------------------------------------------------------
\* What one step may change of the accounts that are there.
StepKeeps ==
  \A e \in Emails :
    /\ status[e] = "deleted" => status'[e] = "deleted" /\ roles'[e] = roles[e]
    /\ Live(e) =>
         LET lock   == (e \in locked) # (e \in locked')
             paid   == (e \in subscribed) # (e \in subscribed')
             delete == ~Live(e)'
         IN  /\ Cardinality(RoleChanges(e)) <= 1
             /\ RoleChanges(e) # {} => ~lock /\ ~paid /\ ~delete
             /\ lock => ~paid /\ ~delete
             /\ paid => ~delete

\* Where roles stay as they are there is no change of them to count.
LEMMA NoRoleChanges ==
  ASSUME NEW e \in Emails, roles'[e] = roles[e]
  PROVE  RoleChanges(e) = {} /\ Cardinality(RoleChanges(e)) <= 1
<1>1. RoleChanges(e) = {}
  BY DEF RoleChanges
<1>. QED
  BY <1>1, FS_EmptySet

\* A commit that writes changes what its operation is about, on a live row.
LEMMA CommitKeeps ==
  ASSUME NEW r \in Requests, IInv, Commit(r), Dirty(tx[r]), ~tx[r].stale
  PROVE  StepKeeps
<1>. DEFINE a == tx[r].email
<1>1. /\ tx[r] \in TxType /\ tx[r].op \in Changes /\ a \in Emails
      /\ Live(a) /\ tx[r].roles = roles[a]
      /\ tx[r].locked <=> a \in locked
      /\ tx[r].subscribed <=> a \in subscribed
      /\ status' = IF tx[r].op = "delete" THEN [status EXCEPT ![a] = "deleted"] ELSE status
      /\ roles' = [roles EXCEPT ![a] = RolesAfter(tx[r])]
      /\ locked' = Put(locked, a, LockedAfter(tx[r]))
      /\ subscribed' = Put(subscribed, a, tx[r].subscribed)
  BY CommitFrame DEF TxType
<1>2. ASSUME NEW e \in Emails, status[e] = "deleted"
      PROVE  status'[e] = "deleted" /\ roles'[e] = roles[e]
  BY <1>1, <1>2 DEF IInv, TypeOK, Live
<1>3. \A e \in Emails : (e \in subscribed) <=> (e \in subscribed')
  BY <1>1 DEF Put
<1>4. ASSUME NEW e \in Emails, e # a
      PROVE  /\ roles'[e] = roles[e] /\ status'[e] = status[e]
             /\ (e \in locked) <=> (e \in locked')
  BY <1>1, <1>4 DEF IInv, TypeOK, Put
<1>5. roles'[a] = RolesAfter(tx[r]) /\ roles[a] \subseteq Roles
  BY <1>1 DEF IInv, TypeOK
<1>6. tx[r].op \notin {"assign", "remove"} => roles'[a] = roles[a]
  BY <1>1, <1>5 DEF RolesAfter
<1>7. tx[r].op \notin {"lock", "unlock"} => ((a \in locked) <=> (a \in locked'))
  BY <1>1 DEF LockedAfter, Put
<1>8. tx[r].op # "delete" => status'[a] = status[a]
  BY <1>1
<1>9. Cardinality(RoleChanges(a)) <= 1
  <2>1. RoleChanges(a) \subseteq {tx[r].role}
    BY <1>1, <1>5 DEF RoleChanges, RolesAfter
  <2>2. RoleChanges(a) = {} \/ RoleChanges(a) = {tx[r].role}
    BY <2>1
  <2>3. Cardinality({}) = 0
    BY FS_EmptySet
  <2>4. Cardinality({tx[r].role}) = 1
    BY FS_Singleton
  <2>5. CASE RoleChanges(a) = {}
    BY <2>3, <2>5
  <2>6. CASE RoleChanges(a) = {tx[r].role}
    BY <2>4, <2>6
  <2>. QED
    BY <2>2, <2>5, <2>6
<1>10. ASSUME NEW e \in Emails, e # a, Live(e)
       PROVE  RoleChanges(e) = {} /\ Cardinality(RoleChanges(e)) <= 1
  BY <1>4, <1>10, NoRoleChanges
<1>11. RoleChanges(a) # {} => tx[r].op \in {"assign", "remove"}
  BY <1>1, <1>6, NoRoleChanges
<1>. QED
  BY <1>1, <1>2, <1>3, <1>4, <1>7, <1>8, <1>9, <1>10, <1>11 DEF StepKeeps, Live

\* So does every other step.
LEMMA NextKeeps == IInv /\ [Next]_vars => StepKeeps
<1>. SUFFICES ASSUME IInv, [Next]_vars PROVE StepKeeps
  OBVIOUS
<1>1. ASSUME UNCHANGED <<status, roles, locked>> PROVE StepKeeps
  <2>1. \A e \in Emails : RoleChanges(e) = {} /\ Cardinality(RoleChanges(e)) <= 1
    BY <1>1, NoRoleChanges
  <2>. QED
    BY <1>1, <2>1 DEF StepKeeps, Live
<1>2. ASSUME NEW r \in Requests, CommitInsert(r) PROVE StepKeeps
  <2>1. /\ tx[r].email \in Emails /\ status[tx[r].email] = "absent"
        /\ \A x \in Emails \ {tx[r].email} : status'[x] = status[x] /\ roles'[x] = roles[x]
        /\ UNCHANGED <<locked, subscribed>>
    BY <1>2 DEF IInv, TypeOK, TxType, InsertedAlone, CommitInsert
  <2>2. \A x \in Emails \ {tx[r].email} : RoleChanges(x) = {} /\ Cardinality(RoleChanges(x)) <= 1
    BY <2>1, NoRoleChanges
  <2>. QED
    BY <2>1, <2>2 DEF StepKeeps, Live
<1>3. ASSUME NEW r \in Requests, Commit(r) PROVE StepKeeps
  BY <1>1, <1>3, CommitKeeps DEF Commit
<1>. QED
  BY <1>1, <1>2, <1>3 DEF Next, vars, Load, Guard, Arrive, Insert, MailFails, SyncSubscription

\* updateById, assignRole, removeRole, delete and the webhooks write the whole
\* row, and no interleaving of them undoes what another one wrote.
THEOREM NoUpdateIsLost == Spec => NoLostUpdate
<1>1. IInv /\ [Next]_vars =>
        [\A e \in Emails : Live(e) =>
           LET lock   == (e \in locked) # (e \in locked')
               paid   == (e \in subscribed) # (e \in subscribed')
               delete == ~Live(e)'
           IN  /\ Cardinality(RoleChanges(e)) <= 1
               /\ RoleChanges(e) # {} => ~lock /\ ~paid /\ ~delete
               /\ lock => ~paid /\ ~delete
               /\ paid => ~delete]_vars
  BY NextKeeps DEF StepKeeps
<1>. QED
  BY <1>1, InductiveInvariant, PTL DEF Spec, NoLostUpdate

\* A deleted account stays deleted, with the roles it had.
THEOREM DeletedIsForGood == Spec => DeletedForGood
<1>1. IInv /\ [Next]_vars =>
        [\A e \in Emails : status[e] = "deleted"
           => status'[e] = "deleted" /\ roles'[e] = roles[e]]_vars
  BY NextKeeps DEF StepKeeps
<1>. QED
  BY <1>1, InductiveInvariant, PTL DEF Spec, DeletedForGood

-----------------------------------------------------------------------------
(* The transactions implement the service. *)

\* What a commit leaves alone stays what it is, and an administrator goes as
\* the service lets one go: the other one whom the guard has seen is still there,
\* or the commit is marked as overtaken.
LEMMA CommitFits ==
  ASSUME NEW r \in Requests, IInv, Commit(r), Dirty(tx[r]), ~tx[r].stale
  PROVE  LET a == tx[r].email IN
         /\ a \in Emails /\ Live(a) /\ tx[r].role \in Roles /\ tx[r].op \in Changes
         /\ tx[r].roles = roles[a]
         /\ roles' = [roles EXCEPT ![a] = RolesAfter(tx[r])]
         /\ subscribed' = subscribed
         /\ tx[r].op = "lock" => locked' = locked \cup {a}
         /\ tx[r].op = "unlock" => locked' = locked \ {a}
         /\ tx[r].op \notin {"lock", "unlock"} => locked' = locked
         /\ status' = IF tx[r].op = "delete" THEN [status EXCEPT ![a] = "deleted"] ELSE status
         /\ tx[r].op = "delete" => a \notin subscribed
         /\ ~AdminGoes(tx[r]) => raced' = raced
         /\ AdminGoes(tx[r]) => AdminRole \in roles[a] /\ Service!MayGo(a)
<1>. DEFINE a == tx[r].email
<1>1. /\ tx[r] \in TxType /\ tx[r].op \in Changes /\ a \in Emails /\ tx[r].role \in Roles
      /\ Live(a) /\ tx[r].roles = roles[a] /\ tx[r].pc = "checked"
      /\ tx[r].locked <=> a \in locked
      /\ tx[r].subscribed <=> a \in subscribed
      /\ status' = IF tx[r].op = "delete" THEN [status EXCEPT ![a] = "deleted"] ELSE status
      /\ roles' = [roles EXCEPT ![a] = RolesAfter(tx[r])]
      /\ locked' = Put(locked, a, LockedAfter(tx[r]))
      /\ subscribed' = Put(subscribed, a, tx[r].subscribed)
      /\ raced' = (raced \/ (AdminGoes(tx[r]) /\ tx[r].overtaken))
  BY CommitFrame DEF TxType
<1>2. subscribed' = subscribed
  BY <1>1 DEF Put
<1>3. /\ tx[r].op = "lock" => locked' = locked \cup {a}
      /\ tx[r].op = "unlock" => locked' = locked \ {a}
      /\ tx[r].op \notin {"lock", "unlock"} => locked' = locked
  BY <1>1 DEF Put, LockedAfter
<1>4. tx[r].op = "delete" => a \notin subscribed
  BY <1>1 DEF IInv, DeletesUnsubscribed
<1>5. ~AdminGoes(tx[r]) => raced' = raced
  BY <1>1 DEF IInv, TypeOK
<1>6. ASSUME AdminGoes(tx[r]) PROVE AdminRole \in roles[a] /\ Service!MayGo(a)
  <2>1. AdminRole \in roles[a]
    BY <1>1, <1>6 DEF AdminGoes
  <2>2. CASE tx[r].overtaken
    BY <1>1, <1>6, <2>1, <2>2 DEF Service!MayGo
  <2>3. CASE ~tx[r].overtaken
    <3>1. OtherAdmin(a)
      BY <1>1, <1>6, <2>3 DEF IInv, OtherAdminStays
    <3>2. Service!OtherAdmin(a)
      BY <3>1 DEF OtherAdmin, LiveAdmins, Live, Service!OtherAdmin, Service!Live
    <3>3. raced' = raced
      BY <1>1, <2>3 DEF IInv, TypeOK
    <3>. QED
      BY <2>1, <3>2, <3>3 DEF Service!MayGo
  <2>. QED
    BY <2>1, <2>2, <2>3
<1>. QED
  BY <1>1, <1>2, <1>3, <1>4, <1>5, <1>6

\* A commit that writes is the operation it is the commit of.
LEMMA CommitServes ==
  ASSUME NEW r \in Requests, IInv, Commit(r), Dirty(tx[r]), ~tx[r].stale
  PROVE  Service!Next
<1>. DEFINE a == tx[r].email
<1>0. PICK e \in Emails : e = a
  BY CommitFits
<1>1. /\ Service!Live(e) /\ tx[r].role \in Roles /\ tx[r].op \in Changes
      /\ tx[r].roles = roles[e] /\ roles \in [Emails -> SUBSET Roles]
  BY <1>0, CommitFits DEF Live, Service!Live, IInv, TypeOK
<1>2. CASE tx[r].op = "assign"
  <2>1. roles' = [roles EXCEPT ![e] = @ \cup {tx[r].role}]
    BY <1>0, <1>1, <1>2, CommitFits DEF RolesAfter
  <2>2. raced' = raced
    BY <1>0, <1>1, <1>2, CommitFits DEF AdminGoes, RolesAfter
  <2>3. Service!AssignRole(e, tx[r].role)
    BY <1>0, <1>1, <1>2, <2>1, <2>2, CommitFits DEF Service!AssignRole
  <2>. QED
    BY <1>1, <2>3 DEF Service!Next
<1>3. CASE tx[r].op = "remove"
  <2>1. roles' = [roles EXCEPT ![e] = @ \ {tx[r].role}]
    BY <1>0, <1>1, <1>3, CommitFits DEF RolesAfter
  <2>2. IF tx[r].role = AdminRole THEN Service!MayGo(e) ELSE UNCHANGED raced
    <3>1. tx[r].role = AdminRole /\ AdminRole \in roles[e] => AdminGoes(tx[r])
      BY <1>1, <1>3 DEF AdminGoes, RolesAfter
    <3>2. tx[r].role # AdminRole => ~AdminGoes(tx[r])
      BY <1>1, <1>3 DEF AdminGoes, RolesAfter
    <3>3. AdminRole \notin roles[e] => ~AdminGoes(tx[r])
      BY <1>1 DEF AdminGoes
    <3>. QED
      BY <1>0, <3>1, <3>2, <3>3, CommitFits DEF Service!MayGo
  <2>3. Service!RemoveRole(e, tx[r].role)
    BY <1>0, <1>1, <1>3, <2>1, <2>2, CommitFits DEF Service!RemoveRole
  <2>. QED
    BY <1>1, <2>3 DEF Service!Next
<1>4. CASE tx[r].op \in {"lock", "unlock", "delete"}
  <2>1. roles' = roles
    <3>1. RolesAfter(tx[r]) = tx[r].roles
      BY <1>4 DEF RolesAfter
    <3>2. roles' = [roles EXCEPT ![e] = roles[e]]
      BY <1>0, <1>1, <3>1, CommitFits
    <3>. QED
      BY <1>1, <3>2
  <2>2. tx[r].op # "delete" => ~AdminGoes(tx[r])
    BY <1>1, <1>4 DEF AdminGoes, RolesAfter
  <2>3. CASE tx[r].op = "delete"
    <3>1. AdminRole \in roles[e] => AdminGoes(tx[r])
      BY <1>1, <2>3 DEF AdminGoes
    <3>2. AdminRole \notin roles[e] => ~AdminGoes(tx[r])
      BY <1>1 DEF AdminGoes
    <3>3. Service!MayGo(e)
      BY <1>0, <3>1, <3>2, CommitFits DEF Service!MayGo
    <3>4. Service!Delete(e)
      BY <1>0, <1>1, <2>1, <2>3, <3>3, CommitFits DEF Service!Delete
    <3>. QED
      BY <3>4 DEF Service!Next
  <2>4. CASE tx[r].op = "lock"
    BY <1>0, <1>1, <2>1, <2>2, <2>4, CommitFits DEF Service!Lock, Service!Next
  <2>5. CASE tx[r].op = "unlock"
    BY <1>0, <1>1, <2>1, <2>2, <2>5, CommitFits DEF Service!Unlock, Service!Next
  <2>. QED
    BY <1>4, <2>3, <2>4, <2>5
<1>. QED
  BY <1>1, <1>2, <1>3, <1>4

\* Every step is an operation of the service, or hidden from its clients.
LEMMA NextServes == IInv /\ [Next]_vars => [Service!Next]_(Service!vars)
<1>. SUFFICES ASSUME IInv, [Next]_vars PROVE [Service!Next]_(Service!vars)
  OBVIOUS
<1>1. ASSUME UNCHANGED <<status, roles, locked, subscribed, raced>> PROVE UNCHANGED Service!vars
  BY <1>1 DEF Service!vars
<1>2. ASSUME NEW r \in Requests, CommitInsert(r) PROVE Service!Next
  <2>1. PICK e \in Emails : e = tx[r].email
    BY DEF IInv, TypeOK, TxType
  <2>2. Service!Create(e)
    BY <1>2, <2>1 DEF CommitInsert, IInv, InsertedAlone, Service!Create
  <2>. QED
    BY <2>2 DEF Service!Next
<1>3. ASSUME NEW r \in Requests, Commit(r) PROVE [Service!Next]_(Service!vars)
  BY <1>1, <1>3, CommitServes DEF Commit
<1>4. ASSUME NEW e \in Payers, NEW active \in BOOLEAN, SyncSubscription(e, active)
      PROVE  Service!Next
  <2>1. e \in Emails
    OBVIOUS
  <2>2. Service!Subscribe(e)
    BY <1>4 DEF SyncSubscription, Put, Live, Service!Subscribe, Service!Live
  <2>. QED
    BY <2>1, <2>2 DEF Service!Next
<1>. QED
  BY <1>1, <1>2, <1>3, <1>4 DEF Next, vars, Load, Guard, Arrive, Insert, MailFails

\* UserServiceImpl, the identity provider's login, the seeding job and the
\* webhooks implement UserService: whatever transactions overlap, what they do is
\* a sequence of operations each done at once.
THEOREM ServedAtOnce == Spec => ImplementsService
<1>1. Init => Service!Init
  BY DEF Init, Service!Init
<1>. QED
  BY <1>1, NextServes, InductiveInvariant, PTL DEF Spec, ImplementsService, Service!Spec
=============================================================================
