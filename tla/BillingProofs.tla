---------------------------- MODULE BillingProofs ----------------------------
(***************************************************************************)
(* Proofs about Billing, for any number of subscriptions, customers and     *)
(* events, delivered in any order and handled again at any time.            *)
(***************************************************************************)
EXTENDS Billing, SequenceTheorems, TLAPS

USE BillingAssumption

-----------------------------------------------------------------------------
(* The inductive invariant. *)

\* The event on the account is one that was handled.
LastIsDone == account.lastEvent \in done \cup {0}

\* A subscription that began has a customer.
Begun == \A s \in Subscriptions : sub[s].status # None => sub[s].customer \in Customers

\* An event is about a subscription that began, and names its customer.
Known ==
  \A i \in DOMAIN events : /\ sub[events[i].sub].status # None
                           /\ sub[events[i].sub].customer = events[i].customer

\* The provider sends a checkout event with a report on its subscription.
Paired ==
  \A i \in DOMAIN events : ~Report(i) =>
    \E j \in {i - 1, i + 1} \cap DOMAIN events : Report(j) /\ events[j].sub = events[i].sub

\* Who paid has a checkout event.
Completed ==
  \A s \in Subscriptions : session[s].state = "paid" =>
    \E i \in DOMAIN events : ~Report(i) /\ events[i].sub = s

\* The newest report is what the provider knows.
Told ==
  \A n \in DOMAIN events : Newest(n) =>
    /\ events[n].status = sub[events[n].sub].status
    /\ events[n].kind = "deleted" <=> events[n].status = "canceled"

\* Of subscriptions that do not overlap, the events of one come together, and
\* those of the one that runs come last.
Grouped ==
  \A i, k \in DOMAIN events : events[i].sub = events[k].sub =>
    \A j \in i..k : events[j].sub = events[i].sub

RunningIsLast ==
  \A s \in Subscriptions : Running(s) =>
    Len(events) \in DOMAIN events /\ events[Len(events)].sub = s

\* The customer of the newest report is on the account once its checkout event
\* was handled.
NewestIsLinked ==
  ~outdated => \A n \in DOMAIN events, i \in done :
    Newest(n) /\ ~Report(i) /\ events[i].sub = events[n].sub
      => account.customer = events[n].customer

IInv ==
  /\ TypeOK
  /\ LastIsDone
  /\ Begun
  /\ Known
  /\ Paired
  /\ Completed
  /\ Told
  /\ InSync
  /\ ~overlap => Grouped /\ RunningIsLast /\ NewestIsLinked

-----------------------------------------------------------------------------
(* Operators. *)

LEMMA StatusOfType ==
  ASSUME NEW s \in ProviderStatus
  PROVE  StatusOf(s) \in {"ACTIVE", "PAST_DUE", "CANCELED"}
BY DEF StatusOf, ProviderStatus

LEMMA EventsType ==
  ASSUME TypeOK
  PROVE  /\ Len(events) \in Nat /\ DOMAIN events = 1..Len(events)
         /\ \A i \in 1..Len(events) : events[i] \in Events
BY LenProperties DEF TypeOK

\* What handling an event makes of the account, when it is not the one there.
LEMMA HandledIs ==
  ASSUME TypeOK, NEW i \in DOMAIN events, i # account.lastEvent
  PROVE  /\ events[i].kind = "completed" =>
              Handled(i) = [customer |-> events[i].customer, sub |-> events[i].sub,
                            status |-> account.status, plan |-> account.plan,
                            lastEvent |-> i, deleted |-> account.deleted]
         /\ events[i].kind = "synced" =>
              Handled(i) = [customer |-> account.customer, sub |-> events[i].sub,
                            status |-> StatusOf(events[i].status), plan |-> "PRO",
                            lastEvent |-> i, deleted |-> account.deleted]
         /\ events[i].kind = "deleted" =>
              Handled(i) = [customer |-> account.customer, sub |-> None,
                            status |-> "CANCELED", plan |-> "FREE",
                            lastEvent |-> i, deleted |-> account.deleted]
BY DEF Handled, Linked, Synced, Deactivated, TypeOK, AccountType

LEMMA HandledAgain ==
  ASSUME NEW i, i = account.lastEvent
  PROVE  Handled(i) = account
BY DEF Handled

\* What any handling leaves of the account.
LEMMA HandledType ==
  ASSUME TypeOK, NEW i \in DOMAIN events
  PROVE  /\ Handled(i) \in AccountType
         /\ Handled(i).lastEvent = i
         /\ Handled(i).deleted = account.deleted
         /\ Report(i) => Handled(i).customer = account.customer
<1>1. /\ account \in AccountType /\ i \in Nat
      /\ events[i].customer \in Customers /\ events[i].sub \in Subscriptions
      /\ events[i].kind \in {"completed", "synced", "deleted"}
      /\ StatusOf(events[i].status) \in {"ACTIVE", "PAST_DUE", "CANCELED"}
  BY EventsType, StatusOfType DEF TypeOK, Events
<1>2. CASE i = account.lastEvent
  BY <1>1, <1>2, HandledAgain
<1>3. CASE i # account.lastEvent /\ events[i].kind = "completed"
  BY <1>1, <1>3, HandledIs DEF AccountType, Report
<1>4. CASE i # account.lastEvent /\ events[i].kind = "synced"
  BY <1>1, <1>4, HandledIs DEF AccountType
<1>5. CASE i # account.lastEvent /\ events[i].kind = "deleted"
  BY <1>1, <1>5, HandledIs DEF AccountType
<1>. QED
  BY <1>1, <1>2, <1>3, <1>4, <1>5

LEMMA EventType ==
  ASSUME NEW k \in {"completed", "synced", "deleted"},
         NEW s \in Subscriptions, NEW c \in Customers, NEW st \in ProviderStatus
  PROVE  /\ Event(k, s, c, st) \in Events
         /\ Event(k, s, c, st).kind = k /\ Event(k, s, c, st).sub = s
         /\ Event(k, s, c, st).customer = c /\ Event(k, s, c, st).status = st
BY DEF Event, Events

LEMMA InitIInv == Init => IInv
<1>. SUFFICES ASSUME Init PROVE IInv
  OBVIOUS
<1>1. events \in Seq(Events) /\ DOMAIN events = {}
  BY EmptySeq DEF Init
<1>2. TypeOK
  <2>1. account \in AccountType
    BY DEF Init, AccountType
  <2>2. session \in [Subscriptions -> SessionType] /\ sub \in [Subscriptions -> SubType]
    BY DEF Init, SessionType, SubType
  <2>3. done \subseteq DOMAIN events
    BY DEF Init
  <2>4. overlap \in BOOLEAN /\ outdated \in BOOLEAN
    BY Zenon DEF Init
  <2>. QED
    BY <1>1, <2>1, <2>2, <2>3, <2>4 DEF TypeOK
<1>3. LastIsDone
  BY DEF Init, LastIsDone
<1>4. \A s \in Subscriptions : sub[s].status = None /\ session[s].state = "none"
  BY DEF Init
<1>5. Begun /\ Completed /\ RunningIsLast
  BY <1>4 DEF Begun, Completed, RunningIsLast, Running
<1>6. Known /\ Paired /\ Told /\ Grouped
  BY <1>1 DEF Known, Paired, Told, Grouped
<1>7. InSync /\ NewestIsLinked
  BY <1>1 DEF Init, InSync, NewestIsLinked
<1>. QED
  BY <1>2, <1>3, <1>5, <1>6, <1>7 DEF IInv

-----------------------------------------------------------------------------
(* Steps that neither handle nor send an event. *)

LEMMA QuietStep ==
  ASSUME IInv, TypeOK', UNCHANGED <<sub, events, done, overlap, outdated>>,
         account' = account \/ account' = [account EXCEPT !.deleted = TRUE],
         \A s \in Subscriptions : session'[s].state = "paid" => session[s].state = "paid"
  PROVE  IInv'
<1>1. /\ account'.lastEvent = account.lastEvent /\ account'.customer = account.customer
      /\ account'.status = account.status /\ account'.plan = account.plan
      /\ account'.sub = account.sub
  BY DEF IInv, TypeOK, AccountType
<1>2. LastIsDone' /\ Begun' /\ Known' /\ Paired' /\ Completed'
  BY <1>1 DEF IInv, LastIsDone, Begun, Known, Paired, Completed, Report
<1>3. Told'
  BY DEF IInv, Told, Newest, Report
<1>4. InSync'
  BY <1>1 DEF IInv, InSync, Newest, Report, Shows
<1>5. ~overlap' => Grouped' /\ RunningIsLast' /\ NewestIsLinked'
  BY <1>1 DEF IInv, Grouped, RunningIsLast, Running, NewestIsLinked, Newest, Report
<1>. QED
  BY <1>2, <1>3, <1>4, <1>5 DEF IInv

LEMMA OpenSessionStep ==
  ASSUME IInv, NEW s \in Subscriptions, OpenSession(s)
  PROVE  IInv'
<1>1. /\ session' \in [Subscriptions -> SessionType]
      /\ \A t \in Subscriptions : session'[t].state = "paid" => session[t].state = "paid"
  BY DEF OpenSession, IInv, TypeOK, AccountType, SessionType
<1>2. TypeOK'
  BY <1>1 DEF OpenSession, IInv, TypeOK
<1>. QED
  BY <1>1, <1>2, QuietStep DEF OpenSession

LEMMA DeleteAccountStep == IInv /\ DeleteAccount => IInv'
<1>. SUFFICES ASSUME IInv, DeleteAccount PROVE IInv'
  OBVIOUS
<1>1. account' = [account EXCEPT !.deleted = TRUE]
  BY DEF DeleteAccount
<1>2. account' \in AccountType
  BY <1>1 DEF IInv, TypeOK, AccountType
<1>3. TypeOK'
  BY <1>2 DEF DeleteAccount, IInv, TypeOK
<1>. QED
  BY <1>1, <1>3, QuietStep DEF DeleteAccount

LEMMA StutterStep == IInv /\ UNCHANGED vars => IInv'
<1>. SUFFICES ASSUME IInv, UNCHANGED vars PROVE IInv'
  OBVIOUS
<1>1. TypeOK'
  BY DEF vars, IInv, TypeOK
<1>. QED
  BY <1>1, QuietStep DEF vars

-----------------------------------------------------------------------------
(* Handling, for the first time or again. *)

\* A checkout event of another subscription is older than the newest report.
LEMMA CheckoutIsOlder ==
  ASSUME TypeOK, Paired, NEW n \in DOMAIN events, Newest(n),
         NEW i \in DOMAIN events, ~Report(i), events[i].sub # events[n].sub
  PROVE  n > i
<1>1. PICK j \in DOMAIN events : j \in {i - 1, i + 1} /\ Report(j) /\ events[j].sub = events[i].sub
  BY DEF Paired
<1>2. ~(j > n) /\ j # n
  BY <1>1 DEF Newest
<1>. QED
  BY <1>1, <1>2, EventsType

\* When subscriptions do not overlap, the subscription of the newest report is
\* the latest.
LEMMA NewestIsLatest ==
  ASSUME TypeOK, Paired, Grouped, NEW n \in DOMAIN events, Newest(n),
         NEW i \in DOMAIN events, events[i].sub # events[n].sub,
         NEW d \in DOMAIN events, events[d].sub = events[n].sub
  PROVE  d > i
<1>1. n > i
  <2>1. CASE Report(i)
    <3>1. ~(i > n) /\ i # n
      BY <2>1 DEF Newest
    <3>. QED
      BY <3>1, EventsType
  <2>2. CASE ~Report(i)
    BY <2>2, CheckoutIsOlder
  <2>. QED
    BY <2>1, <2>2
<1>2. ASSUME ~(d > i) PROVE FALSE
  <2>1. i \in d..n
    BY <1>1, <1>2, EventsType
  <2>2. events[i].sub = events[d].sub
    BY <2>1 DEF Grouped
  <2>. QED
    BY <2>2
<1>. QED
  BY <1>2

LEMMA HandleStep ==
  ASSUME IInv, NEW i \in DOMAIN events, Handle(i)
  PROVE  IInv'
<1>1. /\ ~account.deleted /\ (Report(i) => account.customer = events[i].customer)
      /\ account' = Handled(i) /\ done' = done \cup {i} /\ outdated' = Outdates(i)
      /\ UNCHANGED <<session, sub, events, overlap>>
  BY DEF Handle, Fails
<1>2. TypeOK
  BY DEF IInv
<1>3. /\ account' \in AccountType /\ account'.lastEvent = i
      /\ Report(i) => account'.customer = account.customer
  BY <1>1, <1>2, HandledType
<1>4. TypeOK'
  <2>1. outdated' \in BOOLEAN
    <3>1. CASE i = account.lastEvent
      BY <1>1, <1>2, <3>1 DEF Outdates, TypeOK
    <3>2. CASE i # account.lastEvent
      BY <1>1, <3>2, Zenon DEF Outdates
    <3>. QED
      BY <3>1, <3>2
  <2>. QED
    BY <1>1, <1>2, <1>3, <2>1 DEF TypeOK
<1>5. LastIsDone' /\ Begun' /\ Known' /\ Paired' /\ Completed' /\ Told'
  <2>1. LastIsDone'
    BY <1>1, <1>3 DEF LastIsDone
  <2>2. Begun' /\ Known' /\ Told'
    BY <1>1 DEF IInv, Begun, Known, Told, Newest, Report
  <2>3. Paired' /\ Completed'
    BY <1>1 DEF IInv, Paired, Completed, Report
  <2>. QED
    BY <2>1, <2>2, <2>3
<1>6. ~overlap' => Grouped' /\ RunningIsLast'
  BY <1>1 DEF IInv, Grouped, RunningIsLast, Running
<1>7. \A n \in DOMAIN events : (Newest(n)' <=> Newest(n)) /\ (Report(n)' <=> Report(n))
  BY <1>1 DEF Newest, Report
<1>8. CASE i = account.lastEvent
  <2>1. account' = account /\ outdated' = outdated
    BY <1>1, <1>8, HandledAgain DEF Outdates
  <2>2. i \in done
    BY <1>2, <1>8, EventsType DEF IInv, LastIsDone
  <2>3. done' = done
    BY <1>1, <2>2
  <2>4. InSync'
    BY <1>1, <2>1, <2>3 DEF IInv, InSync, Newest, Report, Shows
  <2>5. ~overlap' => NewestIsLinked'
    BY <1>1, <2>1, <2>3 DEF IInv, NewestIsLinked, Newest, Report
  <2>. QED
    BY <1>4, <1>5, <1>6, <2>4, <2>5 DEF IInv
<1>9. CASE i # account.lastEvent
  <2>1. outdated' = (Newer(i) # {} \/ (outdated /\ ~Report(i)))
    BY <1>1, <1>9 DEF Outdates
  <2>2. events[i] \in Events /\ done \subseteq DOMAIN events
    BY <1>2, EventsType DEF TypeOK
  <2>3. InSync'
    <3>1. SUFFICES ASSUME ~outdated', NEW n \in done', Newest(n), n \in DOMAIN events
                   PROVE  Shows(events[n].sub)'
      BY <1>1, <1>7, <2>2 DEF InSync
    <3>a. PICK s \in Subscriptions : s = events[n].sub
      BY <1>2, <3>1, EventsType DEF Events
    <3>b. sub[s].status \in ProviderStatus /\ sub' = sub
      <4>1. events[n] \in Events /\ events[n].status = sub[s].status
        BY <1>2, <3>1, <3>a, EventsType DEF IInv, Told
      <4>. QED
        BY <1>1, <4>1 DEF Events
    <3>2. CASE Report(i) /\ i = n
      <4>1. /\ events[n].status = sub[s].status
            /\ events[n].kind = "deleted" <=> events[n].status = "canceled"
        BY <3>1, <3>a DEF IInv, Told
      <4>2. CASE events[n].kind = "deleted"
        <5>1. /\ account'.status = "CANCELED" /\ account'.plan = "FREE" /\ account'.sub = None
          BY <1>1, <1>2, <1>9, <3>2, <4>2, HandledIs
        <5>. QED
          BY <1>1, <3>a, <3>b, <4>1, <4>2, <5>1 DEF Shows, StatusOf
      <4>3. CASE events[n].kind = "synced"
        <5>1. /\ account'.status = StatusOf(sub[s].status) /\ account'.plan = "PRO"
              /\ account'.sub = s
          BY <1>1, <1>2, <1>9, <3>a, <3>2, <4>1, <4>3, HandledIs
        <5>. QED
          BY <1>1, <3>a, <4>1, <4>3, <5>1 DEF Shows
      <4>. QED
        BY <2>2, <3>2, <4>2, <4>3 DEF Events, Report
    <3>3. CASE Report(i) /\ i # n
      <4>1. n \in done /\ n > i /\ Report(n)
        BY <1>1, <1>2, <3>1, <3>3, EventsType DEF Newest
      <4>. QED
        BY <2>1, <3>1, <3>3, <4>1 DEF Newer
    <3>4. CASE ~Report(i)
      <4>1. ~outdated /\ n \in done
        BY <1>1, <2>1, <3>1, <3>4 DEF Newest
      <4>2. Shows(s)
        BY <3>1, <3>a, <4>1 DEF IInv, InSync
      <4>3. events[i].sub = s
        <5>1. ASSUME events[i].sub # s PROVE FALSE
          <6>1. n > i
            BY <1>2, <3>1, <3>a, <3>4, <5>1, CheckoutIsOlder DEF IInv
          <6>. QED
            BY <2>1, <3>1, <3>a, <4>1, <5>1, <6>1 DEF Newer
        <5>. QED
          BY <5>1
      <4>4. /\ account'.status = account.status /\ account'.plan = account.plan
            /\ account'.sub = s
        BY <1>1, <1>2, <1>9, <3>4, <4>3, HandledIs DEF Report
      <4>. QED
        BY <1>1, <3>a, <4>2, <4>4 DEF Shows
    <3>. QED
      BY <3>2, <3>3, <3>4
  <2>4. ~overlap' => NewestIsLinked'
    <3>1. SUFFICES ASSUME ~overlap, ~outdated', NEW n \in DOMAIN events, NEW j \in done',
                          Newest(n), ~Report(j), events[j].sub = events[n].sub
                   PROVE  account'.customer = events[n].customer
      BY <1>1, <1>7, <2>2 DEF NewestIsLinked
    <3>2. Grouped /\ NewestIsLinked /\ Paired /\ Known
      BY <3>1 DEF IInv
    <3>3. CASE events[i].sub = events[n].sub
      <4>1. events[i].customer = events[n].customer
        BY <3>2, <3>3 DEF Known
      <4>2. CASE Report(i)
        BY <1>1, <1>3, <4>1, <4>2
      <4>3. CASE ~Report(i)
        BY <1>1, <1>2, <1>9, <4>1, <4>3, HandledIs DEF Report
      <4>. QED
        BY <4>2, <4>3
    <3>4. CASE events[i].sub # events[n].sub
      <4>1. j \in done /\ j \in DOMAIN events
        BY <1>1, <2>2, <3>1, <3>4
      <4>2. j > i
        BY <1>2, <3>1, <3>2, <3>4, <4>1, NewestIsLatest
      <4>. QED
        BY <2>1, <3>1, <3>4, <4>1, <4>2 DEF Newer
    <3>. QED
      BY <3>3, <3>4
  <2>. QED
    BY <1>4, <1>5, <1>6, <2>3, <2>4 DEF IInv
<1>. QED
  BY <1>8, <1>9

-----------------------------------------------------------------------------
(* Sending. *)

\* The newest report is about the subscription that runs.
LEMMA NewestOfRunning ==
  ASSUME TypeOK, Paired, RunningIsLast, NEW s \in Subscriptions, Running(s)
  PROVE  \E n \in DOMAIN events : Newest(n) /\ events[n].sub = s
<1>1. /\ Len(events) \in Nat /\ DOMAIN events = 1..Len(events)
      /\ Len(events) \in DOMAIN events /\ events[Len(events)].sub = s
  BY EventsType DEF RunningIsLast
<1>2. CASE Report(Len(events))
  BY <1>1, <1>2 DEF Newest
<1>3. CASE ~Report(Len(events))
  <2>1. PICK j \in DOMAIN events : /\ j \in {Len(events) - 1, Len(events) + 1}
                                   /\ Report(j) /\ events[j].sub = s
    BY <1>1, <1>3 DEF Paired
  <2>2. j = Len(events) - 1 /\ \A k \in DOMAIN events : k > j => k = Len(events)
    BY <1>1, <2>1
  <2>. QED
    BY <1>3, <2>1, <2>2 DEF Newest
<1>. QED
  BY <1>2, <1>3

\* One report is sent at place r, alone or with checkout events on the same
\* subscription s beside it, as the status of s becomes st: s began with it, or
\* was running before.
Sends(s, c, st, r) ==
  /\ UNCHANGED <<account, done, outdated>>
  /\ sub' = [sub EXCEPT ![s] = [status |-> st, customer |-> c]]
  /\ overlap' = (overlap \/ \E t \in Subscriptions \ {s} : Running(t))
  /\ \/ sub[s].status = None
     \/ Running(s) /\ sub[s].customer = c
  /\ DOMAIN events \subseteq DOMAIN events'
  /\ \A i \in DOMAIN events : events'[i] = events[i]
  /\ r \in DOMAIN events' \ DOMAIN events
  /\ events'[r].status = st
  /\ events'[r].kind = "deleted" <=> st = "canceled"
  /\ \A i \in DOMAIN events' \ DOMAIN events :
       /\ events'[i].sub = s /\ events'[i].customer = c
       /\ events'[i].kind # "completed" <=> i = r
       /\ i \in {r - 1, r, r + 1}
  /\ \A t \in Subscriptions : session'[t].state = "paid" =>
       \/ session[t].state = "paid"
       \/ t = s /\ \E i \in DOMAIN events' \ DOMAIN events : i # r

LEMMA SendStep ==
  ASSUME IInv, TypeOK', NEW s \in Subscriptions, NEW c \in Customers,
         NEW st \in ProviderStatus, NEW r, Sends(s, c, st, r)
  PROVE  IInv'
<1>. USE DEF Sends
<1>1. TypeOK
  BY DEF IInv
<1>2. /\ Len(events) \in Nat /\ DOMAIN events = 1..Len(events)
      /\ Len(events') \in Nat /\ DOMAIN events' = 1..Len(events')
      /\ Len(events') > Len(events)
  <2>1. Len(events') \in Nat /\ DOMAIN events' = 1..Len(events')
    BY LenProperties DEF TypeOK
  <2>. QED
    BY <1>1, <2>1, EventsType
<1>3. /\ sub'[s].status = st /\ sub'[s].customer = c
      /\ \A t \in Subscriptions : t # s => sub'[t] = sub[t]
  BY <1>1 DEF TypeOK
<1>4. /\ \A i \in DOMAIN events : Report(i)' <=> Report(i)
      /\ \A i \in DOMAIN events' \ DOMAIN events : Report(i)' <=> i = r
  BY DEF Report
<1>5. \A i \in DOMAIN events : events[i].sub \in Subscriptions
  BY <1>1, EventsType DEF Events
<1>6. \A n : Newest(n)' => n = r
  <2>1. SUFFICES ASSUME NEW n, Newest(n)' PROVE n = r
    OBVIOUS
  <2>2. n \in DOMAIN events' /\ Report(n)' /\ ~(r > n)
    BY <1>4, <2>1 DEF Newest
  <2>3. n \notin DOMAIN events
    BY <1>2, <2>2
  <2>. QED
    BY <1>4, <2>2, <2>3
<1>7. r \notin done
  BY <1>1 DEF TypeOK
<1>8. LastIsDone' /\ Begun'
  BY <1>1, <1>3 DEF IInv, LastIsDone, Begun
<1>9. Known'
  <2>1. SUFFICES ASSUME NEW i \in DOMAIN events'
                 PROVE  /\ sub'[events'[i].sub].status # None
                        /\ sub'[events'[i].sub].customer = events'[i].customer
    BY DEF Known
  <2>2. CASE i \in DOMAIN events
    <3>1. /\ events'[i] = events[i] /\ sub[events[i].sub].status # None
          /\ sub[events[i].sub].customer = events[i].customer
      BY <2>2 DEF IInv, Known
    <3>2. CASE events[i].sub = s
      BY <1>3, <3>1, <3>2
    <3>3. CASE events[i].sub # s
      BY <1>3, <1>5, <2>2, <3>1, <3>3
    <3>. QED
      BY <3>2, <3>3
  <2>3. CASE i \notin DOMAIN events
    BY <1>3, <2>3
  <2>. QED
    BY <2>2, <2>3
<1>10. Paired'
  <2>1. SUFFICES ASSUME NEW i \in DOMAIN events', ~Report(i)'
                 PROVE  \E j \in {i - 1, i + 1} \cap DOMAIN events' :
                          Report(j)' /\ events'[j].sub = events'[i].sub
    BY DEF Paired
  <2>2. CASE i \in DOMAIN events
    <3>1. PICK j \in {i - 1, i + 1} \cap DOMAIN events : Report(j) /\ events[j].sub = events[i].sub
      BY <1>4, <2>1, <2>2 DEF IInv, Paired
    <3>. QED
      BY <1>4, <2>2, <3>1
  <2>3. CASE i \notin DOMAIN events
    <3>1. /\ i # r /\ i \in {r - 1, r, r + 1} /\ events'[i].sub = s
          /\ events'[r].sub = s /\ Report(r)'
      BY <1>4, <2>1, <2>3
    <3>2. r \in {i - 1, i + 1}
      BY <1>2, <3>1
    <3>. QED
      BY <3>1, <3>2
  <2>. QED
    BY <2>2, <2>3
<1>11. Completed'
  <2>1. SUFFICES ASSUME NEW t \in Subscriptions, session'[t].state = "paid"
                 PROVE  \E i \in DOMAIN events' : ~Report(i)' /\ events'[i].sub = t
    BY DEF Completed
  <2>2. CASE session[t].state = "paid"
    <3>1. PICK i \in DOMAIN events : ~Report(i) /\ events[i].sub = t
      BY <2>2 DEF IInv, Completed
    <3>. QED
      BY <1>4, <3>1
  <2>3. CASE t = s /\ \E i \in DOMAIN events' \ DOMAIN events : i # r
    BY <1>4, <2>3
  <2>. QED
    BY <2>1, <2>2, <2>3
<1>12. Told'
  BY <1>3, <1>6 DEF Told
<1>13. InSync'
  BY <1>6, <1>7 DEF InSync
<1>14. ASSUME ~overlap'
       PROVE  Grouped' /\ RunningIsLast' /\ NewestIsLinked'
  <2>1. /\ ~overlap /\ \A t \in Subscriptions : Running(t) => t = s
        /\ Grouped /\ RunningIsLast /\ NewestIsLinked
    BY <1>14 DEF IInv
  <2>2. Grouped'
    <3>1. SUFFICES ASSUME NEW i \in DOMAIN events', NEW k \in DOMAIN events',
                          events'[i].sub = events'[k].sub, NEW j \in i..k
                   PROVE  events'[j].sub = events'[i].sub
      BY DEF Grouped
    <3>2. j \in DOMAIN events'
      BY <1>2, <3>1
    <3>3. CASE k \in DOMAIN events
      <4>1. i \in DOMAIN events /\ j \in DOMAIN events
        BY <1>2, <3>1, <3>3
      <4>. QED
        BY <2>1, <3>1, <3>3, <4>1 DEF Grouped
    <3>4. CASE k \notin DOMAIN events /\ j \notin DOMAIN events
      BY <3>1, <3>2, <3>4
    <3>5. CASE k \notin DOMAIN events /\ j \in DOMAIN events
      <4>1. i \in DOMAIN events /\ events[i].sub = s /\ i <= j
        BY <1>2, <3>1, <3>5
      <4>2. Running(s)
        BY <4>1 DEF IInv, Known
      <4>3. /\ Len(events) \in DOMAIN events /\ events[Len(events)].sub = s
            /\ j \in i..Len(events)
        BY <1>2, <2>1, <3>1, <3>5, <4>2 DEF RunningIsLast
      <4>. QED
        BY <2>1, <3>5, <4>1, <4>3 DEF Grouped
    <3>. QED
      BY <3>3, <3>4, <3>5
  <2>3. RunningIsLast'
    <3>1. Len(events') \in DOMAIN events' \ DOMAIN events
      BY <1>2
    <3>2. \A t \in Subscriptions : Running(t)' => t = s
      BY <1>3, <2>1 DEF Running
    <3>. QED
      BY <3>1, <3>2 DEF RunningIsLast
  <2>4. NewestIsLinked'
    <3>1. SUFFICES ASSUME ~outdated, NEW n \in DOMAIN events', NEW i \in done,
                          Newest(n)', ~Report(i)', events'[i].sub = events'[n].sub
                   PROVE  account.customer = events'[n].customer
      BY DEF NewestIsLinked
    <3>2. /\ n = r /\ events'[n].sub = s /\ events'[n].customer = c
          /\ i \in DOMAIN events /\ events[i].sub = s /\ ~Report(i)
      BY <1>1, <1>4, <1>6, <3>1 DEF TypeOK
    <3>3. Running(s) /\ c = sub[s].customer
      BY <3>2 DEF IInv, Known
    <3>4. PICK m \in DOMAIN events : Newest(m) /\ events[m].sub = s
      BY <1>1, <2>1, <3>3, NewestOfRunning DEF IInv
    <3>5. account.customer = events[m].customer
      BY <2>1, <3>1, <3>2, <3>4 DEF NewestIsLinked
    <3>6. events[m].customer = sub[s].customer
      BY <3>4 DEF IInv, Known
    <3>. QED
      BY <3>2, <3>3, <3>5, <3>6
  <2>. QED
    BY <2>2, <2>3, <2>4
<1>. QED
  BY <1>8, <1>9, <1>10, <1>11, <1>12, <1>13, <1>14 DEF IInv

\* What is appended leaves the places before it as they were.
LEMMA Appended ==
  ASSUME events \in Seq(Events), NEW more \in Seq(Events), events' = events \o more
  PROVE  /\ events' \in Seq(Events)
         /\ Len(events) \in Nat /\ DOMAIN events = 1..Len(events)
         /\ DOMAIN events' = 1..(Len(events) + Len(more))
         /\ \A i \in DOMAIN events : events'[i] = events[i]
         /\ \A i \in 1..Len(more) : events'[Len(events) + i] = more[i]
<1>1. /\ events' \in Seq(Events) /\ Len(events') = Len(events) + Len(more)
      /\ \A i \in 1..(Len(events) + Len(more)) :
           events'[i] = IF i <= Len(events) THEN events[i] ELSE more[i - Len(events)]
  BY ConcatProperties, ZenonT(30)
<1>2. /\ Len(events) \in Nat /\ Len(more) \in Nat
      /\ DOMAIN events = 1..Len(events) /\ DOMAIN events' = 1..Len(events')
  BY <1>1, LenProperties
<1>3. ASSUME NEW i \in DOMAIN events PROVE events'[i] = events[i]
  BY <1>1, <1>2
<1>4. ASSUME NEW i \in 1..Len(more) PROVE events'[Len(events) + i] = more[i]
  <2>1. Len(events) + i \in 1..(Len(events) + Len(more)) /\ ~(Len(events) + i <= Len(events))
        /\ (Len(events) + i) - Len(events) = i
    BY <1>2
  <2>. QED
    BY <1>1, <2>1
<1>. QED
  BY <1>1, <1>2, <1>3, <1>4

\* A report sent alone.
LEMMA ReportStep ==
  ASSUME IInv, NEW s \in Subscriptions, NEW c \in Customers, NEW st \in ProviderStatus,
         NEW kind \in {"synced", "deleted"}, kind = "deleted" <=> st = "canceled",
         sub[s].status = None \/ (Running(s) /\ sub[s].customer = c),
         Becomes(s, c, st),
         events' = Append(events, Event(kind, s, c, st)), session' = session
  PROVE  IInv'
<1>. DEFINE e == Event(kind, s, c, st)
<1>a. PICK r : r = Len(events) + 1
  OBVIOUS
<1>1. /\ e \in Events /\ e.kind = kind /\ e.sub = s /\ e.customer = c /\ e.status = st
  BY EventType
<1>2. /\ events \in Seq(Events) /\ TypeOK
      /\ UNCHANGED <<account, done, outdated>>
      /\ sub' = [sub EXCEPT ![s] = [status |-> st, customer |-> c]]
      /\ overlap' = (overlap \/ \E t \in Subscriptions \ {s} : Running(t))
  BY DEF IInv, TypeOK, Becomes
<1>. HIDE DEF e
<1>3. /\ events' \in Seq(Events) /\ Len(events) \in Nat /\ DOMAIN events = 1..Len(events)
      /\ DOMAIN events' = 1..r
      /\ \A i \in DOMAIN events : events'[i] = events[i]
      /\ events'[r] = e
  <2>1. events' = Append(events, e)
    BY DEF e
  <2>. QED
    BY <1>a, <1>1, <1>2, <2>1, AppendProperties
<1>4. TypeOK'
  <2>1. sub' \in [Subscriptions -> SubType]
    BY <1>2 DEF TypeOK, SubType
  <2>2. overlap' \in BOOLEAN
    BY <1>2, Zenon
  <2>3. done' \subseteq DOMAIN events'
    BY <1>a, <1>2, <1>3 DEF TypeOK
  <2>. QED
    BY <1>2, <1>3, <2>1, <2>2, <2>3 DEF TypeOK
<1>5. DOMAIN events' \ DOMAIN events = {r}
  BY <1>a, <1>3
<1>6. \A i \in DOMAIN events' \ DOMAIN events :
        /\ events'[i].sub = s /\ events'[i].customer = c
        /\ events'[i].kind # "completed" <=> i = r
        /\ i \in {r - 1, r, r + 1}
  BY <1>1, <1>3, <1>5
<1>7. /\ r \in DOMAIN events' \ DOMAIN events /\ DOMAIN events \subseteq DOMAIN events'
      /\ events'[r].status = st
      /\ events'[r].kind = "deleted" <=> st = "canceled"
  BY <1>1, <1>3, <1>5
<1>8. \A t \in Subscriptions : session'[t].state = "paid" =>
        \/ session[t].state = "paid"
        \/ t = s /\ \E i \in DOMAIN events' \ DOMAIN events : i # r
  OBVIOUS
<1>9. \A i \in DOMAIN events : events'[i] = events[i]
  BY <1>3
<1>10. Sends(s, c, st, r)
  BY <1>2, <1>6, <1>7, <1>8, <1>9 DEF Sends
<1>. QED
  BY <1>4, <1>10, SendStep

LEMMA AttemptStep ==
  ASSUME IInv, NEW s \in Subscriptions, NEW c \in Customers, Attempt(s, c)
  PROVE  IInv'
<1>1. "incomplete" \in ProviderStatus
  BY DEF ProviderStatus
<1>. QED
  BY <1>1, ReportStep DEF Attempt

LEMMA ChangeStep ==
  ASSUME IInv, NEW s \in Subscriptions, NEW st \in ProviderStatus, Change(s, st)
  PROVE  IInv'
<1>1. st # "canceled"
  BY DEF Change, Following
<1>2. sub[s].customer \in Customers
  BY DEF Change, Running, IInv, Begun
<1>. QED
  BY <1>1, <1>2, ReportStep DEF Change

LEMMA CancelStep ==
  ASSUME IInv, NEW s \in Subscriptions, Cancel(s)
  PROVE  IInv'
<1>1. "canceled" \in ProviderStatus
  BY DEF ProviderStatus
<1>2. sub[s].customer \in Customers
  BY DEF Cancel, Running, IInv, Begun
<1>. QED
  BY <1>1, <1>2, ReportStep DEF Cancel

LEMMA PayStep ==
  ASSUME IInv, NEW s \in Subscriptions, NEW c \in Customers, NEW st \in ProviderStatus,
         Pay(s, c, st)
  PROVE  IInv'
<1>. DEFINE rep == Event("synced", s, c, st)
            com == Event("completed", s, c, st)
<1>a. PICK N : N = Len(events)
  OBVIOUS
<1>1. /\ rep \in Events /\ rep.kind = "synced" /\ rep.sub = s /\ rep.customer = c
      /\ rep.status = st
      /\ com \in Events /\ com.kind = "completed" /\ com.sub = s /\ com.customer = c
  BY EventType
<1>2. /\ events \in Seq(Events) /\ TypeOK
      /\ UNCHANGED <<account, done, outdated>>
      /\ sub' = [sub EXCEPT ![s] = [status |-> st, customer |-> c]]
      /\ overlap' = (overlap \/ \E t \in Subscriptions \ {s} : Running(t))
      /\ session' = [session EXCEPT ![s].state = "paid"]
      /\ st # "canceled"
      /\ sub[s].status = None \/ (Running(s) /\ sub[s].customer = c)
  <2>1. TypeOK /\ events \in Seq(Events)
    BY DEF IInv, TypeOK
  <2>2. sub[s].status = None \/ (Running(s) /\ sub[s].customer = c)
    BY DEF Pay, Running
  <2>. QED
    BY <2>1, <2>2 DEF Pay, Becomes
<1>3. PICK a, b : /\ (a = rep /\ b = com) \/ (a = com /\ b = rep)
                  /\ events' = events \o <<a, b>>
  <2>1. \/ events' = events \o <<rep, com>>
        \/ events' = events \o <<com, rep>>
    BY DEF Pay
  <2>. HIDE DEF rep, com
  <2>. QED
    BY <2>1
<1>. HIDE DEF rep, com
<1>4. <<a, b>> \in Seq(Events) /\ Len(<<a, b>>) = 2 /\ <<a, b>>[1] = a /\ <<a, b>>[2] = b
  <2>1. a \in Events /\ b \in Events
    BY <1>1, <1>3
  <2>. QED
    BY <2>1
<1>5. /\ events' \in Seq(Events) /\ N \in Nat /\ DOMAIN events = 1..N
      /\ DOMAIN events' = 1..(N + 2)
      /\ \A i \in DOMAIN events : events'[i] = events[i]
      /\ events'[N + 1] = a /\ events'[N + 2] = b
  <2>1. PICK more \in Seq(Events) :
          /\ events' = events \o more /\ Len(more) = 2 /\ more[1] = a /\ more[2] = b
    BY <1>3, <1>4
  <2>2. /\ events' \in Seq(Events) /\ N \in Nat /\ DOMAIN events = 1..N
        /\ DOMAIN events' = 1..(N + Len(more))
        /\ \A i \in DOMAIN events : events'[i] = events[i]
        /\ \A i \in 1..Len(more) : events'[N + i] = more[i]
    BY <1>a, <1>2, <2>1, Appended
  <2>. QED
    BY <2>1, <2>2
<1>6. TypeOK'
  <2>1. sub' \in [Subscriptions -> SubType]
    BY <1>2 DEF TypeOK, SubType
  <2>2. overlap' \in BOOLEAN
    BY <1>2, Zenon
  <2>3. session' \in [Subscriptions -> SessionType]
    BY <1>2 DEF TypeOK, SessionType
  <2>4. done' \subseteq DOMAIN events'
    BY <1>2, <1>5 DEF TypeOK
  <2>. QED
    BY <1>2, <1>5, <2>1, <2>2, <2>3, <2>4 DEF TypeOK
<1>7. DOMAIN events' \ DOMAIN events = {N + 1, N + 2}
  BY <1>5
<1>8. PICK r \in {N + 1, N + 2} :
        /\ events'[r] = rep
        /\ \A i \in {N + 1, N + 2} : i # r => events'[i] = com
  BY <1>3, <1>5
<1>9. \A i \in DOMAIN events' \ DOMAIN events :
        /\ events'[i].sub = s /\ events'[i].customer = c
        /\ events'[i].kind # "completed" <=> i = r
        /\ i \in {r - 1, r, r + 1}
  BY <1>1, <1>5, <1>7, <1>8
<1>10. \A t \in Subscriptions : session'[t].state = "paid" =>
         \/ session[t].state = "paid"
         \/ t = s /\ \E i \in DOMAIN events' \ DOMAIN events : i # r
  BY <1>2, <1>5, <1>7 DEF TypeOK
<1>11. r \in DOMAIN events' \ DOMAIN events /\ DOMAIN events \subseteq DOMAIN events'
  BY <1>5, <1>7
<1>12. events'[r].status = st /\ (events'[r].kind = "deleted" <=> st = "canceled")
  BY <1>1, <1>2, <1>8
<1>13. \A i \in DOMAIN events : events'[i] = events[i]
  BY <1>5
<1>14. Sends(s, c, st, r)
  BY <1>2, <1>9, <1>10, <1>11, <1>12, <1>13 DEF Sends
<1>. QED
  BY <1>6, <1>14, SendStep

-----------------------------------------------------------------------------
(* The theorems. *)

LEMMA NextIInv == IInv /\ [Next]_vars => IInv'
<1>. SUFFICES ASSUME IInv, [Next]_vars PROVE IInv'
  OBVIOUS
<1>1. CASE \E s \in Subscriptions : OpenSession(s)
  BY <1>1, OpenSessionStep
<1>2. CASE DeliverSome
  BY <1>2, HandleStep DEF DeliverSome, Deliver
<1>3. CASE \E i \in 1..MaxEvents : Redeliver(i)
  BY <1>3, HandleStep DEF Redeliver, IInv, TypeOK
<1>4. CASE DeleteAccount
  BY <1>4, DeleteAccountStep
<1>5. CASE \E s \in Subscriptions, c \in Customers : Attempt(s, c)
  BY <1>5, AttemptStep
<1>6. CASE \E s \in Subscriptions, c \in Customers, st \in ProviderStatus : Pay(s, c, st)
  BY <1>6, PayStep
<1>7. CASE \E s \in Subscriptions, st \in ProviderStatus : Change(s, st)
  BY <1>7, ChangeStep
<1>8. CASE \E s \in Subscriptions : Cancel(s)
  BY <1>8, CancelStep
<1>9. CASE UNCHANGED vars
  BY <1>9, StutterStep
<1>. QED
  BY <1>1, <1>2, <1>3, <1>4, <1>5, <1>6, <1>7, <1>8, <1>9 DEF Next

\* What the provider's events say, which of them came together, and what of it
\* is on the account, in any order of handling.
THEOREM InductiveInvariant == Spec => []IInv
<1>. QED
  BY InitIInv, NextIInv, PTL DEF Spec

\* Types of account, sessions, subscriptions and events.
THEOREM TypeCorrect == Spec => []TypeOK
<1>1. IInv => TypeOK
  BY DEF IInv
<1>. QED
  BY <1>1, InductiveInvariant, PTL

\* Once the newest report was handled, and nothing older over something newer
\* since, the account shows its subscription as the provider has it
\* (linkCheckoutCustomer, syncSubscription, deactivateSubscription).
THEOREM AccountInSync == Spec => []InSync
<1>1. IInv => InSync
  BY DEF IInv
<1>. QED
  BY <1>1, InductiveInvariant, PTL

\* The newest report on a subscription that was paid for was handled, can be, or
\* waits for a checkout event that can (the handlers throw when the customer is
\* not linked yet).
THEOREM NothingGetsStuck == Spec => []NothingStuck
<1>1. ASSUME IInv PROVE NothingStuck
  <2>1. SUFFICES ASSUME ~account.deleted, ~overlap, ~outdated,
                        NEW n \in DOMAIN events, Newest(n),
                        session[events[n].sub].state = "paid",
                        ~ \E i \in DOMAIN events \ done : ~Report(i) /\ events[i].sub = events[n].sub
                 PROVE  ~Fails(n)
    BY DEF NothingStuck
  <2>2. events[n].sub \in Subscriptions
    BY <1>1, EventsType DEF IInv, Events
  <2>3. PICK i \in DOMAIN events : ~Report(i) /\ events[i].sub = events[n].sub
    BY <1>1, <2>1, <2>2 DEF IInv, Completed
  <2>4. i \in done
    BY <2>1, <2>3
  <2>5. account.customer = events[n].customer
    BY <1>1, <2>1, <2>3, <2>4 DEF IInv, NewestIsLinked
  <2>. QED
    BY <2>1, <2>5 DEF Fails
<1>. QED
  BY <1>1, InductiveInvariant, PTL

\* No account whose newest report was handled is deleted while a subscription
\* runs that is not unpaid (hasActiveSubscription in UserServiceImpl.delete).
THEOREM DeletionIsSettled == Spec => SettledDeletion
<1>. DEFINE Allowed == account'.deleted /\ ~account.deleted /\ ~overlap /\ ~outdated
                         /\ (\A n \in DOMAIN events : Newest(n) => n \in done)
                         => \A s \in Subscriptions : Running(s) => sub[s].status = "unpaid"
<1>1. ASSUME IInv, [Next]_vars PROVE Allowed
  <2>1. SUFFICES ASSUME account'.deleted, ~account.deleted, ~overlap, ~outdated,
                        \A n \in DOMAIN events : Newest(n) => n \in done,
                        NEW s \in Subscriptions, Running(s)
                 PROVE  sub[s].status = "unpaid"
    OBVIOUS
  <2>2. TypeOK
    BY <1>1 DEF IInv
  <2>3. DeleteAccount
    <3>1. \A i \in DOMAIN events : ~Handle(i)
      BY <2>1, <2>2, HandledType DEF Handle
    <3>2. ~DeliverSome /\ ~(\E i \in 1..MaxEvents : Redeliver(i))
      BY <2>2, <3>1 DEF DeliverSome, Deliver, Redeliver, TypeOK
    <3>. QED
      BY <1>1, <2>1, <3>2 DEF Next, OpenSession, Attempt, Pay, Change, Cancel, Becomes, vars
  <2>4. PICK n \in DOMAIN events : Newest(n) /\ events[n].sub = s
    BY <1>1, <2>1, NewestOfRunning DEF IInv
  <2>5. Shows(s)
    BY <1>1, <2>1, <2>4 DEF IInv, InSync
  <2>6. sub[s].status \in ProviderStatus \ {"canceled", "incomplete_expired"}
    BY <2>1, <2>2 DEF TypeOK, SubType, Running
  <2>7. account.status \notin {"ACTIVE", "PAST_DUE"}
    BY <2>3, <2>5, <2>6 DEF DeleteAccount, Shows
  <2>. QED
    BY <2>5, <2>6, <2>7 DEF Shows, StatusOf, ProviderStatus
<1>. QED
  BY <1>1, InductiveInvariant, PTL DEF Spec, SettledDeletion
=============================================================================
