------------------------------ MODULE Billing ------------------------------
(***************************************************************************)
(* The billing data of one account and the webhooks that keep it up to      *)
(* date.  Checkout sessions and subscriptions live at the payment provider; *)
(* what happens there is reported by events, which the provider repeats     *)
(* until they are handled without an exception, any of them once more even  *)
(* after that, and in any order.  The provider is modelled from what        *)
(* PaymentController and PaymentServiceImpl receive from it.                *)
(*                                                                         *)
(* A handler is one transaction on the row of the account; of two that      *)
(* overlap, @Version fails one, which the provider repeats.  A handler is   *)
(* therefore a single step here.                                            *)
(***************************************************************************)
EXTENDS Integers, Sequences

CONSTANTS
  Subscriptions,  \* checkout sessions, and the subscriptions they lead to
  Customers,      \* customers at the provider
  None,           \* null
  MaxEvents       \* bound: events the provider sends

\* Every status mapStripeStatus knows.
ProviderStatus == {"trialing", "active", "incomplete", "past_due", "paused",
                   "canceled", "incomplete_expired", "unpaid"}

ASSUME BillingAssumption ==
  /\ None \notin Subscriptions \cup Customers \cup ProviderStatus
  /\ MaxEvents \in Nat

VARIABLES
  account,  \* the users row: billing data, plan, deletion mark
  session,  \* checkout sessions: "none", "open" or "paid", and their customer
  sub,      \* subscriptions at the provider: status and customer
  events,   \* every event sent, in the order of what it reports; its id is its place
  done,     \* the events that were handled, each at least once
  overlap,  \* history: a subscription began while another one ran
  outdated  \* history: what was handled last is older than what had been handled

vars == <<account, session, sub, events, done, overlap, outdated>>

\* Mutant of StatusOf: the provider's word is stored.
StatusVerbatim(s) == s

\* mapStripeStatus
StatusOf(s) == CASE s \in {"trialing", "active"} -> "ACTIVE"
                 [] s \in {"incomplete", "past_due", "paused"} -> "PAST_DUE"
                 [] s \in {"canceled", "incomplete_expired", "unpaid"} -> "CANCELED"

Events == [kind : {"completed", "synced", "deleted"}, sub : Subscriptions,
           customer : Customers, status : ProviderStatus]

AccountType == [customer : Customers \cup {None}, sub : Subscriptions \cup {None},
                status : {"ACTIVE", "PAST_DUE", "CANCELED", None},
                plan : {"FREE", "PRO"}, lastEvent : Nat, deleted : BOOLEAN]

SessionType == [state : {"none", "open", "paid"}, customer : Customers \cup {None}]

SubType == [status : ProviderStatus \cup {None}, customer : Customers \cup {None}]

TypeOK ==
  /\ account \in AccountType
  /\ session \in [Subscriptions -> SessionType]
  /\ sub \in [Subscriptions -> SubType]
  /\ events \in Seq(Events)
  /\ done \subseteq DOMAIN events
  /\ overlap \in BOOLEAN
  /\ outdated \in BOOLEAN

Init ==
  /\ account = [customer |-> None, sub |-> None, status |-> None,
                plan |-> "FREE", lastEvent |-> 0, deleted |-> FALSE]
  /\ session = [s \in Subscriptions |-> [state |-> "none", customer |-> None]]
  /\ sub = [s \in Subscriptions |-> [status |-> None, customer |-> None]]
  /\ events = <<>>
  /\ done = {}
  /\ overlap = FALSE
  /\ outdated = FALSE

\* Neither canceled nor expired before the first payment: these two are final.
Running(s) == sub[s].status \notin {None, "canceled", "incomplete_expired"}

-----------------------------------------------------------------------------
(* The program. *)

\* createPaymentSession: refused to an ACTIVE account only.
OpenSession(s) ==
  /\ ~account.deleted
  /\ account.status # "ACTIVE"
  /\ session[s].state = "none"
  /\ session' = [session EXCEPT ![s] = [state |-> "open", customer |-> account.customer]]
  /\ UNCHANGED <<account, sub, events, done, overlap, outdated>>

\* A report is about a subscription; it finds the account by its customer.
Report(i) == events[i].kind # "completed"

\* Whether the handler of event i finds the account: the checkout by its id, a
\* report by the customer linked to it.  Neither finds a deleted account.
Fails(i) ==
  \/ account.deleted
  \/ Report(i) /\ account.customer # events[i].customer

Linked(e, n) == [account EXCEPT !.customer = e.customer, !.sub = e.sub, !.lastEvent = n]

\* A subscription has a price, and the only price sold is that of PRO, whatever
\* the status is (resolvePlanSafely).
Synced(e, n) == [account EXCEPT !.sub = e.sub, !.status = StatusOf(e.status),
                                !.plan = "PRO", !.lastEvent = n]

Deactivated(n) == [account EXCEPT !.sub = None, !.status = "CANCELED",
                                  !.plan = "FREE", !.lastEvent = n]

\* Mutants of Handled: the plan outlives its subscription, or never comes.
HandledKeepingPlan(i) ==
  CASE i = account.lastEvent -> account
    [] i # account.lastEvent /\ events[i].kind = "completed" -> Linked(events[i], i)
    [] i # account.lastEvent /\ events[i].kind = "synced" -> Synced(events[i], i)
    [] i # account.lastEvent /\ events[i].kind = "deleted" ->
         [Deactivated(i) EXCEPT !.plan = account.plan]
HandledWithoutPlan(i) ==
  CASE i = account.lastEvent -> account
    [] i # account.lastEvent /\ events[i].kind = "completed" -> Linked(events[i], i)
    [] i # account.lastEvent /\ events[i].kind = "synced" ->
         [Synced(events[i], i) EXCEPT !.plan = account.plan]
    [] i # account.lastEvent /\ events[i].kind = "deleted" -> Deactivated(i)

\* Mutant of Handled: a checkout leaves the customer as it is.
HandledWithoutCustomer(i) ==
  CASE i = account.lastEvent -> account
    [] i # account.lastEvent /\ events[i].kind = "completed" ->
         [Linked(events[i], i) EXCEPT !.customer = account.customer]
    [] i # account.lastEvent /\ events[i].kind = "synced" -> Synced(events[i], i)
    [] i # account.lastEvent /\ events[i].kind = "deleted" -> Deactivated(i)

\* linkCheckoutCustomer, syncSubscription, deactivateSubscription: only the
\* event handled last is known again.
Handled(i) ==
  CASE i = account.lastEvent -> account
    [] i # account.lastEvent /\ events[i].kind = "completed" -> Linked(events[i], i)
    [] i # account.lastEvent /\ events[i].kind = "synced" -> Synced(events[i], i)
    [] i # account.lastEvent /\ events[i].kind = "deleted" -> Deactivated(i)

\* Events handled already that know better than event i: later reports, for a
\* report, and whatever came of a later subscription.
Newer(i) == {d \in done : /\ d > i
                          /\ \/ Report(i) /\ Report(d)
                             \/ events[d].sub # events[i].sub}

\* A report writes over what was there; a checkout leaves part of it.
Outdates(i) ==
  IF i = account.lastEvent THEN outdated
  ELSE Newer(i) # {} \/ (outdated /\ ~Report(i))

\* handleWebhook.
Handle(i) ==
  /\ ~Fails(i)
  /\ account' = Handled(i)
  /\ done' = done \cup {i}
  /\ outdated' = Outdates(i)
  /\ UNCHANGED <<session, sub, events, overlap>>

\* An event that failed stays with the provider, and others are not held back
\* for it.
Deliver(i) == i \in DOMAIN events \ done /\ Handle(i)

\* The provider missed the response, however long ago.
Redeliver(i) == i \in done /\ Handle(i)

\* Mutant of DeleteAccount: a payment that is late does not protect the account.
DeleteUnlessActive ==
  /\ ~account.deleted
  /\ account.sub = None \/ account.status # "ACTIVE"
  /\ account' = [account EXCEPT !.deleted = TRUE]
  /\ UNCHANGED <<session, sub, events, done, overlap, outdated>>

\* UserServiceImpl.delete with hasActiveSubscription.
DeleteAccount ==
  /\ ~account.deleted
  /\ account.sub = None \/ account.status \notin {"ACTIVE", "PAST_DUE"}
  /\ account' = [account EXCEPT !.deleted = TRUE]
  /\ UNCHANGED <<session, sub, events, done, overlap, outdated>>

-----------------------------------------------------------------------------
(* The provider. *)

Event(k, s, c, st) == [kind |-> k, sub |-> s, customer |-> c, status |-> st]

\* The customer of a subscription that begins: that of the session, or a new one.
CustomerOf(s, c) ==
  IF session[s].customer # None THEN c = session[s].customer
  ELSE \A t \in Subscriptions : sub[t].customer # c

\* Subscription s has status st for customer c from now on.
Becomes(s, c, st) ==
  /\ sub' = [sub EXCEPT ![s] = [status |-> st, customer |-> c]]
  /\ overlap' = (overlap \/ \E t \in Subscriptions \ {s} : Running(t))
  /\ UNCHANGED <<account, done, outdated>>

\* The first payment is tried and not made yet: a subscription, no checkout.
Attempt(s, c) ==
  /\ session[s].state = "open"
  /\ sub[s].status = None
  /\ CustomerOf(s, c)
  /\ Len(events) < MaxEvents
  /\ Becomes(s, c, "incomplete")
  /\ events' = Append(events, Event("synced", s, c, "incomplete"))
  /\ UNCHANGED session

\* The session is paid for, or begins a trial.
Pay(s, c, st) ==
  /\ session[s].state = "open"
  /\ \/ sub[s].status = None /\ CustomerOf(s, c)
     \/ sub[s].status = "incomplete" /\ c = sub[s].customer
  /\ st \in {"trialing", "active"}
  /\ Len(events) + 2 <= MaxEvents
  /\ session' = [session EXCEPT ![s].state = "paid"]
  /\ Becomes(s, c, st)
  /\ \/ events' = events \o << Event("synced", s, c, st), Event("completed", s, c, st) >>
     \/ events' = events \o << Event("completed", s, c, st), Event("synced", s, c, st) >>

\* What a status may change to and be reported as an update.
Following(st) == IF st = "incomplete" THEN {"incomplete_expired"}
                 ELSE {"trialing", "active", "past_due", "paused", "unpaid"} \ {st}

\* A payment fails, succeeds or is given up.
Change(s, st) ==
  /\ Running(s)
  /\ st \in Following(sub[s].status)
  /\ Len(events) < MaxEvents
  /\ Becomes(s, sub[s].customer, st)
  /\ events' = Append(events, Event("synced", s, sub[s].customer, st))
  /\ UNCHANGED session

Cancel(s) ==
  /\ Running(s)
  /\ Len(events) < MaxEvents
  /\ Becomes(s, sub[s].customer, "canceled")
  /\ events' = Append(events, Event("deleted", s, sub[s].customer, "canceled"))
  /\ UNCHANGED session

DeliverSome == \E i \in 1..MaxEvents : Deliver(i)

Next ==
  \/ \E s \in Subscriptions : OpenSession(s)
  \/ DeliverSome
  \/ \E i \in 1..MaxEvents : Redeliver(i)
  \/ DeleteAccount
  \/ \E s \in Subscriptions, c \in Customers : Attempt(s, c)
  \/ \E s \in Subscriptions, c \in Customers, st \in ProviderStatus : Pay(s, c, st)
  \/ \E s \in Subscriptions, st \in ProviderStatus : Change(s, st)
  \/ \E s \in Subscriptions : Cancel(s)

Spec == Init /\ [][Next]_vars

\* The provider repeats an event until it is handled.
FairSpec == Spec /\ WF_vars(DeliverSome)

-----------------------------------------------------------------------------
(* Properties. *)

\* Event n is the last report the provider sent.
Newest(n) ==
  /\ n \in DOMAIN events
  /\ Report(n)
  /\ \A i \in DOMAIN events : i > n => ~Report(i)

\* The account says what the provider says of subscription s.  The plan of one
\* that is unpaid or expired before its first payment is left open: the code
\* keeps it at PRO.
Shows(s) ==
  /\ account.status = StatusOf(sub[s].status)
  /\ account.status # "CANCELED" => account.plan = "PRO"
  /\ sub[s].status = "canceled" => account.plan = "FREE" /\ account.sub \in {None, s}
  /\ sub[s].status # "canceled" => account.sub = s

\* Once the newest report has been handled the account shows its subscription
\* as the provider has it now, whatever else is outstanding, came first, failed
\* before or was repeated, and whether subscriptions overlap - unless something
\* older was handled after something newer, and the newest report not since
\* (syncSubscription and deactivateSubscription store what they are told,
\* linkCheckoutCustomer half of it).
InSync ==
  ~outdated => \A n \in done : Newest(n) => Shows(events[n].sub)

\* What the provider repeats gets somewhere: the newest report on a subscription
\* that was paid for has been handled, can be, or waits for a checkout event
\* that can (findByBillingCustomerId against linkCheckoutCustomer).  Set apart
\* are subscriptions that overlap, of which one may have lost its customer on
\* the account, and a checkout event handled after that of a later checkout.
NothingStuck ==
  ~account.deleted /\ ~overlap /\ ~outdated =>
    \A n \in DOMAIN events :
      Newest(n) /\ session[events[n].sub].state = "paid" =>
        \/ n \in done
        \/ ~Fails(n)
        \/ \E i \in DOMAIN events \ done : ~Report(i) /\ events[i].sub = events[n].sub

\* An account whose newest report was handled is not deleted while a
\* subscription runs, unless that is unpaid (hasActiveSubscription).
SettledDeletion ==
  [][account'.deleted /\ ~account.deleted /\ ~overlap /\ ~outdated
     /\ (\A n \in DOMAIN events : Newest(n) => n \in done)
       => \A s \in Subscriptions : Running(s) => sub[s].status = "unpaid"]_vars

\* Who has paid is served: the plan of the account becomes PRO, whichever of
\* the two events of a checkout comes first and whatever is repeated.
PaidIsServed ==
  \A s \in Subscriptions :
    sub[s].status \in {"trialing", "active"} ~>
      \/ account.plan = "PRO" \/ account.deleted
      \/ sub[s].status \notin {"trialing", "active"} \/ overlap \/ outdated
=============================================================================
