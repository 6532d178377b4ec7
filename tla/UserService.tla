---------------------------- MODULE UserService ----------------------------
(***************************************************************************)
(* What UserService promises: each operation as if it took place at once,   *)
(* on the account as it is, with no transactions, versions or guards that   *)
(* others overtake.  The one exception has a variable of its own: skewed    *)
(* says that administrators went who saw each other stay.                   *)
(***************************************************************************)
EXTENDS FiniteSets

CONSTANTS Emails, Roles, AdminRole, UserRole, InitialAdmins

VARIABLES
  status,       \* "absent", "live" or "deleted", per e-mail address
  roles,
  locked,
  subscribed,
  skewed

vars == <<status, roles, locked, subscribed, skewed>>

Init ==
  /\ status = [e \in Emails |-> IF e \in InitialAdmins THEN "live" ELSE "absent"]
  /\ roles = [e \in Emails |-> IF e \in InitialAdmins THEN {AdminRole} ELSE {}]
  /\ locked = {}
  /\ subscribed = {}
  /\ skewed = FALSE

Live(e) == status[e] = "live"

OtherAdmin(e) == \E a \in Emails \ {e} : Live(a) /\ AdminRole \in roles[a]

\* An administrator goes only while there is another one, skew apart.
MayGo(e) ==
  \/ AdminRole \notin roles[e] /\ UNCHANGED skewed
  \/ AdminRole \in roles[e] /\ OtherAdmin(e) /\ UNCHANGED skewed
  \/ AdminRole \in roles[e] /\ skewed'

\* An address is used once, by registration, identity provider or seeding job.
Create(e) ==
  /\ status[e] = "absent"
  /\ status' = [status EXCEPT ![e] = "live"]
  /\ \E role \in {AdminRole, UserRole} : roles' = [roles EXCEPT ![e] = {role}]
  /\ UNCHANGED <<locked, subscribed, skewed>>

AssignRole(e, role) ==
  /\ Live(e)
  /\ roles' = [roles EXCEPT ![e] = @ \cup {role}]
  /\ UNCHANGED <<status, locked, subscribed, skewed>>

RemoveRole(e, role) ==
  /\ Live(e)
  /\ IF role = AdminRole THEN MayGo(e) ELSE UNCHANGED skewed
  /\ roles' = [roles EXCEPT ![e] = @ \ {role}]
  /\ UNCHANGED <<status, locked, subscribed>>

\* Locks take nobody's place: a locked administrator still counts.
Lock(e) ==
  /\ Live(e)
  /\ locked' = locked \cup {e}
  /\ UNCHANGED <<status, roles, subscribed, skewed>>

Unlock(e) ==
  /\ Live(e)
  /\ locked' = locked \ {e}
  /\ UNCHANGED <<status, roles, subscribed, skewed>>

Delete(e) ==
  /\ Live(e)
  /\ e \notin subscribed
  /\ MayGo(e)
  /\ status' = [status EXCEPT ![e] = "deleted"]
  /\ UNCHANGED <<roles, locked, subscribed>>

Subscribe(e) ==
  /\ Live(e)
  /\ subscribed' \in {subscribed \cup {e}, subscribed \ {e}}
  /\ UNCHANGED <<status, roles, locked, skewed>>

Next ==
  \E e \in Emails :
    \/ Create(e) \/ Lock(e) \/ Unlock(e) \/ Delete(e) \/ Subscribe(e)
    \/ \E role \in Roles : AssignRole(e, role) \/ RemoveRole(e, role)

Spec == Init /\ [][Next]_vars
=============================================================================
