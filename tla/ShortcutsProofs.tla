--------------------------- MODULE ShortcutsProofs ---------------------------
(***************************************************************************)
(* Proofs about Shortcuts, for any plans with any limits and any number of  *)
(* users, rows and requests: the limits are exceeded by the requests in     *)
(* flight at most, and what a plan pays for stays with who had that plan.   *)
(***************************************************************************)
EXTENDS Shortcuts, FiniteSetTheorems, TLAPS

USE SortsAssumption, PlansAssumption

\* The plan of an account, and the one a request has loaded, is one it has had.
PlansKnown ==
  /\ \A u \in Users : plan[u] \in hadPlans[u]
  /\ \A r \in Requests : req[r].loaded =>
       req[r].owner \in Users /\ req[r].plan \in hadPlans[req[r].owner]

\* Behind a check, a request asks for no more than the check lets pass.
Checked ==
  \A r \in Requests :
    /\ req[r].pc \in {"expirable", "password", "save"} /\ req[r].permanent => req[r].owner \in Users
    /\ req[r].pc \in {"password", "save"} /\ req[r].expires # Never => req[r].owner \in Users
    /\ req[r].pc = "save" /\ req[r].protected =>
         req[r].owner \in Users /\ \E p \in hadPlans[req[r].owner] : CanProtect[p]

IInv ==
  /\ TypeOK
  /\ PlansKnown
  /\ Checked
  /\ OnlyEntitled
  /\ BoundedPermanent
  /\ BoundedExpirable

-----------------------------------------------------------------------------
(* Counting. *)

\* Fewer shortcuts and fewer requests stay below a bound.
LEMMA Shrink ==
  ASSUME NEW A, NEW B, NEW A2, NEW B2, NEW n \in Nat,
         IsFiniteSet(A), IsFiniteSet(B), A2 \subseteq A, B2 \subseteq B,
         Cardinality(A) + Cardinality(B) < n
  PROVE  Cardinality(A2) + Cardinality(B2) < n
<1>1. /\ IsFiniteSet(A2) /\ Cardinality(A2) <= Cardinality(A)
      /\ IsFiniteSet(B2) /\ Cardinality(B2) <= Cardinality(B)
  BY FS_Subset
<1>. QED
  BY <1>1, FS_CardinalityType

\* A request that becomes a shortcut leaves the sum as it is.
LEMMA Move ==
  ASSUME NEW A, NEW B, NEW n \in Nat, NEW s, NEW r \in B,
         IsFiniteSet(A), IsFiniteSet(B), Cardinality(A) + Cardinality(B) < n
  PROVE  /\ IsFiniteSet(A \cup {s}) /\ IsFiniteSet(B \ {r})
         /\ Cardinality(A \cup {s}) + Cardinality(B \ {r}) < n
<1>1. IsFiniteSet(A \cup {s}) /\ Cardinality(A \cup {s}) <= Cardinality(A) + 1
  <2>1. /\ IsFiniteSet(A \cup {s})
        /\ Cardinality(A \cup {s}) = IF s \in A THEN Cardinality(A) ELSE Cardinality(A) + 1
    BY FS_AddElement
  <2>. QED
    BY <2>1, FS_CardinalityType
<1>2. IsFiniteSet(B \ {r}) /\ Cardinality(B \ {r}) = Cardinality(B) - 1
  BY FS_RemoveElement
<1>. QED
  BY <1>1, <1>2, FS_CardinalityType

\* Who finds a place left adds at most every request to what is there.
LEMMA Admit ==
  ASSUME NEW A, NEW B2, NEW R, NEW m \in Nat, IsFiniteSet(A), IsFiniteSet(R), B2 \subseteq R,
         Cardinality(A) < m
  PROVE  Cardinality(A) + Cardinality(B2) < m + Cardinality(R)
<1>1. Cardinality(B2) <= Cardinality(R) /\ IsFiniteSet(B2)
  BY FS_Subset
<1>. QED
  BY <1>1, FS_CardinalityType

\* What is counted are finite sets of rows and requests.
LEMMA Finite ==
  /\ Cardinality(Requests) \in Nat \ {0}
  /\ \A u : /\ IsFiniteSet(PermanentOf(u)) /\ IsFiniteSet(ExpirableOf(u))
            /\ IsFiniteSet(PendingPermanent(u)) /\ IsFiniteSet(PendingExpirable(u))
            /\ PendingPermanent(u) \subseteq Requests /\ PendingExpirable(u) \subseteq Requests
<1>1. Cardinality(Requests) \in Nat \ {0}
  BY FS_CardinalityType, FS_EmptySet
<1>2. ASSUME NEW u
      PROVE  /\ PermanentOf(u) \subseteq Ids /\ ExpirableOf(u) \subseteq Ids
             /\ PendingPermanent(u) \subseteq Requests /\ PendingExpirable(u) \subseteq Requests
  BY DEF PermanentOf, ExpirableOf, PendingPermanent, PendingExpirable
<1>. QED
  BY <1>1, <1>2, FS_Subset

\* The bound of permanent shortcuts is kept where they and their requests become
\* fewer, where a request was let in while there was a place, and where a request
\* becomes a shortcut.
LEMMA PermanentKept ==
  ASSUME IInv, \A u \in Users : hadPlans[u] \subseteq hadPlans'[u],
         \A u \in Users :
           \/ PermanentOf(u)' \subseteq PermanentOf(u) /\ PendingPermanent(u)' \subseteq PendingPermanent(u)
           \/ /\ PermanentOf(u)' \subseteq PermanentOf(u)
              /\ \E p \in hadPlans[u] : Cardinality(PermanentOf(u)) < MaxPermanent[p]
           \/ \E s \in Ids : \E r \in PendingPermanent(u) :
                /\ PermanentOf(u)' \subseteq PermanentOf(u) \cup {s}
                /\ PendingPermanent(u)' \subseteq PendingPermanent(u) \ {r}
  PROVE  BoundedPermanent'
<1>. SUFFICES ASSUME NEW u \in Users
              PROVE  \E p \in hadPlans'[u] :
                       Cardinality(PermanentOf(u)') + Cardinality(PendingPermanent(u)')
                         < MaxPermanent[p] + Cardinality(Requests)
  BY DEF BoundedPermanent
<1>1. \A p \in hadPlans[u] : /\ MaxPermanent[p] \in Nat /\ p \in hadPlans'[u]
                             /\ MaxPermanent[p] + Cardinality(Requests) \in Nat
  BY Finite DEF IInv, TypeOK
<1>2. PICK p \in hadPlans[u] : Cardinality(PermanentOf(u)) + Cardinality(PendingPermanent(u))
                                 < MaxPermanent[p] + Cardinality(Requests)
  BY DEF IInv, BoundedPermanent
<1>3. PendingPermanent(u)' \subseteq Requests
  BY DEF PendingPermanent
<1>4. CASE PermanentOf(u)' \subseteq PermanentOf(u) /\ PendingPermanent(u)' \subseteq PendingPermanent(u)
  <2>1. Cardinality(PermanentOf(u)') + Cardinality(PendingPermanent(u)')
          < MaxPermanent[p] + Cardinality(Requests)
    BY <1>1, <1>2, <1>4, Finite, Shrink
  <2>. QED
    BY <1>1, <2>1
<1>5. CASE /\ PermanentOf(u)' \subseteq PermanentOf(u)
           /\ \E x \in hadPlans[u] : Cardinality(PermanentOf(u)) < MaxPermanent[x]
  <2>1. PICK x \in hadPlans[u] : Cardinality(PermanentOf(u)) < MaxPermanent[x]
    BY <1>5
  <2>2. IsFiniteSet(PermanentOf(u)') /\ Cardinality(PermanentOf(u)') < MaxPermanent[x]
    <3>1. IsFiniteSet(PermanentOf(u)') /\ Cardinality(PermanentOf(u)') <= Cardinality(PermanentOf(u))
      BY <1>5, Finite, FS_Subset
    <3>. QED
      BY <1>1, <2>1, <3>1, Finite, FS_CardinalityType
  <2>3. Cardinality(PermanentOf(u)') + Cardinality(PendingPermanent(u)')
          < MaxPermanent[x] + Cardinality(Requests)
    BY <1>1, <1>3, <2>2, Admit
  <2>. QED
    BY <1>1, <2>3
<1>6. CASE \E s \in Ids : \E r \in PendingPermanent(u) :
             /\ PermanentOf(u)' \subseteq PermanentOf(u) \cup {s}
             /\ PendingPermanent(u)' \subseteq PendingPermanent(u) \ {r}
  <2>1. PICK s \in Ids, r \in PendingPermanent(u) :
          /\ PermanentOf(u)' \subseteq PermanentOf(u) \cup {s}
          /\ PendingPermanent(u)' \subseteq PendingPermanent(u) \ {r}
    BY <1>6
  <2>2. /\ IsFiniteSet(PermanentOf(u) \cup {s}) /\ IsFiniteSet(PendingPermanent(u) \ {r})
        /\ Cardinality(PermanentOf(u) \cup {s}) + Cardinality(PendingPermanent(u) \ {r})
             < MaxPermanent[p] + Cardinality(Requests)
    BY <1>1, <1>2, Finite, Move
  <2>3. Cardinality(PermanentOf(u)') + Cardinality(PendingPermanent(u)')
          < MaxPermanent[p] + Cardinality(Requests)
    BY <1>1, <2>1, <2>2, Shrink
  <2>. QED
    BY <1>1, <2>3
<1>. QED
  BY <1>4, <1>5, <1>6

\* The bound of expirable shortcuts is kept where they and their requests become
\* fewer, where a request was let in while there was a place, and where a request
\* becomes a shortcut.
LEMMA ExpirableKept ==
  ASSUME IInv, \A u \in Users : hadPlans[u] \subseteq hadPlans'[u],
         \A u \in Users :
           \/ ExpirableOf(u)' \subseteq ExpirableOf(u) /\ PendingExpirable(u)' \subseteq PendingExpirable(u)
           \/ /\ ExpirableOf(u)' \subseteq ExpirableOf(u)
              /\ \E p \in hadPlans[u] : Cardinality(ExpirableOf(u)) < MaxExpirable[p]
           \/ \E s \in Ids : \E r \in PendingExpirable(u) :
                /\ ExpirableOf(u)' \subseteq ExpirableOf(u) \cup {s}
                /\ PendingExpirable(u)' \subseteq PendingExpirable(u) \ {r}
  PROVE  BoundedExpirable'
<1>. SUFFICES ASSUME NEW u \in Users
              PROVE  \E p \in hadPlans'[u] :
                       Cardinality(ExpirableOf(u)') + Cardinality(PendingExpirable(u)')
                         < MaxExpirable[p] + Cardinality(Requests)
  BY DEF BoundedExpirable
<1>1. \A p \in hadPlans[u] : /\ MaxExpirable[p] \in Nat /\ p \in hadPlans'[u]
                             /\ MaxExpirable[p] + Cardinality(Requests) \in Nat
  BY Finite DEF IInv, TypeOK
<1>2. PICK p \in hadPlans[u] : Cardinality(ExpirableOf(u)) + Cardinality(PendingExpirable(u))
                                 < MaxExpirable[p] + Cardinality(Requests)
  BY DEF IInv, BoundedExpirable
<1>3. PendingExpirable(u)' \subseteq Requests
  BY DEF PendingExpirable
<1>4. CASE ExpirableOf(u)' \subseteq ExpirableOf(u) /\ PendingExpirable(u)' \subseteq PendingExpirable(u)
  <2>1. Cardinality(ExpirableOf(u)') + Cardinality(PendingExpirable(u)')
          < MaxExpirable[p] + Cardinality(Requests)
    BY <1>1, <1>2, <1>4, Finite, Shrink
  <2>. QED
    BY <1>1, <2>1
<1>5. CASE /\ ExpirableOf(u)' \subseteq ExpirableOf(u)
           /\ \E x \in hadPlans[u] : Cardinality(ExpirableOf(u)) < MaxExpirable[x]
  <2>1. PICK x \in hadPlans[u] : Cardinality(ExpirableOf(u)) < MaxExpirable[x]
    BY <1>5
  <2>2. IsFiniteSet(ExpirableOf(u)') /\ Cardinality(ExpirableOf(u)') < MaxExpirable[x]
    <3>1. IsFiniteSet(ExpirableOf(u)') /\ Cardinality(ExpirableOf(u)') <= Cardinality(ExpirableOf(u))
      BY <1>5, Finite, FS_Subset
    <3>. QED
      BY <1>1, <2>1, <3>1, Finite, FS_CardinalityType
  <2>3. Cardinality(ExpirableOf(u)') + Cardinality(PendingExpirable(u)')
          < MaxExpirable[x] + Cardinality(Requests)
    BY <1>1, <1>3, <2>2, Admit
  <2>. QED
    BY <1>1, <2>3
<1>6. CASE \E s \in Ids : \E r \in PendingExpirable(u) :
             /\ ExpirableOf(u)' \subseteq ExpirableOf(u) \cup {s}
             /\ PendingExpirable(u)' \subseteq PendingExpirable(u) \ {r}
  <2>1. PICK s \in Ids, r \in PendingExpirable(u) :
          /\ ExpirableOf(u)' \subseteq ExpirableOf(u) \cup {s}
          /\ PendingExpirable(u)' \subseteq PendingExpirable(u) \ {r}
    BY <1>6
  <2>2. /\ IsFiniteSet(ExpirableOf(u) \cup {s}) /\ IsFiniteSet(PendingExpirable(u) \ {r})
        /\ Cardinality(ExpirableOf(u) \cup {s}) + Cardinality(PendingExpirable(u) \ {r})
             < MaxExpirable[p] + Cardinality(Requests)
    BY <1>1, <1>2, Finite, Move
  <2>3. Cardinality(ExpirableOf(u)') + Cardinality(PendingExpirable(u)')
          < MaxExpirable[p] + Cardinality(Requests)
    BY <1>1, <2>1, <2>2, Shrink
  <2>. QED
    BY <1>1, <2>3
<1>. QED
  BY <1>4, <1>5, <1>6

\* A step after which there are no more shortcuts and requests of anybody than
\* before keeps both bounds.
LEMMA FewerKeepBounds ==
  ASSUME IInv, \A u \in Users : hadPlans[u] \subseteq hadPlans'[u],
         \A u \in Users : /\ PermanentOf(u)' \subseteq PermanentOf(u)
                          /\ PendingPermanent(u)' \subseteq PendingPermanent(u)
                          /\ ExpirableOf(u)' \subseteq ExpirableOf(u)
                          /\ PendingExpirable(u)' \subseteq PendingExpirable(u)
  PROVE  BoundedPermanent' /\ BoundedExpirable'
BY PermanentKept, ExpirableKept

-----------------------------------------------------------------------------
\* No shortcut, no request: IInv holds to begin with.
LEMMA InitIInv == Init => IInv
<1>. SUFFICES ASSUME Init PROVE IInv
  OBVIOUS
<1>1. TypeOK
  BY DEF Init, TypeOK, NoRow, NoReq, RowType, ReqType, Owners, Expiries
<1>2. PlansKnown /\ Checked /\ OnlyEntitled
  BY DEF Init, NoRow, NoReq, PlansKnown, Checked, OnlyEntitled
<1>3. \A u \in Users : /\ PermanentOf(u) = {} /\ ExpirableOf(u) = {}
                       /\ PendingPermanent(u) = {} /\ PendingExpirable(u) = {}
  BY DEF Init, NoRow, NoReq, PermanentOf, ExpirableOf, PendingPermanent, PendingExpirable, Valid
<1>4. BoundedPermanent /\ BoundedExpirable
  <2>1. \A u \in Users : hadPlans[u] = {FreePlan}
    BY DEF Init
  <2>2. Cardinality({}) = 0
    BY FS_EmptySet
  <2>3. MaxPermanent[FreePlan] \in Nat /\ MaxExpirable[FreePlan] \in Nat
    OBVIOUS
  <2>4. Cardinality({}) + Cardinality({}) < MaxPermanent[FreePlan] + Cardinality(Requests)
        /\ Cardinality({}) + Cardinality({}) < MaxExpirable[FreePlan] + Cardinality(Requests)
    BY <2>2, <2>3, Finite
  <2>. QED
    BY <1>3, <2>1, <2>4 DEF BoundedPermanent, BoundedExpirable
<1>. QED
  BY <1>1, <1>2, <1>4 DEF IInv

-----------------------------------------------------------------------------
(* Steps that let shortcuts and requests be, or let them go. *)

\* deleteByTag.
LEMMA DeleteByTagStep ==
  ASSUME IInv, NEW s \in Ids, DeleteByTag(s)
  PROVE  IInv'
<1>1. /\ rows \in [Ids -> RowType]
      /\ rows' = [rows EXCEPT ![s].state = "deleted"] /\ rows[s].state = "live"
      /\ UNCHANGED <<plan, gone, req, hadPlans>>
  BY DEF DeleteByTag, IInv, TypeOK
<1>2. \A x \in Ids : /\ rows'[x] \in RowType
                     /\ rows'[x].owner = rows[x].owner /\ rows'[x].expires = rows[x].expires
                     /\ rows'[x].permanent <=> rows[x].permanent
                     /\ rows'[x].protected <=> rows[x].protected
                     /\ rows'[x].state = "live" => rows[x].state = "live"
                     /\ rows'[x].state # "absent" => rows[x].state # "absent"
  BY <1>1 DEF RowType
<1>3. TypeOK'
  BY <1>1, <1>2 DEF IInv, TypeOK
<1>4. PlansKnown' /\ Checked'
  BY <1>1 DEF IInv, PlansKnown, Checked
<1>5. OnlyEntitled'
  BY <1>1, <1>2 DEF IInv, OnlyEntitled
<1>6. \A u \in Users : /\ PermanentOf(u)' \subseteq PermanentOf(u)
                       /\ PendingPermanent(u)' \subseteq PendingPermanent(u)
                       /\ ExpirableOf(u)' \subseteq ExpirableOf(u)
                       /\ PendingExpirable(u)' \subseteq PendingExpirable(u)
  BY <1>1, <1>2 DEF PermanentOf, PendingPermanent, ExpirableOf, PendingExpirable, Valid
<1>. QED
  BY <1>1, <1>3, <1>4, <1>5, <1>6, FewerKeepBounds DEF IInv

\* Another plan for an account, and the end of an account.
LEMMA AccountStep ==
  ASSUME IInv, NEW u \in Users, NEW p \in Plans, SetPlan(u, p) \/ DeleteAccount(u)
  PROVE  IInv'
<1>1. /\ UNCHANGED <<rows, req>>
      /\ plan' \in [Users -> Plans] /\ gone' \subseteq Users
      /\ hadPlans' \in [Users -> SUBSET Plans]
      /\ \A x \in Users : hadPlans[x] \subseteq hadPlans'[x] /\ plan'[x] \in hadPlans'[x]
  BY DEF SetPlan, DeleteAccount, IInv, TypeOK, PlansKnown
<1>2. TypeOK'
  BY <1>1 DEF IInv, TypeOK
<1>3. PlansKnown' /\ Checked'
  BY <1>1 DEF IInv, PlansKnown, Checked
<1>4. OnlyEntitled'
  <2>1. ASSUME NEW s \in Ids, rows[s].state # "absent", rows[s].protected
        PROVE  \E x \in hadPlans'[rows[s].owner] : CanProtect[x]
    <3>1. rows[s].owner \in Users
      BY <2>1 DEF IInv, OnlyEntitled, TypeOK, RowType, Owners
    <3>. QED
      BY <1>1, <2>1, <3>1 DEF IInv, OnlyEntitled
  <2>. QED
    BY <1>1, <2>1 DEF IInv, OnlyEntitled
<1>5. \A x \in Users : /\ PermanentOf(x)' \subseteq PermanentOf(x)
                       /\ PendingPermanent(x)' \subseteq PendingPermanent(x)
                       /\ ExpirableOf(x)' \subseteq ExpirableOf(x)
                       /\ PendingExpirable(x)' \subseteq PendingExpirable(x)
  BY <1>1 DEF PermanentOf, PendingPermanent, ExpirableOf, PendingExpirable, Valid
<1>. QED
  BY <1>1, <1>2, <1>3, <1>4, <1>5, FewerKeepBounds DEF IInv

\* Never is no point in time.
LEMMA LaterIs ==
  ASSUME NEW e \in Expiries
  PROVE  /\ Later(e) \in Expiries
         /\ Later(e) = Never <=> e = Never
         /\ e = 0 => Later(e) = 0
BY DEF Later, Expiries

\* Time passes.
LEMMA TickStep == IInv /\ Tick => IInv'
<1>. SUFFICES ASSUME IInv, Tick PROVE IInv'
  OBVIOUS
<1>1. /\ rows \in [Ids -> RowType] /\ req \in [Requests -> ReqType]
      /\ rows' = [s \in Ids |-> [rows[s] EXCEPT !.expires = Later(@)]]
      /\ req' = [r \in Requests |-> [req[r] EXCEPT !.expires = Later(@)]]
      /\ UNCHANGED <<plan, gone, hadPlans>>
  BY DEF Tick, IInv, TypeOK
<1>2. ASSUME NEW s \in Ids
      PROVE  /\ rows'[s] \in RowType
             /\ rows'[s].state = rows[s].state /\ rows'[s].owner = rows[s].owner
             /\ rows'[s].permanent <=> rows[s].permanent
             /\ rows'[s].protected <=> rows[s].protected
             /\ rows'[s].expires = Never <=> rows[s].expires = Never
             /\ rows[s].expires = 0 => rows'[s].expires = 0
  BY <1>1, LaterIs DEF RowType
<1>3. ASSUME NEW r \in Requests
      PROVE  /\ req'[r] \in ReqType
             /\ req'[r].pc = req[r].pc /\ req'[r].owner = req[r].owner
             /\ req'[r].permanent <=> req[r].permanent
             /\ req'[r].protected <=> req[r].protected
             /\ req'[r].loaded <=> req[r].loaded
             /\ req'[r].plan = req[r].plan
             /\ req'[r].expires = Never <=> req[r].expires = Never
             /\ req[r].expires = 0 => req'[r].expires = 0
  BY <1>1, LaterIs DEF ReqType
<1>4. TypeOK'
  BY <1>1, <1>2, <1>3 DEF IInv, TypeOK
<1>5. PlansKnown' /\ Checked'
  BY <1>1, <1>3 DEF IInv, PlansKnown, Checked
<1>6. OnlyEntitled'
  <2>1. hadPlans' = hadPlans
    BY <1>1
  <2>. SUFFICES ASSUME NEW s \in Ids, rows'[s].state # "absent"
                PROVE  LET o == rows'[s].owner IN
                         /\ o = Anonymous => /\ ~rows'[s].permanent /\ ~rows'[s].protected
                                             /\ rows'[s].expires = Never
                         /\ rows'[s].protected => \E p \in hadPlans[o] : CanProtect[p]
                         /\ rows'[s].permanent => rows'[s].expires = Never
    BY <2>1 DEF OnlyEntitled
  <2>. QED
    BY <1>2 DEF IInv, OnlyEntitled
<1>7. \A u \in Users : /\ PermanentOf(u)' \subseteq PermanentOf(u)
                       /\ ExpirableOf(u)' \subseteq ExpirableOf(u)
  BY <1>2 DEF PermanentOf, ExpirableOf, Valid
<1>8. \A u \in Users : /\ PendingPermanent(u)' \subseteq PendingPermanent(u)
                       /\ PendingExpirable(u)' \subseteq PendingExpirable(u)
  BY <1>3 DEF PendingPermanent, PendingExpirable
<1>. QED
  BY <1>1, <1>4, <1>5, <1>6, <1>7, <1>8, FewerKeepBounds DEF IInv

-----------------------------------------------------------------------------
(* Steps of a creation. *)

\* An idle request has not been there before.
LEMMA NoReqIs == NoReq \in ReqType /\ NoReq.pc = "idle" /\ ~NoReq.loaded
BY DEF NoReq, ReqType, Owners, Expiries

\* A request arrives.
LEMMA SubmitStep ==
  ASSUME IInv, NEW r \in Requests, NEW o \in Owners, NEW p \in Payloads, Submit(r, o, p)
  PROVE  IInv'
<1>. DEFINE q == [NoReq EXCEPT !.pc = "permanent", !.owner = o, !.permanent = p.permanent,
                               !.protected = p.protected, !.expires = p.expires]
<1>1. /\ p.permanent \in BOOLEAN /\ p.protected \in BOOLEAN /\ p.expires \in Expiries
      /\ req \in [Requests -> ReqType] /\ req' = [req EXCEPT ![r] = q]
      /\ UNCHANGED <<rows, plan, gone, hadPlans>>
  BY DEF Submit, IInv, TypeOK, Payloads, Expiries
<1>2. q \in ReqType /\ q.pc = "permanent" /\ ~q.loaded
  BY <1>1 DEF NoReq, ReqType
<1>. HIDE DEF q
<1>3. req'[r] = q /\ \A x \in Requests : x # r => req'[x] = req[x]
  BY <1>1
<1>4. TypeOK'
  BY <1>1, <1>2 DEF IInv, TypeOK
<1>5. PlansKnown' /\ Checked'
  BY <1>1, <1>2, <1>3 DEF IInv, PlansKnown, Checked
<1>6. OnlyEntitled'
  BY <1>1 DEF IInv, OnlyEntitled
<1>7. \A u \in Users : /\ PermanentOf(u)' \subseteq PermanentOf(u)
                       /\ PendingPermanent(u)' \subseteq PendingPermanent(u)
                       /\ ExpirableOf(u)' \subseteq ExpirableOf(u)
                       /\ PendingExpirable(u)' \subseteq PendingExpirable(u)
  BY <1>1, <1>2, <1>3 DEF PermanentOf, PendingPermanent, ExpirableOf, PendingExpirable, Valid
<1>. QED
  BY <1>1, <1>4, <1>5, <1>6, <1>7, FewerKeepBounds DEF IInv

\* The plan that a check of an account goes by is one the account has had.
LEMMA PlanSeenIs ==
  ASSUME IInv, NEW r \in Requests, HasAccount(req[r].owner)
  PROVE  /\ req[r].owner \in Users
         /\ PlanSeen(req[r]) \in hadPlans[req[r].owner] /\ PlanSeen(req[r]) \in Plans
BY DEF IInv, TypeOK, PlansKnown, HasAccount, PlanSeen, ReqType

\* What a check leaves of a request, whatever it checks.
CheckLeaves(r, asked, allowed, next) ==
  /\ TypeOK' /\ PlansKnown'
  /\ UNCHANGED <<rows, plan, gone, hadPlans>>
  /\ \A x \in Requests : x # r => req'[x] = req[x]
  /\ \/ asked /\ ~allowed /\ req'[r].pc = "idle"
     \/ /\ ~asked \/ allowed
        /\ req'[r].pc = next /\ req'[r].owner = req[r].owner
        /\ req'[r].permanent <=> req[r].permanent
        /\ req'[r].protected <=> req[r].protected
        /\ req'[r].expires = req[r].expires

LEMMA CheckIs ==
  ASSUME IInv, NEW r \in Requests, NEW at, NEW asked, NEW allowed,
         NEW next \in {"expirable", "password", "save"},
         Check(r, at, asked, allowed, next),
         allowed => HasAccount(req[r].owner)
  PROVE  CheckLeaves(r, asked, allowed, next)
<1>. DEFINE skip == [req[r] EXCEPT !.pc = next]
            pass == [req[r] EXCEPT !.pc = next, !.loaded = TRUE, !.plan = PlanSeen(req[r])]
            q == IF ~asked THEN skip ELSE IF allowed THEN pass ELSE NoReq
<1>1. /\ req \in [Requests -> ReqType] /\ req[r] \in ReqType /\ req[r].pc = at
      /\ req' = [req EXCEPT ![r] = q]
      /\ UNCHANGED <<rows, plan, gone, hadPlans>>
  BY DEF Check, IInv, TypeOK
<1>2. /\ skip \in ReqType /\ skip.pc = next /\ skip.owner = req[r].owner
      /\ (skip.permanent <=> req[r].permanent) /\ (skip.protected <=> req[r].protected)
      /\ skip.expires = req[r].expires
      /\ (skip.loaded <=> req[r].loaded) /\ skip.plan = req[r].plan
  BY <1>1 DEF ReqType
<1>3. allowed => /\ pass \in ReqType /\ pass.pc = next /\ pass.owner = req[r].owner
                 /\ (pass.permanent <=> req[r].permanent) /\ (pass.protected <=> req[r].protected)
                 /\ pass.expires = req[r].expires
                 /\ pass.owner \in Users /\ pass.plan \in hadPlans[pass.owner]
  <2>. SUFFICES ASSUME allowed PROVE /\ pass \in ReqType /\ pass.pc = next /\ pass.owner = req[r].owner
                 /\ (pass.permanent <=> req[r].permanent) /\ (pass.protected <=> req[r].protected)
                 /\ pass.expires = req[r].expires
                 /\ pass.owner \in Users /\ pass.plan \in hadPlans[pass.owner]
    OBVIOUS
  <2>1. /\ req[r].owner \in Users
        /\ PlanSeen(req[r]) \in hadPlans[req[r].owner] /\ PlanSeen(req[r]) \in Plans
    BY PlanSeenIs
  <2>. QED
    BY <1>1, <2>1 DEF ReqType
<1>. HIDE DEF skip, pass
<1>4. q \in ReqType
  BY <1>2, <1>3, NoReqIs
<1>5. q.loaded => q.owner \in Users /\ q.plan \in hadPlans[q.owner]
  BY <1>2, <1>3, NoReqIs DEF IInv, PlansKnown
<1>6. req'[r] = q /\ \A x \in Requests : x # r => req'[x] = req[x]
  BY <1>1
<1>7. TypeOK'
  BY <1>1, <1>4 DEF IInv, TypeOK
<1>8. PlansKnown'
  BY <1>1, <1>5, <1>6 DEF IInv, PlansKnown
<1>9. \/ asked /\ ~allowed /\ q.pc = "idle"
      \/ /\ ~asked \/ allowed
         /\ q.pc = next /\ q.owner = req[r].owner
         /\ q.permanent <=> req[r].permanent
         /\ q.protected <=> req[r].protected
         /\ q.expires = req[r].expires
  BY <1>2, <1>3, NoReqIs
<1>. QED
  BY <1>1, <1>6, <1>7, <1>8, <1>9 DEF CheckLeaves

\* The check of permanent shortcuts lets a request in while there is a place.
LEMMA CheckPermanentStep ==
  ASSUME IInv, NEW r \in Requests, CheckPermanent(r)
  PROVE  IInv'
<1>. DEFINE o == req[r].owner
            asked == req[r].permanent
            allowed == MayCreatePermanent(req[r])
<1>1. asked \in BOOLEAN /\ allowed \in BOOLEAN /\ (allowed => HasAccount(o))
  BY DEF IInv, TypeOK, ReqType, MayCreatePermanent
<1>2. Check(r, "permanent", asked, allowed, "expirable")
  BY DEF CheckPermanent
<1>3. /\ TypeOK' /\ PlansKnown'
      /\ UNCHANGED <<rows, plan, gone, hadPlans>>
      /\ req[r].pc = "permanent"
      /\ \A x \in Requests : x # r => req'[x] = req[x]
      /\ \/ asked /\ ~allowed /\ req'[r].pc = "idle"
         \/ /\ ~asked \/ allowed
            /\ req'[r].pc = "expirable" /\ req'[r].owner = o
            /\ req'[r].permanent <=> asked
            /\ req'[r].protected <=> req[r].protected
            /\ req'[r].expires = req[r].expires
  <2>1. CheckLeaves(r, asked, allowed, "expirable")
    BY <1>1, <1>2, CheckIs
  <2>2. req[r].pc = "permanent"
    BY DEF CheckPermanent, Check
  <2>. QED
    BY <2>1, <2>2 DEF CheckLeaves
<1>4. allowed => o \in Users /\ \E p \in hadPlans[o] :
                   p \in Plans /\ Cardinality(PermanentOf(o)) < MaxPermanent[p]
  BY PlanSeenIs DEF MayCreatePermanent
<1>. HIDE DEF allowed
<1>5. Checked'
  BY <1>3, <1>4 DEF IInv, Checked
<1>6. OnlyEntitled'
  BY <1>3 DEF IInv, OnlyEntitled
<1>7. \A u \in Users : /\ PermanentOf(u)' = PermanentOf(u) /\ ExpirableOf(u)' = ExpirableOf(u)
                       /\ PendingExpirable(u)' \subseteq PendingExpirable(u)
                       /\ ~(allowed /\ u = o) => PendingPermanent(u)' \subseteq PendingPermanent(u)
  BY <1>3 DEF PermanentOf, ExpirableOf, PendingExpirable, PendingPermanent, Valid
<1>8. BoundedPermanent'
  BY <1>3, <1>4, <1>7, PermanentKept
<1>9. BoundedExpirable'
  BY <1>3, <1>7, ExpirableKept
<1>. QED
  BY <1>3, <1>5, <1>6, <1>8, <1>9 DEF IInv

\* The check of expirable shortcuts does the same.
LEMMA CheckExpirableStep ==
  ASSUME IInv, NEW r \in Requests, CheckExpirable(r)
  PROVE  IInv'
<1>. DEFINE o == req[r].owner
            asked == req[r].expires # Never
            allowed == MayCreateExpirable(req[r])
<1>1. asked \in BOOLEAN /\ allowed \in BOOLEAN /\ (allowed => HasAccount(o))
  BY DEF MayCreateExpirable
<1>2. Check(r, "expirable", asked, allowed, "password")
  BY DEF CheckExpirable
<1>3. /\ TypeOK' /\ PlansKnown'
      /\ UNCHANGED <<rows, plan, gone, hadPlans>>
      /\ req[r].pc = "expirable"
      /\ \A x \in Requests : x # r => req'[x] = req[x]
      /\ \/ asked /\ ~allowed /\ req'[r].pc = "idle"
         \/ /\ ~asked \/ allowed
            /\ req'[r].pc = "password" /\ req'[r].owner = o
            /\ req'[r].permanent <=> req[r].permanent
            /\ req'[r].protected <=> req[r].protected
            /\ req'[r].expires = req[r].expires
  <2>1. CheckLeaves(r, asked, allowed, "password")
    BY <1>1, <1>2, CheckIs
  <2>2. req[r].pc = "expirable"
    BY DEF CheckExpirable, Check
  <2>. QED
    BY <2>1, <2>2 DEF CheckLeaves
<1>4. allowed => o \in Users /\ \E p \in hadPlans[o] :
                   p \in Plans /\ Cardinality(ExpirableOf(o)) < MaxExpirable[p]
  BY PlanSeenIs DEF MayCreateExpirable
<1>. HIDE DEF allowed
<1>5. Checked'
  BY <1>3, <1>4 DEF IInv, Checked
<1>6. OnlyEntitled'
  BY <1>3 DEF IInv, OnlyEntitled
<1>7. \A u \in Users : /\ PermanentOf(u)' = PermanentOf(u) /\ ExpirableOf(u)' = ExpirableOf(u)
                       /\ PendingPermanent(u)' \subseteq PendingPermanent(u)
                       /\ ~(allowed /\ u = o) => PendingExpirable(u)' \subseteq PendingExpirable(u)
  BY <1>3 DEF PermanentOf, ExpirableOf, PendingExpirable, PendingPermanent, Valid
<1>8. BoundedPermanent'
  BY <1>3, <1>7, PermanentKept
<1>9. BoundedExpirable'
  BY <1>3, <1>4, <1>7, ExpirableKept
<1>. QED
  BY <1>3, <1>5, <1>6, <1>8, <1>9 DEF IInv

\* The check of the password counts nothing.
LEMMA CheckPasswordStep ==
  ASSUME IInv, NEW r \in Requests, CheckPassword(r)
  PROVE  IInv'
<1>. DEFINE o == req[r].owner
            asked == req[r].protected
            allowed == MayCreateProtected(req[r])
<1>1. asked \in BOOLEAN /\ allowed \in BOOLEAN /\ (allowed => HasAccount(o))
  BY DEF IInv, TypeOK, ReqType, MayCreateProtected
<1>2. Check(r, "password", asked, allowed, "save")
  BY DEF CheckPassword
<1>3. /\ TypeOK' /\ PlansKnown'
      /\ UNCHANGED <<rows, plan, gone, hadPlans>>
      /\ req[r].pc = "password"
      /\ \A x \in Requests : x # r => req'[x] = req[x]
      /\ \/ asked /\ ~allowed /\ req'[r].pc = "idle"
         \/ /\ ~asked \/ allowed
            /\ req'[r].pc = "save" /\ req'[r].owner = o
            /\ req'[r].permanent <=> req[r].permanent
            /\ req'[r].protected <=> asked
            /\ req'[r].expires = req[r].expires
  <2>1. CheckLeaves(r, asked, allowed, "save")
    BY <1>1, <1>2, CheckIs
  <2>2. req[r].pc = "password"
    BY DEF CheckPassword, Check
  <2>. QED
    BY <2>1, <2>2 DEF CheckLeaves
<1>4. allowed => o \in Users /\ \E p \in hadPlans[o] : CanProtect[p]
  BY PlanSeenIs DEF MayCreateProtected
<1>. HIDE DEF allowed
<1>5. Checked'
  BY <1>3, <1>4 DEF IInv, Checked
<1>6. OnlyEntitled'
  BY <1>3 DEF IInv, OnlyEntitled
<1>7. \A u \in Users : /\ PermanentOf(u)' \subseteq PermanentOf(u)
                       /\ PendingPermanent(u)' \subseteq PendingPermanent(u)
                       /\ ExpirableOf(u)' \subseteq ExpirableOf(u)
                       /\ PendingExpirable(u)' \subseteq PendingExpirable(u)
  BY <1>3 DEF PermanentOf, ExpirableOf, PendingExpirable, PendingPermanent, Valid
<1>. QED
  BY <1>3, <1>5, <1>6, <1>7, FewerKeepBounds DEF IInv

\* The insert: a request turns into a shortcut.
LEMMA SaveStep ==
  ASSUME IInv, NEW r \in Requests, NEW s \in Ids, Save(r, s)
  PROVE  IInv'
<1>. DEFINE n == [state |-> "live", owner |-> req[r].owner, permanent |-> req[r].permanent,
                  protected |-> req[r].protected,
                  expires |-> IF req[r].permanent THEN Never ELSE req[r].expires]
<1>1. /\ rows \in [Ids -> RowType] /\ req \in [Requests -> ReqType]
      /\ req[r].pc = "save" /\ rows[s].state = "absent"
      /\ rows' = [rows EXCEPT ![s] = n] /\ req' = [req EXCEPT ![r] = NoReq]
      /\ UNCHANGED <<plan, gone, hadPlans>>
  BY DEF Save, IInv, TypeOK
<1>2. /\ n \in RowType /\ n.state = "live" /\ n.owner = req[r].owner
      /\ n.permanent <=> req[r].permanent
      /\ n.protected <=> req[r].protected
      /\ n.permanent => n.expires = Never
      /\ ~n.permanent => n.expires = req[r].expires
  BY <1>1 DEF RowType, ReqType, Expiries
<1>. HIDE DEF n
<1>3. /\ rows'[s] = n /\ \A x \in Ids : x # s => rows'[x] = rows[x]
      /\ req'[r] = NoReq /\ \A x \in Requests : x # r => req'[x] = req[x]
  BY <1>1
<1>4. TypeOK'
  BY <1>1, <1>2, NoReqIs DEF IInv, TypeOK
<1>5. PlansKnown' /\ Checked'
  BY <1>1, <1>3, NoReqIs DEF IInv, PlansKnown, Checked
<1>6. /\ n.owner = Anonymous => ~n.permanent /\ ~n.protected /\ n.expires = Never
      /\ n.protected => \E p \in hadPlans[n.owner] : CanProtect[p]
  BY <1>1, <1>2 DEF IInv, Checked
<1>7. OnlyEntitled'
  BY <1>1, <1>2, <1>3, <1>6 DEF IInv, OnlyEntitled
<1>8. ASSUME NEW u \in Users
      PROVE  \/ /\ PermanentOf(u)' \subseteq PermanentOf(u)
                /\ PendingPermanent(u)' \subseteq PendingPermanent(u)
             \/ /\ r \in PendingPermanent(u)
                /\ PermanentOf(u)' \subseteq PermanentOf(u) \cup {s}
                /\ PendingPermanent(u)' \subseteq PendingPermanent(u) \ {r}
  BY <1>1, <1>2, <1>3, NoReqIs DEF PermanentOf, PendingPermanent, Valid
<1>9. ASSUME NEW u \in Users
      PROVE  \/ /\ ExpirableOf(u)' \subseteq ExpirableOf(u)
                /\ PendingExpirable(u)' \subseteq PendingExpirable(u)
             \/ /\ r \in PendingExpirable(u)
                /\ ExpirableOf(u)' \subseteq ExpirableOf(u) \cup {s}
                /\ PendingExpirable(u)' \subseteq PendingExpirable(u) \ {r}
  BY <1>1, <1>2, <1>3, NoReqIs DEF ExpirableOf, PendingExpirable, Valid
<1>10. BoundedPermanent'
  BY <1>1, <1>8, PermanentKept
<1>11. BoundedExpirable'
  BY <1>1, <1>9, ExpirableKept
<1>. QED
  BY <1>4, <1>5, <1>7, <1>10, <1>11 DEF IInv

\* Nothing happens, or the clean-up job fails.
LEMMA StutterStep == IInv /\ UNCHANGED vars => IInv'
<1>. SUFFICES ASSUME IInv, UNCHANGED vars PROVE IInv'
  OBVIOUS
<1>1. TypeOK' /\ PlansKnown' /\ Checked' /\ OnlyEntitled'
  BY DEF IInv, vars, TypeOK, PlansKnown, Checked, OnlyEntitled
<1>2. \A u \in Users : /\ PermanentOf(u)' \subseteq PermanentOf(u)
                       /\ PendingPermanent(u)' \subseteq PendingPermanent(u)
                       /\ ExpirableOf(u)' \subseteq ExpirableOf(u)
                       /\ PendingExpirable(u)' \subseteq PendingExpirable(u)
  BY DEF vars, PermanentOf, ExpirableOf, PendingExpirable, PendingPermanent, Valid
<1>. QED
  BY <1>1, <1>2, FewerKeepBounds DEF IInv, vars

-----------------------------------------------------------------------------
\* IInv holds in every reachable state.
THEOREM InductiveInvariant == Spec => []IInv
<1>1. Init => IInv
  BY InitIInv
<1>2. IInv /\ [Next]_vars => IInv'
  <2>. SUFFICES ASSUME IInv, [Next]_vars PROVE IInv'
    OBVIOUS
  <2>1. ASSUME NEW r \in Requests, Step(r) PROVE IInv'
    BY <2>1, CheckPermanentStep, CheckExpirableStep, CheckPasswordStep, SaveStep DEF Step
  <2>2. ASSUME NEW u \in Users, DeleteAccount(u) PROVE IInv'
    BY <2>2, AccountStep DEF IInv, TypeOK
  <2>. QED
    BY <2>1, <2>2, SubmitStep, DeleteByTagStep, AccountStep, TickStep, StutterStep
       DEF Next, CleanUp
<1>. QED
  BY <1>1, <1>2, PTL DEF Spec

\* Every variable keeps its type.
THEOREM TypeCorrect == Spec => []TypeOK
<1>1. IInv => TypeOK
  BY DEF IInv
<1>. QED
  BY <1>1, InductiveInvariant, PTL

\* create and its checks: the limit of permanent shortcuts is exceeded by fewer
\* than the requests there are.
THEOREM PermanentBounded == Spec => []BoundedPermanent
<1>1. IInv => BoundedPermanent
  BY DEF IInv
<1>. QED
  BY <1>1, InductiveInvariant, PTL

\* The limit of expirable shortcuts likewise.
THEOREM ExpirableBounded == Spec => []BoundedExpirable
<1>1. IInv => BoundedExpirable
  BY DEF IInv
<1>. QED
  BY <1>1, InductiveInvariant, PTL

\* What a plan pays for belongs to an account that has had such a plan.
THEOREM EntitledOnly == Spec => []OnlyEntitled
<1>1. IInv => OnlyEntitled
  BY DEF IInv
<1>. QED
  BY <1>1, InductiveInvariant, PTL

\* Deleted and expired shortcuts are never found again, nor their tags given away.
THEOREM GoneForGood == Spec => StaysGone
<1>1. TypeOK /\ [Next]_vars =>
        [\A s \in Ids : rows[s].state # "absent" /\ ~Valid(s)
           => ~Valid(s)' /\ rows'[s].owner = rows[s].owner]_vars
  <2>. SUFFICES ASSUME TypeOK, [Next]_vars, NEW s \in Ids, rows[s].state # "absent", ~Valid(s)
                PROVE  ~Valid(s)' /\ rows'[s].owner = rows[s].owner
    OBVIOUS
  <2>1. rows \in [Ids -> RowType]
    BY DEF TypeOK
  <2>2. CASE rows'[s] = rows[s]
    BY <2>2 DEF Valid
  <2>3. ASSUME NEW r \in Requests, NEW x \in Ids, Save(r, x) PROVE rows'[s] = rows[s]
    BY <2>1, <2>3 DEF Save
  <2>4. ASSUME NEW x \in Ids, DeleteByTag(x) PROVE ~Valid(s)' /\ rows'[s].owner = rows[s].owner
    BY <2>1, <2>4 DEF DeleteByTag, Valid, RowType
  <2>5. ASSUME Tick PROVE ~Valid(s)' /\ rows'[s].owner = rows[s].owner
    BY <2>1, <2>5, LaterIs DEF Tick, Valid, RowType
  <2>. QED
    BY <2>2, <2>3, <2>4, <2>5
       DEF Next, vars, Step, Check, CheckPermanent, CheckExpirable, CheckPassword, Submit, CleanUp,
           SetPlan, DeleteAccount
<1>. QED
  BY <1>1, TypeCorrect, PTL DEF Spec, StaysGone
=============================================================================
