--------------------------- MODULE RefreshTokens ---------------------------
(***************************************************************************)
(* The refresh tokens of OpaqueTokenProvider and the request that exchanges *)
(* one.  A token is a Redis key that expires; exchanging it mints a         *)
(* successor, leaves a short-lived reference from the old token to the new  *)
(* one (the grace window) and deletes the old key, under a Redis lock named *)
(* after the old token.  Every Redis command is one step, so the requests   *)
(* of several application instances interleave between commands; an         *)
(* instance may crash between two commands, and the lock is a lease that    *)
(* Redis withdraws whether or not its holder is done.                       *)
(*                                                                         *)
(* Time is measured in ticks.  A key holds the ticks it has left, 0 when it *)
(* does not exist, so that time itself needs no bound.                      *)
(***************************************************************************)
EXTENDS Integers, FiniteSets

CONSTANTS
  Tokens,       \* the raw tokens SecureRandom may draw
  Requests,     \* refresh requests being served, each by an instance of its own
  NoToken,      \* no raw token
  NoRequest,    \* a free lock
  TokenTTL,     \* attoly.security.token.refresh.expires-in
  GraceWindow,  \* GRACE_WINDOW_SECONDS
  LeaseTime,    \* RELEASE_TIME_DURATION
  MaxCrashes,   \* bound: instances lost in the middle of a request
  CanOverrun    \* whether a request may be suspended for longer than its lease

ASSUME SortsAssumption ==
  /\ NoToken \notin Tokens
  /\ NoRequest \notin Requests
  /\ IsFiniteSet(Tokens) /\ IsFiniteSet(Requests)

\* Two hours, ten seconds and thirty seconds in the code.
ASSUME TimesAssumption ==
  /\ GraceWindow \in Nat \ {0}
  /\ LeaseTime \in Nat \ {0}
  /\ TokenTTL \in Nat
  /\ TokenTTL > LeaseTime + GraceWindow

ASSUME BoundsAssumption == MaxCrashes \in Nat /\ CanOverrun \in BOOLEAN

VARIABLES
  store,      \* attoly:refresh-token:<t>, the ticks the key has left
  linkTo,     \* attoly:refresh-token:rotated:<t>, the successor it names
  linkTTL,    \* ... and the ticks that key has left
  holder,     \* attoly:lock:refresh-token-exchange:<t>, whose lock it is
  lease,      \* ... and the ticks that key has left
  pc,         \* the command each request issues next
  tok,        \* the rawToken each request presented
  cur,        \* the token validateToken is looking at
  new,        \* the token the request will answer with
  issued,     \* history: tokens drawn so far
  parent,     \* history: the token a successor was minted for
  published,  \* history: tokens minted by a login or named by a rotated key
  known,      \* history: tokens some client received in an answer
  disturbed,  \* history: tokens whose exchange was cut between its writes
  crashes     \* history: crashes so far

redis   == <<store, linkTo, linkTTL, holder, lease>>
local   == <<pc, tok, cur, new>>
history == <<issued, parent, published, known, disturbed, crashes>>
vars    == <<store, linkTo, linkTTL, holder, lease, pc, tok, cur, new,
             issued, parent, published, known, disturbed, crashes>>

-----------------------------------------------------------------------------
(* Where a request can be. *)

\* validateToken called by RefreshTokenAuthenticationProvider, before the lock
Checking == {"CheckKey", "CheckLink"}
\* exchange, from the first read under the lock to the last write
Exchanging == {"ReadLink", "ReadPrincipal", "Build", "SetLink", "Delete"}
\* validateToken called by exchange on the successor of the presented token
Following == {"FollowKey", "FollowLink"}
\* the callable of executeLocked and the unlock in its finally block
Critical == Exchanging \cup Following \cup {"Unlock"}

PC == {"Idle", "Lock"} \cup Checking \cup Critical

TypeOK ==
  /\ store \in [Tokens -> 0..TokenTTL]
  /\ linkTo \in [Tokens -> Tokens \cup {NoToken}]
  /\ linkTTL \in [Tokens -> 0..GraceWindow]
  /\ holder \in [Tokens -> Requests \cup {NoRequest}]
  /\ lease \in [Tokens -> 0..LeaseTime]
  /\ pc \in [Requests -> PC]
  /\ tok \in [Requests -> Tokens \cup {NoToken}]
  /\ cur \in [Requests -> Tokens \cup {NoToken}]
  /\ new \in [Requests -> Tokens \cup {NoToken}]
  /\ issued \subseteq Tokens
  /\ parent \in [Tokens -> Tokens \cup {NoToken}]
  /\ published \subseteq Tokens
  /\ known \subseteq Tokens
  /\ disturbed \subseteq Tokens
  /\ crashes \in 0..MaxCrashes

Init ==
  /\ store = [t \in Tokens |-> 0]
  /\ linkTo = [t \in Tokens |-> NoToken]
  /\ linkTTL = [t \in Tokens |-> 0]
  /\ holder = [t \in Tokens |-> NoRequest]
  /\ lease = [t \in Tokens |-> 0]
  /\ pc = [r \in Requests |-> "Idle"]
  /\ tok = [r \in Requests |-> NoToken]
  /\ cur = [r \in Requests |-> NoToken]
  /\ new = [r \in Requests |-> NoToken]
  /\ issued = {}
  /\ parent = [t \in Tokens |-> NoToken]
  /\ published = {}
  /\ known = {}
  /\ disturbed = {}
  /\ crashes = 0

\* Bound: an exchange is admitted only while a fresh token is left for it and
\* for every request already admitted, so that the pool never stops a request.
Reserve == Cardinality(Tokens \ issued)
             > Cardinality({r \in Requests : pc[r] # "Idle"})

Goto(r, p) == pc' = [pc EXCEPT ![r] = p]

\* The request is over: its thread keeps nothing.
Finish(r) ==
  /\ Goto(r, "Idle")
  /\ tok' = [tok EXCEPT ![r] = NoToken]
  /\ cur' = [cur EXCEPT ![r] = NoToken]
  /\ new' = [new EXCEPT ![r] = NoToken]

\* Mutant of BuildToken: a token that lives as long as a rotated key.
BuildShortToken(n) ==
  /\ n \in Tokens \ issued
  /\ store' = [store EXCEPT ![n] = GraceWindow]
  /\ issued' = issued \cup {n}

\* buildToken: a fresh key for the whole lifetime.
BuildToken(n) ==
  /\ n \in Tokens \ issued
  /\ store' = [store EXCEPT ![n] = TokenTTL]
  /\ issued' = issued \cup {n}

-----------------------------------------------------------------------------
(* Requests.  A login needs one Redis command and is a single step. *)

Login(n) ==
  /\ Reserve
  /\ BuildToken(n)
  /\ published' = published \cup {n}
  /\ known' = known \cup {n}
  /\ UNCHANGED <<linkTo, linkTTL, holder, lease, local, parent, disturbed, crashes>>

\* A client presents any token it was ever given, as often as it likes.
Present(r, t) ==
  /\ pc[r] = "Idle"
  /\ t \in known
  /\ Reserve
  /\ Goto(r, "CheckKey")
  /\ tok' = [tok EXCEPT ![r] = t]
  /\ cur' = [cur EXCEPT ![r] = t]
  /\ UNCHANGED <<redis, new, history>>

\* authenticate: validateToken reads the storage key; once it finds one the
\* principal is loaded and the success handler goes for the lock.
CheckKey(r) ==
  /\ pc[r] = "CheckKey"
  /\ Goto(r, IF store[cur[r]] > 0 THEN "Lock" ELSE "CheckLink")
  /\ UNCHANGED <<redis, tok, cur, new, history>>

\* Mutant of CheckLink: a token without a key of its own is not followed.
CheckNoLink(r) ==
  /\ pc[r] = "CheckLink"
  /\ Finish(r)
  /\ UNCHANGED <<redis, history>>

\* ... otherwise the rotated key, and the same again for the token it names.
CheckLink(r) ==
  /\ pc[r] = "CheckLink"
  /\ \/ /\ linkTTL[cur[r]] > 0
        /\ cur' = [cur EXCEPT ![r] = linkTo[cur[r]]]
        /\ Goto(r, "CheckKey")
        /\ UNCHANGED <<tok, new>>
     \/ /\ linkTTL[cur[r]] = 0
        /\ Finish(r)
  /\ UNCHANGED <<redis, history>>

\* The account of the token's principal is gone: loadUserByUsername throws.
PrincipalGone(r) ==
  /\ pc[r] = "Lock"
  /\ Finish(r)
  /\ UNCHANGED <<redis, history>>

\* Mutant of Acquire: the callable runs without waiting for the lock.
AcquireAnyway(r) ==
  /\ pc[r] = "Lock"
  /\ holder' = [holder EXCEPT ![tok[r]] = r]
  /\ lease' = [lease EXCEPT ![tok[r]] = LeaseTime]
  /\ Goto(r, "ReadLink")
  /\ UNCHANGED <<store, linkTo, linkTTL, tok, cur, new, history>>

\* executeLocked: wait for the lock key of the presented token.
Acquire(r) ==
  /\ pc[r] = "Lock"
  /\ lease[tok[r]] = 0
  /\ holder' = [holder EXCEPT ![tok[r]] = r]
  /\ lease' = [lease EXCEPT ![tok[r]] = LeaseTime]
  /\ Goto(r, "ReadLink")
  /\ UNCHANGED <<store, linkTo, linkTTL, tok, cur, new, history>>

\* exchange: a token already rotated answers with what its successor is now.
ReadLink(r) ==
  /\ pc[r] = "ReadLink"
  /\ \/ /\ linkTTL[tok[r]] > 0
        /\ cur' = [cur EXCEPT ![r] = linkTo[tok[r]]]
        /\ Goto(r, "FollowKey")
     \/ /\ linkTTL[tok[r]] = 0
        /\ Goto(r, "ReadPrincipal")
        /\ UNCHANGED cur
  /\ UNCHANGED <<redis, tok, new, history>>

FollowKey(r) ==
  /\ pc[r] = "FollowKey"
  /\ \/ /\ store[cur[r]] > 0
        /\ new' = [new EXCEPT ![r] = cur[r]]
        /\ Goto(r, "Unlock")
     \/ /\ store[cur[r]] = 0
        /\ Goto(r, "FollowLink")
        /\ UNCHANGED new
  /\ UNCHANGED <<redis, tok, cur, history>>

FollowLink(r) ==
  /\ pc[r] = "FollowLink"
  /\ \/ /\ linkTTL[cur[r]] > 0
        /\ cur' = [cur EXCEPT ![r] = linkTo[cur[r]]]
        /\ Goto(r, "FollowKey")
     \/ /\ linkTTL[cur[r]] = 0
        /\ Goto(r, "Unlock")
        /\ UNCHANGED cur
  /\ UNCHANGED <<redis, tok, new, history>>

\* exchange: the principal behind the storage key, or an InvalidTokenException.
ReadPrincipal(r) ==
  /\ pc[r] = "ReadPrincipal"
  /\ Goto(r, IF store[tok[r]] > 0 THEN "Build" ELSE "Unlock")
  /\ UNCHANGED <<redis, tok, cur, new, history>>

Build(r, n) ==
  /\ pc[r] = "Build"
  /\ BuildToken(n)
  /\ new' = [new EXCEPT ![r] = n]
  /\ parent' = [parent EXCEPT ![n] = tok[r]]
  /\ Goto(r, "SetLink")
  /\ UNCHANGED <<linkTo, linkTTL, holder, lease, tok, cur,
                 published, known, disturbed, crashes>>

\* Mutant of SetLink: the rotated key names the token that it is for.
SetLinkToItself(r) ==
  /\ pc[r] = "SetLink"
  /\ linkTo' = [linkTo EXCEPT ![tok[r]] = tok[r]]
  /\ linkTTL' = [linkTTL EXCEPT ![tok[r]] = GraceWindow]
  /\ Goto(r, "Delete")
  /\ UNCHANGED <<store, holder, lease, tok, cur, new, history>>

\* setIfAbsent on the rotated key; its result is ignored.
SetLink(r) ==
  /\ pc[r] = "SetLink"
  /\ \/ /\ linkTTL[tok[r]] = 0
        /\ linkTo' = [linkTo EXCEPT ![tok[r]] = new[r]]
        /\ linkTTL' = [linkTTL EXCEPT ![tok[r]] = GraceWindow]
        /\ published' = published \cup {new[r]}
     \/ /\ linkTTL[tok[r]] > 0
        /\ UNCHANGED <<linkTo, linkTTL, published>>
  /\ Goto(r, "Delete")
  /\ UNCHANGED <<store, holder, lease, tok, cur, new,
                 issued, parent, known, disturbed, crashes>>

\* Mutant of Delete: the old storage key is left to expire.
DeleteNothing(r) ==
  /\ pc[r] = "Delete"
  /\ Goto(r, "Unlock")
  /\ UNCHANGED <<redis, tok, cur, new, history>>

Delete(r) ==
  /\ pc[r] = "Delete"
  /\ store' = [store EXCEPT ![tok[r]] = 0]
  /\ Goto(r, "Unlock")
  /\ UNCHANGED <<linkTo, linkTTL, holder, lease, tok, cur, new, history>>

\* unlock removes the lock key and the request answers, with the new token or
\* with the InvalidTokenException the callable threw.  When the lease is no
\* longer its own, unlock itself throws and no token is answered.
Unlock(r) ==
  /\ pc[r] = "Unlock"
  /\ \/ /\ holder[tok[r]] = r
        /\ holder' = [holder EXCEPT ![tok[r]] = NoRequest]
        /\ lease' = [lease EXCEPT ![tok[r]] = 0]
        /\ known' = known \cup ({new[r]} \ {NoToken})
     \/ /\ holder[tok[r]] # r
        /\ UNCHANGED <<holder, lease, known>>
  /\ Finish(r)
  /\ UNCHANGED <<store, linkTo, linkTTL, issued, parent, published, disturbed, crashes>>

-----------------------------------------------------------------------------
(* The environment. *)

\* The instance serving r dies.  What it wrote stays, its lock key too.
Crash(r) ==
  /\ pc[r] # "Idle"
  /\ crashes < MaxCrashes
  /\ crashes' = crashes + 1
  /\ disturbed' = IF pc[r] = "Delete" THEN disturbed \cup {tok[r]} ELSE disturbed
  /\ Finish(r)
  /\ UNCHANGED <<redis, issued, parent, published, known>>

\* The requests still reading or writing for a lock whose lease ends now.
Overrunning == {r \in Requests : /\ pc[r] \in Exchanging
                                 /\ holder[tok[r]] = r
                                 /\ lease[tok[r]] = 1}

\* Mutant of Minus1: a key that is gone keeps running out.
Minus1Always(f) == [t \in Tokens |-> f[t] - 1]

Minus1(f) == [t \in Tokens |-> IF f[t] > 0 THEN f[t] - 1 ELSE 0]

\* Mutant of Tick: a lock key without a lease.
TickWithoutLease ==
  /\ store' = Minus1(store)
  /\ linkTTL' = Minus1(linkTTL)
  /\ linkTo' = [t \in Tokens |-> IF linkTTL[t] > 1 THEN linkTo[t] ELSE NoToken]
  /\ UNCHANGED <<local, history, holder, lease>>

\* A tick passes; keys that run out disappear.
Tick ==
  /\ CanOverrun \/ Overrunning = {}
  /\ store' = Minus1(store)
  /\ linkTTL' = Minus1(linkTTL)
  /\ linkTo' = [t \in Tokens |-> IF linkTTL[t] > 1 THEN linkTo[t] ELSE NoToken]
  /\ lease' = Minus1(lease)
  /\ holder' = [t \in Tokens |-> IF lease[t] > 1 THEN holder[t] ELSE NoRequest]
  /\ disturbed' = disturbed \cup {tok[r] : r \in Overrunning}
  /\ UNCHANGED <<local, issued, parent, published, known, crashes>>

Step(r) ==
  \/ CheckKey(r) \/ CheckLink(r) \/ Acquire(r)
  \/ ReadLink(r) \/ FollowKey(r) \/ FollowLink(r)
  \/ ReadPrincipal(r) \/ (\E n \in Tokens : Build(r, n))
  \/ SetLink(r) \/ Delete(r) \/ Unlock(r)

Next ==
  \/ \E n \in Tokens : Login(n)
  \/ \E r \in Requests, t \in Tokens : Present(r, t)
  \/ \E r \in Requests : Step(r)
  \/ \E r \in Requests : PrincipalGone(r)
  \/ \E r \in Requests : Crash(r)
  \/ Tick

Spec == Init /\ [][Next]_vars

\* A thread that was not killed is scheduled again, and time passes.
Fairness == (\A r \in Requests : WF_vars(Step(r))) /\ WF_vars(Tick)

FairSpec == Spec /\ Fairness

-----------------------------------------------------------------------------
(* Properties. *)

\* What validateToken would accept now: the token itself, or through the
\* rotated keys one of its successors.  A set is closed under what validateToken
\* does if it has every token with a storage key and, with the token a rotated
\* key names, the token of that key; the recursion accepts what is in all of them.
Closed(S) ==
  /\ \A u \in Tokens : store[u] > 0 => u \in S
  /\ \A u \in Tokens : linkTTL[u] > 0 /\ linkTo[u] \in S => u \in S

Resolves(t) == \A S \in SUBSET Tokens : Closed(S) => t \in S

Heirs(t) == {n \in known : parent[n] = t}

\* Two clients are never given two different successors of one token, however
\* their exchanges interleave with each other and with the expiry of the grace
\* window, unless an exchange of that token was cut between its writes.
\* (exchange: lock, rotated key and delete together.)
SingleUse ==
  \A t \in Tokens : Cardinality(Heirs(t)) > 1 => t \in disturbed

\* The rotated key of a token never outlives what it leads to: the successor
\* is live for at least as long or was itself rotated later.  This is why the
\* recursion of validateToken ends at a live token.
GraceChain ==
  \A t \in Tokens \ disturbed :
    linkTTL[t] > 0 =>
      LET n == linkTo[t] IN store[n] >= linkTTL[t] \/ linkTTL[n] >= linkTTL[t]

\* Rotated keys never lead in a circle, not even past exchanges that were cut
\* and done again: wherever validateToken starts, its recursion runs out of
\* rotated keys.
NoCircle ==
  \A S \in SUBSET Tokens : (\A u \in S : linkTTL[u] > 0 /\ linkTo[u] \in S) => S = {}

\* A request is turned away only with a token that nothing accepts any more:
\* the readers take the storage key before the rotated key, the writer creates
\* the rotated key before it deletes the storage key, so the exchange that goes
\* on at the same time never makes a good token look invalid.  Only the token
\* presented matters: those it leads to may have been cut.
TurnedAway(r) ==
  /\ crashes' = crashes
  /\ \/ pc[r] = "CheckLink" /\ pc'[r] = "Idle"
     \/ pc[r] = "FollowLink" /\ pc'[r] = "Unlock"
     \/ pc[r] = "ReadPrincipal" /\ pc'[r] = "Unlock"

RejectOnlyDead ==
  [][\A r \in Requests : TurnedAway(r) => tok[r] \in disturbed \/ ~Resolves(tok[r])]_vars

\* Every refresh request is answered: it cannot wait for ever for the lock of
\* its token nor follow rotated keys for ever.
RequestTerminates ==
  \A r \in Requests : pc[r] # "Idle" ~> pc[r] = "Idle"

\* The steps of the exchange implement a rotation that happens at once, when
\* the rotated key appears: as long as no exchange is cut, a token is rotated
\* once, is never accepted again when the rotation is over, and only rotated or
\* issued tokens are answered.
Rotation == INSTANCE OneTimeTokens WITH
  predecessor <- [n \in Tokens |-> IF n \in published THEN parent[n] ELSE NoToken],
  accepted <- {t \in published : Resolves(t)}

ImplementsRotation == Rotation!Spec

-----------------------------------------------------------------------------
(* Why SingleUse and GraceChain hold: an inductive invariant, part by part. *)

\* A lock key exists exactly as long as its lease.
LockHeld == \A t \in Tokens : (holder[t] # NoRequest) <=> (lease[t] > 0)

\* An exchange that was not cut still has its lock.
Exclusion ==
  \A r \in Requests :
    pc[r] \in Exchanging /\ tok[r] \notin disturbed => holder[tok[r]] = r

\* Every token anybody talks about has been drawn.
AllIssued ==
  /\ published \subseteq issued /\ known \subseteq issued
  /\ \A r \in Requests : /\ pc[r] # "Idle" => tok[r] \in issued
                         /\ pc[r] \in Checking => cur[r] \in issued
                         /\ new[r] # NoToken => new[r] \in issued
  /\ \A n \in Tokens : parent[n] # NoToken => n \in issued /\ parent[n] \in issued

\* Where the token to be answered comes from.
NewToken ==
  \A r \in Requests :
    /\ pc[r] \in {"SetLink", "Delete"} => /\ new[r] \in Tokens
                                          /\ parent[new[r]] = tok[r]
    /\ pc[r] \notin {"SetLink", "Delete", "Unlock"} => new[r] = NoToken
    /\ pc[r] \in Following => cur[r] \in published
    /\ (/\ pc[r] \in {"Delete", "Unlock"} /\ new[r] # NoToken
        /\ parent[new[r]] \notin disturbed) => new[r] \in published

\* A rotated key names a published successor of its token.
LinkPublished ==
  \A t \in Tokens : linkTTL[t] > 0 => linkTo[t] \in published /\ parent[linkTo[t]] = t

\* Clients are given published tokens.
KnownPublished == \A n \in known : parent[n] \notin disturbed => n \in published

\* A token is not minted for, once it has a successor ...
NoHeirYet ==
  \A r \in Requests :
    pc[r] \in {"Build", "SetLink"} /\ tok[r] \notin disturbed
      => \A n \in published : parent[n] # tok[r]

\* ... because from then on its own key is gone, or about to be deleted by the
\* exchange that made the successor.
HeirReplaces ==
  \A n \in published :
    parent[n] # NoToken /\ parent[n] \notin disturbed
      => \/ store[parent[n]] = 0
         \/ \E r \in Requests : pc[r] = "Delete" /\ tok[r] = parent[n]

OneHeir ==
  \A m, n \in published :
    parent[m] = parent[n] /\ parent[n] # NoToken /\ parent[n] \notin disturbed
      => m = n

\* A minted token stays out of sight until the rotated key names it.
Unseen ==
  \A r \in Requests :
    /\ pc[r] # "Idle" => tok[r] \in known
    /\ pc[r] = "SetLink" => /\ new[r] \notin published \cup known
                            /\ \A q \in Requests \ {r} : new[q] # new[r]

\* It is younger than the lease under which it was minted, ...
YoungHeir ==
  \A r \in Requests :
    pc[r] = "SetLink" /\ tok[r] \notin disturbed
      => store[new[r]] >= TokenTTL - LeaseTime + lease[tok[r]]

\* ... and a key is deleted only while, or after, the rotated key of its token
\* covers every rotated key that leads to it.
Handover ==
  \A r \in Requests : pc[r] = "Delete" =>
    \A t \in Tokens : linkTo[t] = tok[r] => linkTTL[tok[r]] >= linkTTL[t]

\* A rotated key is written for a token some client holds, ...
LinkKnown == \A t \in Tokens : linkTTL[t] > 0 => t \in known

\* ... hence after the rotated key that leads to the token.
LinkGrows ==
  \A t \in Tokens :
    linkTTL[t] > 0 /\ linkTTL[linkTo[t]] > 0 => linkTTL[linkTo[t]] >= linkTTL[t]

\* SingleUse and GraceChain strengthened until every step preserves it (see RefreshTokensProofs).
IInv ==
  /\ TypeOK /\ LockHeld /\ Exclusion /\ AllIssued /\ NewToken /\ LinkPublished
  /\ KnownPublished /\ NoHeirYet /\ HeirReplaces /\ OneHeir
  /\ Unseen /\ YoungHeir /\ Handover /\ LinkKnown /\ LinkGrows /\ GraceChain
=============================================================================
