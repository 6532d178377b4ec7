------------------------ MODULE RefreshTokensProofs ------------------------
(***************************************************************************)
(* Proofs about RefreshTokens, for every set of tokens and requests and all *)
(* lengths of lifetime, grace window and lease.  IInv holds initially and   *)
(* is preserved by every step, one lemma per action below; TypeOK,          *)
(* SingleUse and GraceChain follow from it.  A lemma leaves to its last     *)
(* steps the parts of IInv its action has no bearing on.                    *)
(***************************************************************************)
EXTENDS RefreshTokens, FiniteSetTheorems, TLAPS

USE SortsAssumption, TimesAssumption, BoundsAssumption
USE DEF Finish, Goto, BuildToken, redis, local, history,
        Exchanging, Following, Checking, Critical, PC

\* Before the first login Redis holds no key and no request is served: IInv holds.
LEMMA InitIInv == Init => IInv
<1>. SUFFICES ASSUME Init PROVE IInv
  OBVIOUS
<1>1. TypeOK
  BY DEF Init, TypeOK
<1>2. LockHeld
  BY DEF Init, LockHeld
<1>3. Exclusion
  BY DEF Init, Exclusion
<1>4. AllIssued
  BY DEF Init, AllIssued
<1>5. NewToken
  BY DEF Init, NewToken
<1>6. LinkPublished
  BY DEF Init, LinkPublished
<1>7. KnownPublished
  BY DEF Init, KnownPublished
<1>8. NoHeirYet
  BY DEF Init, NoHeirYet
<1>9. HeirReplaces
  BY DEF Init, HeirReplaces
<1>10. OneHeir
  BY DEF Init, OneHeir
<1>11. Unseen
  BY DEF Init, Unseen
<1>12. YoungHeir
  BY DEF Init, YoungHeir
<1>13. Handover
  BY DEF Init, Handover
<1>14. GraceChain
  BY DEF Init, GraceChain
<1>15. LinkKnown /\ LinkGrows
  BY DEF Init, LinkKnown, LinkGrows
<1>. QED
  BY <1>1, <1>2, <1>3, <1>4, <1>5, <1>6, <1>7, <1>8, <1>9, <1>10, <1>11, <1>12, <1>13, <1>14, <1>15 DEF IInv

\* A login (buildToken) draws a token nobody talks about yet.
LEMMA LoginIInv ==
  ASSUME NEW n \in Tokens, IInv, Login(n)
  PROVE  IInv'
<1>1. TypeOK'
  BY DEF IInv, TypeOK, Login
<1>2. AllIssued'
  BY DEF IInv, AllIssued, Login
<1>3. NewToken'
  BY DEF IInv, NewToken, Login
<1>4. LinkPublished'
  BY DEF IInv, LinkPublished, Login
<1>5. KnownPublished'
  BY DEF IInv, KnownPublished, Login
<1>6. NoHeirYet'
  BY DEF IInv, TypeOK, NoHeirYet, AllIssued, Login
<1>7. HeirReplaces'
  BY DEF IInv, TypeOK, HeirReplaces, AllIssued, Login
<1>8. OneHeir'
  BY DEF IInv, OneHeir, AllIssued, Login
<1>9. Unseen'
  BY DEF IInv, Unseen, AllIssued, Login
<1>10. YoungHeir'
  BY DEF IInv, YoungHeir, AllIssued, Login
<1>11. GraceChain'
  BY DEF IInv, TypeOK, GraceChain, Login
<1>12. (LockHeld /\ Exclusion /\ Handover /\ LinkKnown /\ LinkGrows)'
  BY DEF IInv, LockHeld, Exclusion, Handover, LinkKnown, LinkGrows, Login
<1>. QED
  BY <1>1, <1>2, <1>3, <1>4, <1>5, <1>6, <1>7, <1>8, <1>9, <1>10, <1>11, <1>12 DEF IInv

\* A presented token was answered before; the request holds nothing yet.
LEMMA PresentIInv ==
  ASSUME NEW r \in Requests, NEW t \in Tokens, IInv, Present(r, t)
  PROVE  IInv'
<1>1. TypeOK'
  BY DEF IInv, TypeOK, Present
<1>2. Exclusion'
  BY DEF IInv, Exclusion, Present
<1>3. AllIssued'
  BY DEF IInv, TypeOK, AllIssued, Present
<1>4. NewToken'
  BY DEF IInv, NewToken, Present
<1>5. NoHeirYet'
  BY DEF IInv, NoHeirYet, Present
<1>6. HeirReplaces'
  BY DEF IInv, HeirReplaces, Present
<1>7. Unseen'
  BY DEF IInv, TypeOK, Unseen, Present
<1>8. YoungHeir'
  BY DEF IInv, YoungHeir, Present
<1>9. Handover'
  BY DEF IInv, TypeOK, Handover, Present
<1>10. (LockHeld /\ LinkPublished /\ KnownPublished /\ OneHeir /\ GraceChain /\ LinkKnown /\ LinkGrows)'
  BY DEF IInv, LockHeld, LinkPublished, KnownPublished, OneHeir, GraceChain, LinkKnown, LinkGrows, Present
<1>. QED
  BY <1>1, <1>2, <1>3, <1>4, <1>5, <1>6, <1>7, <1>8, <1>9, <1>10 DEF IInv

\* validateToken before the lock: reading the storage key changes a program
\* counter only.
LEMMA CheckKeyIInv ==
  ASSUME NEW r \in Requests, IInv, CheckKey(r)
  PROVE  IInv'
<1>1. TypeOK'
  BY DEF IInv, TypeOK, CheckKey
<1>2. Exclusion'
  BY DEF IInv, Exclusion, CheckKey
<1>3. AllIssued'
  BY DEF IInv, AllIssued, CheckKey
<1>4. NewToken'
  BY DEF IInv, NewToken, CheckKey
<1>5. NoHeirYet'
  BY DEF IInv, NoHeirYet, CheckKey
<1>6. HeirReplaces'
  BY DEF IInv, HeirReplaces, CheckKey
<1>7. Unseen'
  BY DEF IInv, Unseen, CheckKey
<1>8. YoungHeir'
  BY DEF IInv, YoungHeir, CheckKey
<1>9. Handover'
  BY DEF IInv, TypeOK, Handover, CheckKey
<1>10. (LockHeld /\ LinkPublished /\ KnownPublished /\ OneHeir /\ GraceChain /\ LinkKnown /\ LinkGrows)'
  BY DEF IInv, LockHeld, LinkPublished, KnownPublished, OneHeir, GraceChain, LinkKnown, LinkGrows, CheckKey
<1>. QED
  BY <1>1, <1>2, <1>3, <1>4, <1>5, <1>6, <1>7, <1>8, <1>9, <1>10 DEF IInv

\* validateToken before the lock: what a rotated key names has been issued.
LEMMA CheckLinkIInv ==
  ASSUME NEW r \in Requests, IInv, CheckLink(r)
  PROVE  IInv'
<1>1. TypeOK'
  BY DEF IInv, TypeOK, AllIssued, CheckLink
<1>2. Exclusion'
  BY DEF IInv, TypeOK, Exclusion, CheckLink
<1>3. AllIssued'
  BY DEF IInv, TypeOK, AllIssued, LinkPublished, CheckLink
<1>4. NewToken'
  BY DEF IInv, TypeOK, NewToken, CheckLink
<1>5. NoHeirYet'
  BY DEF IInv, TypeOK, NoHeirYet, CheckLink
<1>6. HeirReplaces'
  BY DEF IInv, TypeOK, HeirReplaces, CheckLink
<1>7. Unseen'
  BY DEF IInv, TypeOK, Unseen, NewToken, CheckLink
<1>8. YoungHeir'
  BY DEF IInv, TypeOK, YoungHeir, CheckLink
<1>9. Handover'
  BY DEF IInv, TypeOK, Handover, CheckLink
<1>10. (LockHeld /\ LinkPublished /\ KnownPublished /\ OneHeir /\ GraceChain /\ LinkKnown /\ LinkGrows)'
  BY DEF IInv, LockHeld, LinkPublished, KnownPublished, OneHeir, GraceChain, LinkKnown, LinkGrows, CheckLink
<1>. QED
  BY <1>1, <1>2, <1>3, <1>4, <1>5, <1>6, <1>7, <1>8, <1>9, <1>10 DEF IInv

\* A request that ends before it has the lock leaves nothing behind.
LEMMA PrincipalGoneIInv ==
  ASSUME NEW r \in Requests, IInv, PrincipalGone(r)
  PROVE  IInv'
<1>1. TypeOK'
  BY DEF IInv, TypeOK, PrincipalGone
<1>2. Exclusion'
  BY DEF IInv, Exclusion, PrincipalGone
<1>3. AllIssued'
  BY DEF IInv, TypeOK, AllIssued, PrincipalGone
<1>4. NewToken'
  BY DEF IInv, NewToken, PrincipalGone
<1>5. NoHeirYet'
  BY DEF IInv, NoHeirYet, PrincipalGone
<1>6. HeirReplaces'
  BY DEF IInv, HeirReplaces, PrincipalGone
<1>7. Unseen'
  BY DEF IInv, TypeOK, Unseen, NewToken, PrincipalGone
<1>8. YoungHeir'
  BY DEF IInv, YoungHeir, PrincipalGone
<1>9. Handover'
  BY DEF IInv, TypeOK, Handover, PrincipalGone
<1>10. (LockHeld /\ LinkPublished /\ KnownPublished /\ OneHeir /\ GraceChain /\ LinkKnown /\ LinkGrows)'
  BY DEF IInv, LockHeld, LinkPublished, KnownPublished, OneHeir, GraceChain, LinkKnown, LinkGrows, PrincipalGone
<1>. QED
  BY <1>1, <1>2, <1>3, <1>4, <1>5, <1>6, <1>7, <1>8, <1>9, <1>10 DEF IInv

\* The lock is taken only when it is free, so nobody was exchanging undisturbed
\* (LockHeld and Exclusion make this step sound).
LEMMA AcquireIInv ==
  ASSUME NEW r \in Requests, IInv, Acquire(r)
  PROVE  IInv'
<1>1. TypeOK'
  BY DEF IInv, TypeOK, AllIssued, Acquire
<1>2. LockHeld'
  BY DEF IInv, TypeOK, LockHeld, Acquire
<1>3. Exclusion'
  BY DEF IInv, TypeOK, Exclusion, LockHeld, AllIssued, Acquire
<1>4. AllIssued'
  BY DEF IInv, AllIssued, Acquire
<1>5. NewToken'
  BY DEF IInv, NewToken, Acquire
<1>6. NoHeirYet'
  BY DEF IInv, NoHeirYet, Acquire
<1>7. HeirReplaces'
  BY DEF IInv, HeirReplaces, Acquire
<1>8. Unseen'
  BY DEF IInv, Unseen, Acquire
<1>9. YoungHeir'
  BY DEF IInv, TypeOK, YoungHeir, Exclusion, LockHeld, Acquire
<1>10. Handover'
  BY DEF IInv, TypeOK, Handover, Acquire
<1>11. (LinkPublished /\ KnownPublished /\ OneHeir /\ GraceChain /\ LinkKnown /\ LinkGrows)'
  BY DEF IInv, LinkPublished, KnownPublished, OneHeir, GraceChain, LinkKnown, LinkGrows, Acquire
<1>. QED
  BY <1>1, <1>2, <1>3, <1>4, <1>5, <1>6, <1>7, <1>8, <1>9, <1>10, <1>11 DEF IInv

\* exchange reads the rotated key: what it names is published.
LEMMA ReadLinkIInv ==
  ASSUME NEW r \in Requests, IInv, ReadLink(r)
  PROVE  IInv'
<1>1. TypeOK'
  BY DEF IInv, TypeOK, AllIssued, ReadLink
<1>2. Exclusion'
  BY DEF IInv, TypeOK, Exclusion, ReadLink
<1>3. AllIssued'
  BY DEF IInv, TypeOK, AllIssued, ReadLink
<1>4. NewToken'
  BY DEF IInv, TypeOK, NewToken, AllIssued, LinkPublished, ReadLink
<1>5. NoHeirYet'
  BY DEF IInv, TypeOK, NoHeirYet, ReadLink
<1>6. HeirReplaces'
  BY DEF IInv, TypeOK, HeirReplaces, ReadLink
<1>7. Unseen'
  BY DEF IInv, TypeOK, Unseen, ReadLink
<1>8. YoungHeir'
  BY DEF IInv, TypeOK, YoungHeir, ReadLink
<1>9. Handover'
  BY DEF IInv, TypeOK, Handover, ReadLink
<1>10. (LockHeld /\ LinkPublished /\ KnownPublished /\ OneHeir /\ GraceChain /\ LinkKnown /\ LinkGrows)'
  BY DEF IInv, LockHeld, LinkPublished, KnownPublished, OneHeir, GraceChain, LinkKnown, LinkGrows, ReadLink
<1>. QED
  BY <1>1, <1>2, <1>3, <1>4, <1>5, <1>6, <1>7, <1>8, <1>9, <1>10 DEF IInv

\* validateToken under the lock: a live successor becomes the answer.
LEMMA FollowKeyIInv ==
  ASSUME NEW r \in Requests, IInv, FollowKey(r)
  PROVE  IInv'
<1>1. TypeOK'
  BY DEF IInv, TypeOK, FollowKey
<1>2. Exclusion'
  BY DEF IInv, TypeOK, Exclusion, FollowKey
<1>3. AllIssued'
  BY DEF IInv, TypeOK, AllIssued, NewToken, FollowKey
<1>4. NewToken'
  BY DEF IInv, TypeOK, NewToken, FollowKey
<1>5. NoHeirYet'
  BY DEF IInv, TypeOK, NoHeirYet, FollowKey
<1>6. HeirReplaces'
  BY DEF IInv, TypeOK, HeirReplaces, FollowKey
<1>7. Unseen'
  BY DEF IInv, TypeOK, Unseen, NewToken, FollowKey
<1>8. YoungHeir'
  BY DEF IInv, TypeOK, YoungHeir, FollowKey
<1>9. Handover'
  BY DEF IInv, TypeOK, Handover, FollowKey
<1>10. (LockHeld /\ LinkPublished /\ KnownPublished /\ OneHeir /\ GraceChain /\ LinkKnown /\ LinkGrows)'
  BY DEF IInv, LockHeld, LinkPublished, KnownPublished, OneHeir, GraceChain, LinkKnown, LinkGrows, FollowKey
<1>. QED
  BY <1>1, <1>2, <1>3, <1>4, <1>5, <1>6, <1>7, <1>8, <1>9, <1>10 DEF IInv

\* validateToken under the lock: from one published successor to the next.
LEMMA FollowLinkIInv ==
  ASSUME NEW r \in Requests, IInv, FollowLink(r)
  PROVE  IInv'
<1>1. TypeOK'
  BY DEF IInv, TypeOK, NewToken, FollowLink
<1>2. Exclusion'
  BY DEF IInv, TypeOK, Exclusion, FollowLink
<1>3. AllIssued'
  BY DEF IInv, TypeOK, AllIssued, FollowLink
<1>4. NewToken'
  BY DEF IInv, TypeOK, NewToken, LinkPublished, FollowLink
<1>5. NoHeirYet'
  BY DEF IInv, TypeOK, NoHeirYet, FollowLink
<1>6. HeirReplaces'
  BY DEF IInv, TypeOK, HeirReplaces, FollowLink
<1>7. Unseen'
  BY DEF IInv, TypeOK, Unseen, FollowLink
<1>8. YoungHeir'
  BY DEF IInv, TypeOK, YoungHeir, FollowLink
<1>9. Handover'
  BY DEF IInv, TypeOK, Handover, FollowLink
<1>10. (LockHeld /\ LinkPublished /\ KnownPublished /\ OneHeir /\ GraceChain /\ LinkKnown /\ LinkGrows)'
  BY DEF IInv, LockHeld, LinkPublished, KnownPublished, OneHeir, GraceChain, LinkKnown, LinkGrows, FollowLink
<1>. QED
  BY <1>1, <1>2, <1>3, <1>4, <1>5, <1>6, <1>7, <1>8, <1>9, <1>10 DEF IInv

\* exchange goes on with a token whose storage key exists.  By HeirReplaces such
\* a token has no successor, unless the holder of its lock is about to delete
\* the key, and this request is that holder (Exclusion): hence NoHeirYet.
LEMMA ReadPrincipalIInv ==
  ASSUME NEW r \in Requests, IInv, ReadPrincipal(r)
  PROVE  IInv'
<1>1. TypeOK'
  BY DEF IInv, TypeOK, ReadPrincipal
<1>2. Exclusion'
  BY DEF IInv, Exclusion, ReadPrincipal
<1>3. AllIssued'
  BY DEF IInv, AllIssued, ReadPrincipal
<1>4. NewToken'
  BY DEF IInv, NewToken, ReadPrincipal
<1>5. NoHeirYet'
  BY DEF IInv, TypeOK, NoHeirYet, AllIssued, HeirReplaces, Exclusion, ReadPrincipal
<1>6. HeirReplaces'
  BY DEF IInv, HeirReplaces, ReadPrincipal
<1>7. Unseen'
  BY DEF IInv, Unseen, ReadPrincipal
<1>8. YoungHeir'
  BY DEF IInv, YoungHeir, ReadPrincipal
<1>9. Handover'
  BY DEF IInv, TypeOK, Handover, ReadPrincipal
<1>10. (LockHeld /\ LinkPublished /\ KnownPublished /\ OneHeir /\ GraceChain /\ LinkKnown /\ LinkGrows)'
  BY DEF IInv, LockHeld, LinkPublished, KnownPublished, OneHeir, GraceChain, LinkKnown, LinkGrows, ReadPrincipal
<1>. QED
  BY <1>1, <1>2, <1>3, <1>4, <1>5, <1>6, <1>7, <1>8, <1>9, <1>10 DEF IInv

\* exchange calls buildToken: the new token is fresh, hence out of sight.
LEMMA BuildIInv ==
  ASSUME NEW r \in Requests, NEW n \in Tokens, IInv, Build(r, n)
  PROVE  IInv'
<1>1. TypeOK'
  BY DEF IInv, TypeOK, Build
<1>2. Exclusion'
  BY DEF IInv, Exclusion, Build
<1>3. AllIssued'
  BY DEF IInv, AllIssued, Build
<1>4. NewToken'
  BY DEF IInv, TypeOK, NewToken, AllIssued, Build
<1>5. LinkPublished'
  BY DEF IInv, LinkPublished, AllIssued, Build
<1>6. KnownPublished'
  BY DEF IInv, KnownPublished, AllIssued, Build
<1>7. NoHeirYet'
  BY DEF IInv, NoHeirYet, AllIssued, Build
<1>8. HeirReplaces'
  BY DEF IInv, TypeOK, HeirReplaces, AllIssued, Build
<1>9. OneHeir'
  BY DEF IInv, OneHeir, AllIssued, Build
<1>10. Unseen'
  BY DEF IInv, TypeOK, Unseen, AllIssued, Build
<1>11. YoungHeir'
  BY DEF IInv, TypeOK, YoungHeir, AllIssued, Build
<1>12. Handover'
  BY DEF IInv, TypeOK, Handover, Build
<1>13. GraceChain'
  BY DEF IInv, TypeOK, GraceChain, AllIssued, NewToken, LinkPublished, Build
<1>14. (LockHeld /\ LinkKnown /\ LinkGrows)'
  BY DEF IInv, LockHeld, LinkKnown, LinkGrows, Build
<1>. QED
  BY <1>1, <1>2, <1>3, <1>4, <1>5, <1>6, <1>7, <1>8, <1>9, <1>10, <1>11, <1>12, <1>13, <1>14 DEF IInv

\* setIfAbsent writes the rotated key, the step at which the successor becomes
\* visible.  By NoHeirYet there is no other successor (OneHeir); the successor
\* is young enough to outlive the rotated key (YoungHeir gives GraceChain).
LEMMA SetLinkIInv ==
  ASSUME NEW r \in Requests, IInv, SetLink(r)
  PROVE  IInv'
<1>1. TypeOK'
  BY DEF IInv, TypeOK, NewToken, SetLink
<1>2. Exclusion'
  BY DEF IInv, TypeOK, Exclusion, SetLink
<1>3. AllIssued'
  BY DEF IInv, AllIssued, NewToken, SetLink
<1>4. NewToken'
  BY DEF IInv, TypeOK, NewToken, AllIssued, NoHeirYet, LinkPublished, SetLink
<1>5. LinkPublished'
  BY DEF IInv, TypeOK, LinkPublished, NewToken, SetLink
<1>6. KnownPublished'
  BY DEF IInv, KnownPublished, SetLink
<1>7. NoHeirYet'
  BY DEF IInv, TypeOK, NoHeirYet, NewToken, Exclusion, SetLink
<1>8. HeirReplaces'
  BY DEF IInv, TypeOK, HeirReplaces, NewToken, SetLink
<1>9. OneHeir'
  BY DEF IInv, TypeOK, OneHeir, NewToken, NoHeirYet, SetLink
<1>10. Unseen'
  BY DEF IInv, TypeOK, Unseen, SetLink
<1>11. YoungHeir'
  BY DEF IInv, YoungHeir, SetLink
<1>12. Handover'
  BY DEF IInv, TypeOK, Handover, AllIssued, LinkGrows, Unseen, SetLink
<1>13. GraceChain'
  BY DEF IInv, TypeOK, GraceChain, AllIssued, NewToken, LinkPublished, YoungHeir, SetLink
<1>14. (LockHeld)'
  BY DEF IInv, LockHeld, SetLink
<1>15. LinkKnown'
  BY DEF IInv, TypeOK, LinkKnown, Unseen, SetLink
<1>16. LinkGrows'
  BY DEF IInv, TypeOK, AllIssued, LinkGrows, LinkKnown, LinkPublished, NewToken, Unseen, SetLink
<1>. QED
  BY <1>1, <1>2, <1>3, <1>4, <1>5, <1>6, <1>7, <1>8, <1>9, <1>10, <1>11, <1>12, <1>13, <1>14, <1>15, <1>16 DEF IInv

\* exchange deletes the storage key: Handover is what keeps GraceChain.
LEMMA DeleteIInv ==
  ASSUME NEW r \in Requests, IInv, Delete(r)
  PROVE  IInv'
<1>1. TypeOK'
  BY DEF IInv, TypeOK, AllIssued, Delete
<1>2. Exclusion'
  BY DEF IInv, Exclusion, Delete
<1>3. AllIssued'
  BY DEF IInv, AllIssued, Delete
<1>4. NewToken'
  BY DEF IInv, NewToken, Delete
<1>5. NoHeirYet'
  BY DEF IInv, NoHeirYet, Delete
<1>6. HeirReplaces'
  BY DEF IInv, TypeOK, HeirReplaces, Delete
<1>7. Unseen'
  BY DEF IInv, Unseen, Delete
<1>8. YoungHeir'
  BY DEF IInv, TypeOK, YoungHeir, Unseen, Delete
<1>9. Handover'
  BY DEF IInv, TypeOK, Handover, Delete
<1>10. GraceChain'
  BY DEF IInv, TypeOK, GraceChain, Handover, Delete
<1>11. (LockHeld /\ LinkPublished /\ KnownPublished /\ OneHeir /\ LinkKnown /\ LinkGrows)'
  BY DEF IInv, LockHeld, LinkPublished, KnownPublished, OneHeir, LinkKnown, LinkGrows, Delete
<1>. QED
  BY <1>1, <1>2, <1>3, <1>4, <1>5, <1>6, <1>7, <1>8, <1>9, <1>10, <1>11 DEF IInv

\* unlock gives the lock back and the request answers a published token, if any.
LEMMA UnlockIInv ==
  ASSUME NEW r \in Requests, IInv, Unlock(r)
  PROVE  IInv'
<1>1. TypeOK'
  BY DEF IInv, TypeOK, Unlock
<1>2. LockHeld'
  BY DEF IInv, TypeOK, LockHeld, Unlock
<1>3. Exclusion'
  BY DEF IInv, TypeOK, Exclusion, AllIssued, Unlock
<1>4. AllIssued'
  BY DEF IInv, TypeOK, AllIssued, Unlock
<1>5. NewToken'
  BY DEF IInv, TypeOK, NewToken, Unlock
<1>6. KnownPublished'
  BY DEF IInv, KnownPublished, NewToken, Unlock
<1>7. NoHeirYet'
  BY DEF IInv, NoHeirYet, Unlock
<1>8. HeirReplaces'
  BY DEF IInv, HeirReplaces, Unlock
<1>9. Unseen'
  BY DEF IInv, TypeOK, Unseen, NewToken, Unlock
<1>10. YoungHeir'
  BY DEF IInv, TypeOK, YoungHeir, AllIssued, Exclusion, Unlock
<1>11. Handover'
  BY DEF IInv, TypeOK, Handover, Unlock
<1>12. (LinkPublished /\ OneHeir /\ GraceChain /\ LinkKnown /\ LinkGrows)'
  BY DEF IInv, LinkPublished, OneHeir, GraceChain, LinkKnown, LinkGrows, Unlock
<1>. QED
  BY <1>1, <1>2, <1>3, <1>4, <1>5, <1>6, <1>7, <1>8, <1>9, <1>10, <1>11, <1>12 DEF IInv

\* A crash in the middle of the writes marks the token as disturbed; anywhere
\* else it leaves Redis as a finished request would.
LEMMA CrashIInv ==
  ASSUME NEW r \in Requests, IInv, Crash(r)
  PROVE  IInv'
<1>1. TypeOK'
  BY DEF IInv, TypeOK, AllIssued, Crash
<1>2. Exclusion'
  BY DEF IInv, TypeOK, Exclusion, Crash
<1>3. AllIssued'
  BY DEF IInv, TypeOK, AllIssued, Crash
<1>4. NewToken'
  BY DEF IInv, TypeOK, NewToken, Crash
<1>5. KnownPublished'
  BY DEF IInv, KnownPublished, Crash
<1>6. NoHeirYet'
  BY DEF IInv, TypeOK, NoHeirYet, Crash
<1>7. HeirReplaces'
  BY DEF IInv, HeirReplaces, Crash
<1>8. OneHeir'
  BY DEF IInv, OneHeir, Crash
<1>9. Unseen'
  BY DEF IInv, TypeOK, Unseen, NewToken, Crash
<1>10. YoungHeir'
  BY DEF IInv, TypeOK, YoungHeir, Crash
<1>11. Handover'
  BY DEF IInv, TypeOK, Handover, Crash
<1>12. GraceChain'
  BY DEF IInv, TypeOK, GraceChain, Crash
<1>13. (LockHeld /\ LinkPublished /\ LinkKnown /\ LinkGrows)'
  BY DEF IInv, LockHeld, LinkPublished, LinkKnown, LinkGrows, Crash
<1>. QED
  BY <1>1, <1>2, <1>3, <1>4, <1>5, <1>6, <1>7, <1>8, <1>9, <1>10, <1>11, <1>12, <1>13 DEF IInv

\* Time passes: rotated keys and what they lead to run out together, and an
\* exchange whose lease ends before its last write is marked as disturbed.
LEMMA TickIInv ==
  ASSUME IInv, Tick
  PROVE  IInv'
<1>1. TypeOK'
  BY DEF IInv, TypeOK, AllIssued, Tick, Minus1, Overrunning
<1>2. LockHeld'
  BY DEF IInv, TypeOK, LockHeld, Tick, Minus1
<1>3. Exclusion'
  BY DEF IInv, TypeOK, Exclusion, LockHeld, AllIssued, Tick, Overrunning
<1>4. NewToken'
  BY DEF IInv, TypeOK, NewToken, Tick
<1>5. LinkPublished'
  BY DEF IInv, TypeOK, LinkPublished, Tick, Minus1
<1>6. KnownPublished'
  BY DEF IInv, TypeOK, KnownPublished, Tick
<1>7. NoHeirYet'
  BY DEF IInv, TypeOK, NoHeirYet, Tick
<1>8. HeirReplaces'
  BY DEF IInv, TypeOK, HeirReplaces, Tick, Minus1
<1>9. OneHeir'
  BY DEF IInv, TypeOK, OneHeir, Tick
<1>10. YoungHeir'
  BY DEF IInv, TypeOK, YoungHeir, AllIssued, NewToken, Exclusion, LockHeld, Tick, Minus1
<1>11. Handover'
  BY DEF IInv, TypeOK, Handover, AllIssued, Tick, Minus1
<1>12. GraceChain'
  BY DEF IInv, TypeOK, GraceChain, AllIssued, LinkPublished, Tick, Minus1
<1>13. (AllIssued /\ Unseen)'
  BY DEF IInv, AllIssued, Unseen, Tick
<1>14. LinkKnown'
  BY DEF IInv, TypeOK, LinkKnown, Tick, Minus1
<1>15. LinkGrows'
  BY DEF IInv, TypeOK, LinkGrows, LinkPublished, Tick, Minus1
<1>. QED
  BY <1>1, <1>2, <1>3, <1>4, <1>5, <1>6, <1>7, <1>8, <1>9, <1>10, <1>11, <1>12, <1>13, <1>14, <1>15 DEF IInv

-----------------------------------------------------------------------------
(* The theorems. *)

\* No step of OpaqueTokenProvider, of its clients or of Redis breaks IInv.
LEMMA NextIInv == IInv /\ [Next]_vars => IInv'
<1>. SUFFICES ASSUME IInv, [Next]_vars PROVE IInv'
  OBVIOUS
<1>1. CASE \E n \in Tokens : Login(n)
  BY <1>1, LoginIInv
<1>2. CASE \E r \in Requests, t \in Tokens : Present(r, t)
  BY <1>2, PresentIInv
<1>3. ASSUME NEW r \in Requests, Step(r) PROVE IInv'
  <2>1. CASE CheckKey(r)
    BY <2>1, CheckKeyIInv
  <2>2. CASE CheckLink(r)
    BY <2>2, CheckLinkIInv
  <2>3. CASE Acquire(r)
    BY <2>3, AcquireIInv
  <2>4. CASE ReadLink(r)
    BY <2>4, ReadLinkIInv
  <2>5. CASE FollowKey(r)
    BY <2>5, FollowKeyIInv
  <2>6. CASE FollowLink(r)
    BY <2>6, FollowLinkIInv
  <2>7. CASE ReadPrincipal(r)
    BY <2>7, ReadPrincipalIInv
  <2>8. CASE \E n \in Tokens : Build(r, n)
    BY <2>8, BuildIInv
  <2>9. CASE SetLink(r)
    BY <2>9, SetLinkIInv
  <2>10. CASE Delete(r)
    BY <2>10, DeleteIInv
  <2>11. CASE Unlock(r)
    BY <2>11, UnlockIInv
  <2>. QED
    BY <1>3, <2>1, <2>2, <2>3, <2>4, <2>5, <2>6, <2>7, <2>8, <2>9, <2>10, <2>11 DEF Step
<1>4. CASE \E r \in Requests : PrincipalGone(r)
  BY <1>4, PrincipalGoneIInv
<1>5. CASE \E r \in Requests : Crash(r)
  BY <1>5, CrashIInv
<1>6. CASE Tick
  BY <1>6, TickIInv
<1>7. CASE UNCHANGED vars
  BY <1>7 DEF vars, IInv, TypeOK, LockHeld, Exclusion, AllIssued, NewToken, LinkPublished,
              KnownPublished, NoHeirYet, HeirReplaces, OneHeir, Unseen, YoungHeir,
              Handover, LinkKnown, LinkGrows, GraceChain
<1>. QED
  BY <1>1, <1>2, <1>3, <1>4, <1>5, <1>6, <1>7 DEF Next

\* The inductive invariant holds in every reachable state.
THEOREM InductiveInvariant == Spec => []IInv
  BY InitIInv, NextIInv, PTL DEF Spec

\* Keys never have a negative time to live, and every part of the state stays
\* within its type, whatever is interleaved.
THEOREM TypeCorrect == Spec => []TypeOK
<1>1. IInv => TypeOK
  BY DEF IInv
<1>. QED
  BY <1>1, InductiveInvariant, PTL

\* Clients never hold two successors of a token whose exchange was not cut:
\* both would be published (KnownPublished), and only one is (OneHeir).
LEMMA IInvSingleUse == IInv => SingleUse
<1>. SUFFICES ASSUME IInv, NEW t \in Tokens, t \notin disturbed
              PROVE  ~(Cardinality(Heirs(t)) > 1)
  BY DEF SingleUse
<1>1. t # NoToken
  OBVIOUS
<1>2. \A m, n \in Heirs(t) : m = n
  BY <1>1 DEF IInv, Heirs, KnownPublished, OneHeir
<1>3. CASE Heirs(t) = {}
  BY <1>3, FS_EmptySet
<1>4. ASSUME NEW n \in Heirs(t) PROVE ~(Cardinality(Heirs(t)) > 1)
  <2>1. Heirs(t) = {n}
    BY <1>2, <1>4
  <2>. QED
    BY <2>1, FS_Singleton
<1>. QED
  BY <1>3, <1>4

\* exchange: a token that is not cut in the middle of its writes is exchanged
\* for one successor, however many requests present it and whenever they do.
THEOREM TokensSingleUse == Spec => []SingleUse
  BY InductiveInvariant, IInvSingleUse, PTL

\* The rotated key of a token does not outlive what it leads to.
THEOREM GraceChainHolds == Spec => []GraceChain
<1>1. IInv => GraceChain
  BY DEF IInv
<1>. QED
  BY <1>1, InductiveInvariant, PTL

-----------------------------------------------------------------------------
(* Rotated keys never lead in a circle. *)

\* A rotated key is written for a successor that has none itself, since no
\* client has seen it yet: a circle would have been there before.
LEMMA SetLinkNoCircle ==
  ASSUME IInv, NoCircle, NEW r \in Requests, SetLink(r)
  PROVE  NoCircle'
<1>. DEFINE k == tok[r]
            n == new[r]
<1>. SUFFICES ASSUME NEW S \in SUBSET Tokens,
                     \A u \in S : linkTTL'[u] > 0 /\ linkTo'[u] \in S
              PROVE  S = {}
  BY DEF NoCircle
<1>1. /\ k \in known /\ n \notin known /\ n \in Tokens /\ k \in Tokens
      /\ linkTo \in [Tokens -> Tokens \cup {NoToken}] /\ linkTTL \in [Tokens -> Nat]
  BY DEF SetLink, IInv, Unseen, NewToken, AllIssued, TypeOK
<1>2. linkTTL[n] = 0
  BY <1>1 DEF IInv, LinkKnown
<1>3. n \notin S
  BY <1>1, <1>2 DEF SetLink
<1>4. \A u \in S : linkTTL[u] > 0 /\ linkTo[u] \in S
  BY <1>1, <1>3 DEF SetLink
<1>. QED
  BY <1>4 DEF NoCircle

\* Every other step only takes rotated keys away.
LEMMA NextNoCircle == IInv /\ NoCircle /\ [Next]_vars => NoCircle'
<1>. SUFFICES ASSUME IInv, NoCircle, [Next]_vars PROVE NoCircle'
  OBVIOUS
<1>1. CASE UNCHANGED <<linkTo, linkTTL>>
  BY <1>1 DEF NoCircle
<1>2. CASE Tick
  <2>1. \A u \in Tokens : linkTTL'[u] > 0 => linkTTL[u] > 0 /\ linkTo'[u] = linkTo[u]
    BY <1>2 DEF Tick, Minus1, IInv, TypeOK
  <2>. QED
    BY <2>1 DEF NoCircle
<1>3. ASSUME NEW r \in Requests, Step(r) PROVE NoCircle'
  BY <1>1, <1>3, SetLinkNoCircle
     DEF Step, CheckKey, CheckLink, Acquire, ReadLink, FollowKey, FollowLink,
         ReadPrincipal, Build, Delete, Unlock
<1>. QED
  BY <1>1, <1>2, <1>3 DEF Next, vars, Login, Present, PrincipalGone, Crash

\* The recursion of validateToken goes along rotated keys; there is no circle of
\* them, whatever requests race, crash or are overtaken by their leases.
THEOREM NoCircleHolds == Spec => []NoCircle
<1>1. Init => NoCircle
  BY DEF Init, NoCircle
<1>. QED
  BY <1>1, NextNoCircle, InductiveInvariant, PTL DEF Spec
=============================================================================
