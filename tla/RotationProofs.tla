--------------------------- MODULE RotationProofs ---------------------------
(***************************************************************************)
(* Proofs about RefreshTokens: what a request that reads meets while others *)
(* write, whatever crashes and overruns (a good token is not turned away),  *)
(* and, as long as no exchange is cut, that the exchange is the rotation of *)
(* OneTimeTokens, taken in one step at SetLink.                             *)
(***************************************************************************)
EXTENDS RefreshTokensProofs

USE SortsAssumption, TimesAssumption, BoundsAssumption
USE DEF Finish, Goto, BuildToken, redis, local, history,
        Exchanging, Following, Checking, Critical, PC

\* A request in validateToken, and one that has left the token it presented.
Seeking(r) == pc[r] \in Checking \cup Following
Followed(r) == Seeking(r) /\ (pc[r] \in Following \/ cur[r] # tok[r])

\* Rotated keys with at least k ticks left lead from t to c, past tokens whose
\* own keys are gone.
Path(k, t, c) ==
  \A S \in SUBSET Tokens :
    /\ c \in S
    /\ \A u \in Tokens : store[u] = 0 /\ linkTTL[u] >= k /\ linkTo[u] \in S => u \in S
    => t \in S

\* What RInv says of one request: who has left a token did so because its key
\* was gone and it had been rotated, and as long as its rotated key is there the
\* path to where the request is now is there; a key that was missed does not
\* come back; nobody else writes the rotated key during an exchange.
RequestOK(r) ==
  /\ Followed(r) /\ tok[r] \notin disturbed =>
       /\ store[tok[r]] = 0
       /\ \E n \in published : parent[n] = tok[r]
       /\ linkTTL[tok[r]] > 0 => Path(linkTTL[tok[r]], tok[r], cur[r])
  /\ pc[r] \in {"CheckLink", "FollowLink"} => store[cur[r]] = 0
  /\ pc[r] = "ReadPrincipal" /\ tok[r] \notin disturbed => linkTTL[tok[r]] = 0

RInv == \A r \in Requests : RequestOK(r)

-----------------------------------------------------------------------------
(* Paths. *)

\* A token leads to itself.
LEMMA PathSelf ==
  ASSUME NEW k, NEW t
  PROVE  Path(k, t, t)
BY DEF Path

\* A path goes on by the rotated key of the token it leads to: that key was
\* written after those on the path (LinkGrows), hence lasts as long.
LEMMA PathOn ==
  ASSUME IInv, NEW t \in Tokens, NEW c \in Tokens, linkTTL[t] > 0,
         Path(linkTTL[t], t, c), store[c] = 0, linkTTL[c] > 0
  PROVE  Path(linkTTL[t], t, linkTo[c])
<1>. DEFINE k == linkTTL[t]
<1>1. linkTTL \in [Tokens -> Nat]
  BY DEF IInv, TypeOK
<1>2. linkTTL[c] >= k
  <2>. SUFFICES ASSUME linkTTL[c] < k PROVE FALSE
    BY <1>1
  <2>. DEFINE S == {u \in Tokens : linkTTL[u] > 0 /\ linkTTL[u] < k}
  <2>1. ASSUME NEW u \in Tokens, linkTTL[u] >= k, linkTo[u] \in S PROVE FALSE
    BY <1>1, <2>1 DEF IInv, LinkGrows
  <2>2. t \in S
    BY <2>1 DEF Path
  <2>. QED
    BY <1>1, <2>2
<1>. QED
  BY <1>2 DEF Path

\* A step keeps a path that keeps the rotated keys on it, all running out alike.
LEMMA PathKept ==
  ASSUME NEW t, NEW c, NEW k, NEW j, Path(k, t, c),
         \A u \in Tokens : store[u] = 0 /\ linkTTL[u] >= k =>
           store'[u] = 0 /\ linkTTL'[u] >= j /\ linkTo'[u] = linkTo[u]
  PROVE  Path(j, t, c)'
<1>. SUFFICES ASSUME NEW S \in SUBSET Tokens, c \in S,
                     \A u \in Tokens : store'[u] = 0 /\ linkTTL'[u] >= j /\ linkTo'[u] \in S => u \in S
              PROVE  t \in S
  BY DEF Path
<1>. QED
  BY DEF Path

\* The path of a request is kept by a step that lets the keys on it run out no
\* sooner than the first.
LEMMA OwnPathKept ==
  ASSUME NEW r, tok'[r] = tok[r], cur'[r] = cur[r],
         Path(linkTTL[tok[r]], tok[r], cur[r]),
         \A u \in Tokens : store[u] = 0 /\ linkTTL[u] >= linkTTL[tok[r]] =>
           store'[u] = 0 /\ linkTTL'[u] >= linkTTL'[tok[r]] /\ linkTo'[u] = linkTo[u]
  PROVE  Path(linkTTL[tok[r]], tok[r], cur[r])'
<1>. SUFFICES ASSUME NEW S \in SUBSET Tokens, cur[r] \in S,
                     \A u \in Tokens : /\ store'[u] = 0
                                       /\ linkTTL'[u] >= linkTTL'[tok[r]]
                                       /\ linkTo'[u] \in S
                                       => u \in S
              PROVE  tok[r] \in S
  BY DEF Path
<1>. QED
  BY DEF Path

\* A path to a token that is not accepted starts at one that is not accepted.
LEMMA PathToDead ==
  ASSUME NEW k, NEW t \in Tokens, NEW c \in Tokens, k > 0,
         Path(k, t, c), store[c] = 0, linkTTL[c] = 0,
         store \in [Tokens -> Nat], linkTTL \in [Tokens -> Nat], k \in Nat
  PROVE  ~Resolves(t)
<1>. DEFINE B == {u \in Tokens : Path(k, u, c)}
<1>1. c \in B /\ t \in B
  BY PathSelf
<1>2. \A u \in Tokens : store[u] = 0 /\ linkTTL[u] >= k /\ linkTo[u] \in B => u \in B
  BY DEF Path
<1>3. \A u \in B : store[u] = 0
  <2>. DEFINE S == {v \in Tokens : store[v] = 0}
  <2>. SUFFICES ASSUME NEW u \in B PROVE u \in S
    OBVIOUS
  <2>. QED
    BY DEF Path
<1>4. ASSUME NEW u \in Tokens, linkTTL[u] > 0, linkTo[u] \in Tokens \ B PROVE u \notin B
  <2>. SUFFICES ASSUME u \in B PROVE FALSE
    OBVIOUS
  <2>. DEFINE S == B \ {u}
  <2>1. c \in S
    BY <1>1, <1>4
  <2>2. \A v \in Tokens : store[v] = 0 /\ linkTTL[v] >= k /\ linkTo[v] \in S => v \in S
    BY <1>2, <1>4
  <2>. HIDE DEF S
  <2>3. u \in S
    <3>1. S \in SUBSET Tokens /\ Path(k, u, c)
      BY DEF S
    <3>. QED
      BY <2>1, <2>2, <3>1 DEF Path
  <2>. QED
    BY <2>3 DEF S
<1>5. Closed(Tokens \ B)
  <2>. HIDE DEF B
  <2>1. \A u \in Tokens : store[u] > 0 => u \in Tokens \ B
    BY <1>3
  <2>2. \A u \in Tokens : linkTTL[u] > 0 /\ linkTo[u] \in Tokens \ B => u \in Tokens \ B
    BY <1>4
  <2>. QED
    BY <2>1, <2>2 DEF Closed
<1>. QED
  BY <1>1, <1>5 DEF Resolves

-----------------------------------------------------------------------------
(* RInv is inductive beside IInv. *)

\* Before the first login no request follows anything.
LEMMA InitRInv == Init => RInv
BY DEF Init, RInv, RequestOK, Followed, Seeking

\* A step that leaves the keys alone concerns the request that takes it only.
LEMMA OwnStep ==
  ASSUME RInv, NEW r \in Requests, UNCHANGED <<store, linkTo, linkTTL, published, parent>>,
         disturbed \subseteq disturbed',
         \A q \in Requests \ {r} : pc'[q] = pc[q] /\ tok'[q] = tok[q] /\ cur'[q] = cur[q],
         RequestOK(r)'
  PROVE  RInv'
<1>. SUFFICES ASSUME NEW q \in Requests \ {r} PROVE RequestOK(q)'
  BY DEF RInv
<1>1. RequestOK(q) /\ (Followed(q)' <=> Followed(q)) /\ pc'[q] = pc[q] /\ tok'[q] = tok[q] /\ cur'[q] = cur[q]
  BY DEF RInv, Followed, Seeking
<1>2. \A k, t, c : Path(k, t, c) => Path(k, t, c)'
  BY DEF Path
<1>. QED
  BY <1>1, <1>2 DEF RequestOK

\* A token that is drawn is none that a request follows.
LEMMA SeekingIssued ==
  ASSUME IInv, NEW r \in Requests, Seeking(r)
  PROVE  /\ cur[r] \in issued /\ tok[r] \in issued
         /\ cur[r] \in Tokens /\ tok[r] \in Tokens
BY DEF IInv, TypeOK, AllIssued, NewToken, Seeking

\* Presenting a token starts at its storage key.
LEMMA PresentRInv ==
  ASSUME IInv, RInv, NEW r \in Requests, NEW t \in Tokens, Present(r, t)
  PROVE  RInv'
<1>1. RequestOK(r)'
  BY DEF Present, IInv, TypeOK, Followed, Seeking, RequestOK
<1>. QED
  BY <1>1, OwnStep DEF Present, IInv, TypeOK

\* Who reads a key stays where it is, and if it misses one, it is gone.
LEMMA KeyReadRInv ==
  ASSUME IInv, RInv, NEW r \in Requests, CheckKey(r) \/ FollowKey(r)
  PROVE  RInv'
<1>1. /\ Seeking(r) /\ tok' = tok /\ cur' = cur /\ pc \in [Requests -> PC]
      /\ \A q \in Requests \ {r} : pc'[q] = pc[q]
      /\ UNCHANGED <<store, linkTo, linkTTL, published, parent, disturbed>>
  BY DEF CheckKey, FollowKey, IInv, TypeOK, Seeking
<1>2. store[cur[r]] \in Nat
  BY <1>1, SeekingIssued DEF IInv, TypeOK
<1>3. /\ Followed(r)' => Followed(r)
      /\ pc'[r] \in {"CheckLink", "FollowLink"} => store[cur[r]] = 0
      /\ pc'[r] # "ReadPrincipal"
  BY <1>1, <1>2 DEF CheckKey, FollowKey, Followed, Seeking
<1>4. \A k, t, c : Path(k, t, c) => Path(k, t, c)'
  BY <1>1 DEF Path
<1>5. RequestOK(r)'
  BY <1>1, <1>3, <1>4 DEF RInv, RequestOK
<1>. QED
  BY <1>1, <1>5, OwnStep

\* Who follows a rotated key goes one further on its path.
LEMMA FollowsRInv ==
  ASSUME IInv, RInv, NEW r \in Requests, CheckLink(r) \/ FollowLink(r), linkTTL[cur[r]] > 0
  PROVE  RInv'
<1>. DEFINE c == cur[r]
            n == linkTo[c]
            t == tok[r]
<1>1. /\ pc[r] \in {"CheckLink", "FollowLink"} /\ Seeking(r)
      /\ pc'[r] \in {"CheckKey", "FollowKey"} /\ cur'[r] = n /\ tok' = tok
      /\ \A q \in Requests \ {r} : pc'[q] = pc[q] /\ cur'[q] = cur[q]
      /\ UNCHANGED <<store, linkTo, linkTTL, published, parent, disturbed>>
  BY DEF CheckLink, FollowLink, IInv, TypeOK, Seeking
<1>2. c \in Tokens /\ t \in Tokens /\ store[c] = 0 /\ n \in published /\ parent[n] = c
  BY <1>1, SeekingIssued DEF RInv, RequestOK, IInv, LinkPublished
<1>3. ASSUME t \notin disturbed
      PROVE  /\ store[t] = 0
             /\ \E m \in published : parent[m] = t
             /\ linkTTL[t] > 0 => Path(linkTTL[t], t, c)
  <2>1. CASE Followed(r)
    BY <1>3, <2>1 DEF RInv, RequestOK
  <2>2. CASE ~Followed(r)
    <3>1. c = t
      BY <1>1, <2>2 DEF Followed
    <3>. QED
      BY <1>2, <3>1, PathSelf
  <2>. QED
    BY <2>1, <2>2
<1>4. ASSUME t \notin disturbed, linkTTL[t] > 0 PROVE Path(linkTTL[t], t, n)
  BY <1>2, <1>3, <1>4, PathOn
<1>5. \A k, u, v : Path(k, u, v) => Path(k, u, v)'
  BY <1>1 DEF Path
<1>6. RequestOK(r)'
  BY <1>1, <1>3, <1>4, <1>5 DEF RequestOK
<1>. QED
  BY <1>1, <1>6, OwnStep

\* The end of a path ends the request, or its exchange.
LEMMA EndsRInv ==
  ASSUME IInv, RInv, NEW r \in Requests, CheckLink(r) \/ FollowLink(r), linkTTL[cur[r]] = 0
  PROVE  RInv'
<1>1. /\ pc'[r] \in {"Idle", "Unlock"}
      /\ \A q \in Requests \ {r} : pc'[q] = pc[q] /\ cur'[q] = cur[q] /\ tok'[q] = tok[q]
      /\ UNCHANGED <<store, linkTo, linkTTL, published, parent, disturbed>>
  BY DEF CheckLink, FollowLink, IInv, TypeOK
<1>2. RequestOK(r)'
  BY <1>1 DEF RequestOK, Followed, Seeking
<1>. QED
  BY <1>1, <1>2, OwnStep

\* Under the lock a rotated key that is there means that the key is gone.
LEMMA ReadLinkRInv ==
  ASSUME IInv, RInv, NEW r \in Requests, ReadLink(r)
  PROVE  RInv'
<1>. DEFINE t == tok[r]
<1>1. /\ t \in Tokens /\ pc[r] = "ReadLink" /\ tok' = tok
      /\ linkTTL \in [Tokens -> Nat] /\ store \in [Tokens -> Nat]
      /\ \A q \in Requests \ {r} : pc'[q] = pc[q] /\ cur'[q] = cur[q]
      /\ UNCHANGED <<store, linkTo, linkTTL, published, parent, disturbed>>
  BY DEF ReadLink, IInv, TypeOK, AllIssued
<1>2. CASE linkTTL[t] > 0
  <2>. DEFINE n == linkTo[t]
  <2>1. cur'[r] = n /\ pc'[r] = "FollowKey"
    BY <1>2 DEF ReadLink, IInv, TypeOK
  <2>2. n \in published /\ parent[n] = t
    BY <1>1, <1>2 DEF IInv, LinkPublished
  <2>3. ASSUME t \notin disturbed PROVE store[t] = 0
    <3>1. \A q \in Requests : pc[q] = "Delete" /\ tok[q] = t => q = r
      BY <1>1, <2>3 DEF IInv, Exclusion
    <3>2. t # NoToken
      BY <1>1
    <3>. QED
      BY <1>1, <2>2, <2>3, <3>1, <3>2 DEF IInv, HeirReplaces
  <2>4. ASSUME t \notin disturbed PROVE Path(linkTTL[t], t, n)
    BY <1>1, <1>2, <2>3, <2>4, PathSelf, PathOn
  <2>5. \A k, u, v : Path(k, u, v) => Path(k, u, v)'
    BY <1>1 DEF Path
  <2>6. RequestOK(r)'
    BY <1>1, <2>1, <2>2, <2>3, <2>4, <2>5 DEF RequestOK
  <2>. QED
    BY <1>1, <2>6, OwnStep
<1>3. CASE linkTTL[t] = 0
  <2>1. pc'[r] = "ReadPrincipal" /\ cur' = cur
    BY <1>3 DEF ReadLink, IInv, TypeOK
  <2>2. RequestOK(r)'
    BY <1>1, <1>3, <2>1 DEF RequestOK, Followed, Seeking
  <2>. QED
    BY <1>1, <2>1, <2>2, OwnStep
<1>. QED
  BY <1>1, <1>2, <1>3

\* The other steps of a request that leave the keys alone: it is past reading,
\* or gone, with the instance or without.
LEMMA LeavesRInv ==
  ASSUME IInv, RInv, NEW r \in Requests,
         PrincipalGone(r) \/ Acquire(r) \/ ReadPrincipal(r) \/ Unlock(r) \/ Crash(r)
  PROVE  RInv'
<1>1. /\ pc'[r] \in {"Idle", "ReadLink", "Build", "Unlock"}
      /\ \A q \in Requests \ {r} : pc'[q] = pc[q] /\ cur'[q] = cur[q] /\ tok'[q] = tok[q]
      /\ UNCHANGED <<store, linkTo, linkTTL, published, parent>> /\ disturbed \subseteq disturbed'
  BY DEF PrincipalGone, Acquire, ReadPrincipal, Unlock, Crash, IInv, TypeOK
<1>2. RequestOK(r)'
  BY <1>1 DEF RequestOK, Followed, Seeking
<1>. QED
  BY <1>1, <1>2, OwnStep

\* A fresh key is on no path and is none that was missed.
LEMMA FreshRInv ==
  ASSUME IInv, RInv, NEW n \in Tokens, BuildToken(n),
         published \subseteq published', \A m \in published : parent'[m] = parent[m],
         UNCHANGED <<linkTo, linkTTL, tok, cur, disturbed>>,
         \A q \in Requests : pc'[q] = pc[q] \/ (pc[q] = "Build" /\ pc'[q] = "SetLink")
  PROVE  RInv'
<1>. SUFFICES ASSUME NEW q \in Requests PROVE RequestOK(q)'
  BY DEF RInv
<1>1. CASE pc'[q] # pc[q]
  BY <1>1 DEF RequestOK, Followed, Seeking
<1>2. CASE pc'[q] = pc[q]
  <2>1. n \notin issued /\ store' = [store EXCEPT ![n] = TokenTTL] /\ store \in [Tokens -> Nat]
    BY DEF IInv, TypeOK
  <2>2. Seeking(q) => cur[q] # n /\ tok[q] # n /\ cur[q] \in Tokens /\ tok[q] \in Tokens
    BY <2>1, SeekingIssued
  <2>3. linkTTL[n] = 0
    BY <2>1 DEF IInv, TypeOK, LinkKnown, AllIssued
  <2>4. ASSUME NEW k \in Nat, k > 0, NEW t, NEW c, Path(k, t, c) PROVE Path(k, t, c)'
    <3>1. \A u \in Tokens : store[u] = 0 /\ linkTTL[u] >= k =>
            store'[u] = 0 /\ linkTTL'[u] >= k /\ linkTo'[u] = linkTo[u]
      BY <2>1, <2>3, <2>4
    <3>. QED
      BY <2>4, <3>1, PathKept
  <2>5. Followed(q)' <=> Followed(q)
    BY <1>2 DEF Followed, Seeking
  <2>6. linkTTL \in [Tokens -> Nat]
    BY DEF IInv, TypeOK
  <2>7. ASSUME Followed(q), tok[q] \notin disturbed, linkTTL[tok[q]] > 0
        PROVE  Path(linkTTL[tok[q]], tok[q], cur[q])'
    BY <2>2, <2>4, <2>6, <2>7 DEF RInv, RequestOK, Followed
  <2>8. Followed(q) /\ tok[q] \notin disturbed =>
          store'[tok[q]] = 0 /\ \E m \in published' : parent'[m] = tok[q]
    BY <2>1, <2>2 DEF RInv, RequestOK, Followed
  <2>9. pc[q] \in {"CheckLink", "FollowLink"} => store'[cur[q]] = 0
    BY <2>1, <2>2 DEF RInv, RequestOK, Seeking
  <2>10. pc[q] = "ReadPrincipal" /\ tok[q] \notin disturbed => linkTTL[tok[q]] = 0
    BY DEF RInv, RequestOK
  <2>. QED
    BY <1>2, <2>5, <2>7, <2>8, <2>9, <2>10 DEF RequestOK
<1>. QED
  BY <1>1, <1>2

\* The rotated key is set for a token that no request has left.
LEMMA SetLinkRInv ==
  ASSUME IInv, RInv, NEW r \in Requests, SetLink(r)
  PROVE  RInv'
<1>. SUFFICES ASSUME NEW q \in Requests PROVE RequestOK(q)'
  BY DEF RInv
<1>1. /\ pc[r] = "SetLink" /\ pc'[r] = "Delete" /\ tok[r] \in Tokens
      /\ \A p \in Requests \ {r} : pc'[p] = pc[p]
      /\ UNCHANGED <<store, tok, cur, parent, disturbed>> /\ published \subseteq published'
      /\ linkTTL \in [Tokens -> Nat]
      /\ \A u \in Tokens : u # tok[r] \/ linkTTL[u] > 0 =>
           linkTTL'[u] = linkTTL[u] /\ linkTo'[u] = linkTo[u]
  BY DEF SetLink, IInv, TypeOK, AllIssued
<1>2. CASE q = r
  BY <1>1, <1>2 DEF RequestOK, Followed, Seeking
<1>3. CASE q # r
  <2>1. Followed(q)' <=> Followed(q)
    BY <1>1, <1>3 DEF Followed, Seeking
  <2>2. Seeking(q) => cur[q] \in Tokens /\ tok[q] \in Tokens
    BY SeekingIssued
  <2>3. ASSUME Followed(q), tok[q] \notin disturbed
        PROVE  /\ tok[q] # tok[r] /\ tok[q] \in Tokens
               /\ linkTTL[tok[q]] > 0 => Path(linkTTL[tok[q]], tok[q], cur[q])
    <3>1. /\ \E n \in published : parent[n] = tok[q]
          /\ linkTTL[tok[q]] > 0 => Path(linkTTL[tok[q]], tok[q], cur[q])
      BY <2>3 DEF RInv, RequestOK
    <3>. QED
      BY <1>1, <2>2, <2>3, <3>1 DEF IInv, NoHeirYet, Followed
  <2>4. ASSUME Followed(q), tok[q] \notin disturbed, linkTTL[tok[q]] > 0
        PROVE  Path(linkTTL[tok[q]], tok[q], cur[q])'
    <3>1. linkTTL[tok[q]] \in Nat /\ linkTTL'[tok[q]] = linkTTL[tok[q]]
      BY <1>1, <2>3, <2>4
    <3>2. \A u \in Tokens : store[u] = 0 /\ linkTTL[u] >= linkTTL[tok[q]] =>
            store'[u] = 0 /\ linkTTL'[u] >= linkTTL'[tok[q]] /\ linkTo'[u] = linkTo[u]
      BY <1>1, <2>4, <3>1
    <3>3. Path(linkTTL[tok[q]], tok[q], cur[q])
      BY <2>3, <2>4
    <3>. QED
      BY <1>1, <3>2, <3>3, OwnPathKept
  <2>5. pc[q] = "ReadPrincipal" /\ tok[q] \notin disturbed => linkTTL'[tok[q]] = 0
    <3>. SUFFICES ASSUME pc[q] = "ReadPrincipal", tok[q] \notin disturbed PROVE linkTTL'[tok[q]] = 0
      OBVIOUS
    <3>1. tok[q] # tok[r] /\ tok[q] \in Tokens
      BY <1>1, <1>3 DEF IInv, Exclusion, AllIssued, TypeOK
    <3>. QED
      BY <1>1, <3>1 DEF RInv, RequestOK
  <2>6. linkTTL'[tok[q]] > 0 /\ Followed(q) /\ tok[q] \notin disturbed => linkTTL[tok[q]] > 0
    BY <1>1, <2>3
  <2>7. RequestOK(q) /\ pc'[q] = pc[q]
    BY <1>1, <1>3 DEF RInv
  <2>. QED
    BY <1>1, <2>1, <2>4, <2>5, <2>6, <2>7 DEF RequestOK
<1>. QED
  BY <1>2, <1>3

\* A key that is deleted opens no gap in a path.
LEMMA DeleteRInv ==
  ASSUME IInv, RInv, NEW r \in Requests, Delete(r)
  PROVE  RInv'
<1>. SUFFICES ASSUME NEW q \in Requests PROVE RequestOK(q)'
  BY DEF RInv
<1>1. /\ pc'[r] = "Unlock" /\ tok[r] \in Tokens
      /\ \A p \in Requests \ {r} : pc'[p] = pc[p]
      /\ UNCHANGED <<linkTo, linkTTL, tok, cur, published, parent, disturbed>>
      /\ store' = [store EXCEPT ![tok[r]] = 0] /\ store \in [Tokens -> Nat]
      /\ linkTTL \in [Tokens -> Nat]
  BY DEF Delete, IInv, TypeOK, AllIssued
<1>2. CASE q = r
  BY <1>1, <1>2 DEF RequestOK, Followed, Seeking
<1>3. CASE q # r
  <2>1. (Followed(q)' <=> Followed(q)) /\ pc'[q] = pc[q]
    BY <1>1, <1>3 DEF Followed, Seeking
  <2>2. Seeking(q) => cur[q] \in Tokens /\ tok[q] \in Tokens
    BY SeekingIssued
  <2>3. \A k, t, c : Path(k, t, c) => Path(k, t, c)'
    BY <1>1 DEF Path
  <2>. QED
    BY <1>1, <2>1, <2>2, <2>3 DEF RInv, RequestOK, Followed, Seeking
<1>. QED
  BY <1>2, <1>3

\* The keys of a path run out alike.
LEMMA TickRInv ==
  ASSUME IInv, RInv, Tick
  PROVE  RInv'
<1>. SUFFICES ASSUME NEW q \in Requests PROVE RequestOK(q)'
  BY DEF RInv
<1>1. /\ store' = Minus1(store) /\ linkTTL' = Minus1(linkTTL)
      /\ linkTo' = [t \in Tokens |-> IF linkTTL[t] > 1 THEN linkTo[t] ELSE NoToken]
      /\ UNCHANGED <<pc, tok, cur, published, parent>> /\ disturbed \subseteq disturbed'
      /\ store \in [Tokens -> Nat] /\ linkTTL \in [Tokens -> Nat]
  BY DEF Tick, IInv, TypeOK
<1>2. \A t \in Tokens : /\ store'[t] = IF store[t] > 0 THEN store[t] - 1 ELSE 0
                        /\ linkTTL'[t] = IF linkTTL[t] > 0 THEN linkTTL[t] - 1 ELSE 0
  BY <1>1 DEF Minus1
<1>3. /\ Followed(q)' <=> Followed(q)
      /\ pc[q] # "Idle" => tok[q] \in Tokens
      /\ Seeking(q) => cur[q] \in Tokens
      /\ RequestOK(q)
  BY <1>1, SeekingIssued DEF Followed, Seeking, IInv, TypeOK, AllIssued, RInv
<1>4. ASSUME Followed(q), tok[q] \notin disturbed'
      PROVE  /\ store'[tok[q]] = 0
             /\ \E n \in published : parent[n] = tok[q]
             /\ linkTTL'[tok[q]] > 0 => Path(linkTTL[tok[q]], tok[q], cur[q])'
  <2>1. tok[q] \in Tokens /\ tok[q] \notin disturbed
    BY <1>1, <1>3, <1>4 DEF Followed, Seeking
  <2>2. store[tok[q]] = 0 /\ \E n \in published : parent[n] = tok[q]
    BY <1>3, <1>4, <2>1 DEF RequestOK
  <2>3. ASSUME linkTTL'[tok[q]] > 0 PROVE Path(linkTTL[tok[q]], tok[q], cur[q])'
    <3>1. linkTTL[tok[q]] > 1 /\ linkTTL[tok[q]] \in Nat
      BY <1>1, <1>2, <2>1, <2>3
    <3>2. Path(linkTTL[tok[q]], tok[q], cur[q])
      BY <1>3, <1>4, <2>1, <3>1 DEF RequestOK
    <3>3. ASSUME NEW u \in Tokens, store[u] = 0, linkTTL[u] >= linkTTL[tok[q]]
          PROVE  store'[u] = 0 /\ linkTTL'[u] >= linkTTL'[tok[q]] /\ linkTo'[u] = linkTo[u]
      <4>1. linkTTL[u] > 1 /\ linkTTL[u] \in Nat
        BY <1>1, <3>1, <3>3
      <4>. QED
        BY <1>1, <1>2, <2>1, <3>1, <3>3, <4>1
    <3>. QED
      BY <1>1, <3>2, <3>3, OwnPathKept
  <2>. QED
    BY <1>2, <2>1, <2>2, <2>3
<1>5. pc[q] \in {"CheckLink", "FollowLink"} => store'[cur[q]] = 0
  BY <1>2, <1>3 DEF RequestOK, Seeking
<1>6. pc[q] = "ReadPrincipal" /\ tok[q] \notin disturbed' => linkTTL'[tok[q]] = 0
  <2>1. tok[q] \notin disturbed' => tok[q] \notin disturbed
    BY <1>1
  <2>. QED
    BY <1>2, <1>3, <2>1 DEF RequestOK
<1>7. Followed(q)' /\ tok'[q] \notin disturbed' =>
        /\ store'[tok'[q]] = 0
        /\ \E n \in published' : parent'[n] = tok'[q]
        /\ linkTTL'[tok'[q]] > 0 => Path(linkTTL[tok[q]], tok[q], cur[q])'
  BY <1>1, <1>3, <1>4
<1>8. pc'[q] = pc[q] /\ tok'[q] = tok[q] /\ cur'[q] = cur[q]
  BY <1>1
<1>. QED
  BY <1>5, <1>6, <1>7, <1>8 DEF RequestOK

\* Every step keeps the invariant, action by action.
LEMMA NextRInv == IInv /\ RInv /\ [Next]_vars => RInv'
<1>. SUFFICES ASSUME IInv, RInv, [Next]_vars PROVE RInv'
  OBVIOUS
<1>1. ASSUME NEW n \in Tokens, Login(n) PROVE RInv'
  BY <1>1, FreshRInv DEF Login
<1>2. ASSUME NEW r \in Requests, NEW t \in Tokens, Present(r, t) PROVE RInv'
  BY <1>2, PresentRInv
<1>3. ASSUME NEW r \in Requests, Step(r) PROVE RInv'
  <2>1. ASSUME NEW n \in Tokens, Build(r, n) PROVE RInv'
    <3>1. /\ \A m \in published : parent'[m] = parent[m]
          /\ \A q \in Requests : pc'[q] = pc[q] \/ (pc[q] = "Build" /\ pc'[q] = "SetLink")
      BY <2>1 DEF Build, IInv, TypeOK, AllIssued
    <3>. QED
      BY <2>1, <3>1, FreshRInv DEF Build
  <2>2. CASE CheckLink(r) \/ FollowLink(r)
    BY <2>2, FollowsRInv, EndsRInv DEF CheckLink, FollowLink
  <2>3. CASE CheckKey(r) \/ FollowKey(r)
    BY <2>3, KeyReadRInv
  <2>4. CASE Acquire(r) \/ ReadPrincipal(r) \/ Unlock(r)
    BY <2>4, LeavesRInv
  <2>. QED
    BY <1>3, <2>1, <2>2, <2>3, <2>4, ReadLinkRInv, SetLinkRInv, DeleteRInv DEF Step
<1>4. ASSUME NEW r \in Requests, PrincipalGone(r) \/ Crash(r) PROVE RInv'
  BY <1>4, LeavesRInv
<1>5. CASE Tick
  BY <1>5, TickRInv
<1>6. CASE UNCHANGED vars
  BY <1>6 DEF vars, RInv, RequestOK, Followed, Seeking, Path
<1>. QED
  BY <1>1, <1>2, <1>3, <1>4, <1>5, <1>6 DEF Next

-----------------------------------------------------------------------------
(* What is accepted, step by step. *)

\* Without a key and without a rotated key a token is not accepted.
LEMMA GoneIsNotResolved ==
  ASSUME NEW t \in Tokens, store[t] = 0, linkTTL[t] = 0
  PROVE  ~Resolves(t)
<1>1. Closed(Tokens \ {t})
  <2>1. \A u \in Tokens : store[u] > 0 => u \in Tokens \ {t}
    OBVIOUS
  <2>2. \A u \in Tokens : linkTTL[u] > 0 /\ linkTo[u] \in Tokens \ {t} => u \in Tokens \ {t}
    OBVIOUS
  <2>. QED
    BY <2>1, <2>2 DEF Closed
<1>. QED
  BY <1>1 DEF Resolves

\* Keys that go make nothing acceptable.
LEMMA ResolvesShrinks ==
  ASSUME NEW t,
         \A u \in Tokens : store'[u] > 0 => store[u] > 0,
         \A u \in Tokens : linkTTL'[u] > 0 => linkTTL[u] > 0 /\ linkTo'[u] = linkTo[u],
         Resolves(t)'
  PROVE  Resolves(t)
<1>1. \A S \in SUBSET Tokens : Closed(S) => Closed(S)'
  BY DEF Closed
<1>. QED
  BY <1>1 DEF Resolves

\* Whether a token is accepted depends on the keys and the rotated keys only.
LEMMA ResolvesSame ==
  ASSUME NEW t, UNCHANGED <<store, linkTo, linkTTL>>
  PROVE  Resolves(t)' <=> Resolves(t)
BY DEF Resolves, Closed

\* A fresh key is accepted, and nothing else is for it: no rotated key names it.
LEMMA ResolvesFresh ==
  ASSUME NEW n \in Tokens, n \notin published, LinkPublished,
         store \in [Tokens -> Nat], store' = [store EXCEPT ![n] = TokenTTL],
         UNCHANGED <<linkTo, linkTTL>>
  PROVE  /\ Resolves(n)'
         /\ \A t \in published : Resolves(t)' <=> Resolves(t)
<1>1. TokenTTL > 0
  OBVIOUS
<1>2. \A S \in SUBSET Tokens : Closed(S)' => n \in S /\ Closed(S)
  BY <1>1 DEF Closed
<1>3. ASSUME NEW S \in SUBSET Tokens, Closed(S) PROVE Closed(S \cup {n})'
  <2>1. \A u \in Tokens : store'[u] > 0 => u \in S \cup {n}
    BY <1>3 DEF Closed
  <2>2. \A u \in Tokens : linkTTL[u] > 0 /\ linkTo[u] \in S \cup {n} => u \in S \cup {n}
    BY <1>3 DEF Closed, LinkPublished
  <2>. QED
    BY <2>1, <2>2 DEF Closed
<1>4. Resolves(n)'
  BY <1>2 DEF Resolves
<1>5. ASSUME NEW t \in published, Resolves(t) PROVE Resolves(t)'
  BY <1>2, <1>5 DEF Resolves
<1>6. ASSUME NEW t \in published, Resolves(t)' PROVE Resolves(t)
  <2>. SUFFICES ASSUME NEW S \in SUBSET Tokens, Closed(S) PROVE t \in S
    BY DEF Resolves
  <2>1. Closed(S \cup {n})' /\ S \cup {n} \in SUBSET Tokens
    BY <1>3
  <2>. QED
    BY <1>6, <2>1 DEF Resolves
<1>. QED
  BY <1>4, <1>5, <1>6

\* No exchange was cut between its writes.
NothingCut == disturbed = {}

\* The rotated key is set for a token without a successor.
LEMMA SetLinkSets ==
  ASSUME IInv, NothingCut, NEW r \in Requests, SetLink(r)
  PROVE  /\ tok[r] \in Tokens /\ new[r] \in Tokens
         /\ linkTTL[tok[r]] = 0
         /\ linkTo' = [linkTo EXCEPT ![tok[r]] = new[r]]
         /\ linkTTL' = [linkTTL EXCEPT ![tok[r]] = GraceWindow]
         /\ published' = published \cup {new[r]}
         /\ parent[new[r]] = tok[r]
         /\ \A n \in published : parent[n] # tok[r]
<1>1. pc[r] = "SetLink" /\ tok[r] \in Tokens /\ new[r] \in Tokens /\ parent[new[r]] = tok[r]
  BY DEF SetLink, IInv, TypeOK, AllIssued, NewToken
<1>2. \A n \in published : parent[n] # tok[r]
  BY <1>1 DEF IInv, NoHeirYet, NothingCut
<1>3. linkTTL[tok[r]] = 0
  BY <1>1, <1>2 DEF IInv, TypeOK, LinkPublished
<1>. QED
  BY <1>1, <1>2, <1>3 DEF SetLink

\* A rotated key makes the token it is for, and the one it names, acceptable;
\* what leads to the token was so before, the token having a key then (GraceChain).
LEMMA ResolvesRotated ==
  ASSUME IInv, NothingCut, NEW r \in Requests, SetLink(r)
  PROVE  /\ \A t \in {tok[r], new[r]} : Resolves(t)'
         /\ \A t \in published : t # tok[r] => (Resolves(t)' <=> Resolves(t))
<1>1. PICK k \in Tokens, n \in Tokens : k = tok[r] /\ n = new[r]
  BY SetLinkSets
<1>2. /\ linkTTL[k] = 0 /\ linkTo' = [linkTo EXCEPT ![k] = n]
      /\ linkTTL' = [linkTTL EXCEPT ![k] = GraceWindow]
      /\ linkTo \in [Tokens -> Tokens \cup {NoToken}]
      /\ linkTTL \in [Tokens -> Nat] /\ store \in [Tokens -> Nat]
      /\ store' = store /\ GraceWindow > 0
  <2>1. /\ linkTTL[k] = 0 /\ linkTo' = [linkTo EXCEPT ![k] = n]
        /\ linkTTL' = [linkTTL EXCEPT ![k] = GraceWindow]
    BY <1>1, SetLinkSets
  <2>2. /\ linkTo \in [Tokens -> Tokens \cup {NoToken}]
        /\ linkTTL \in [Tokens -> Nat] /\ store \in [Tokens -> Nat]
    BY DEF IInv, TypeOK
  <2>. QED
    BY <2>1, <2>2 DEF SetLink
<1>3. store[n] > 0 /\ n \notin published
  <2>1. lease[k] \in Nat /\ pc[r] = "SetLink"
    BY <1>1 DEF SetLink, IInv, TypeOK
  <2>2. store[n] >= TokenTTL - LeaseTime + lease[k]
    BY <1>1, <2>1 DEF IInv, YoungHeir, NothingCut
  <2>. QED
    BY <1>1, <1>2, <2>1, <2>2 DEF IInv, Unseen
<1>4. \A S \in SUBSET Tokens : Closed(S)' => n \in S /\ k \in S /\ Closed(S)
  <2>. SUFFICES ASSUME NEW S \in SUBSET Tokens, Closed(S)' PROVE n \in S /\ k \in S /\ Closed(S)
    OBVIOUS
  <2>1. n \in S
    BY <1>2, <1>3 DEF Closed
  <2>2. k \in S
    BY <1>2, <2>1 DEF Closed
  <2>3. \A u \in Tokens : linkTTL[u] > 0 /\ linkTo[u] \in S => u \in S
    BY <1>2 DEF Closed
  <2>. QED
    BY <1>2, <2>1, <2>2, <2>3 DEF Closed
<1>5. ASSUME NEW S \in SUBSET Tokens, Closed(S) PROVE Closed(S \cup {k, n})'
  <2>1. \A u \in Tokens : store'[u] > 0 => u \in S \cup {k, n}
    BY <1>2, <1>5 DEF Closed
  <2>2. ASSUME NEW u \in Tokens, linkTTL'[u] > 0, linkTo'[u] \in S \cup {k, n}
        PROVE  u \in S \cup {k, n}
    <3>1. CASE u = k
      BY <3>1
    <3>2. CASE u # k
      <4>1. linkTTL[u] > 0 /\ linkTo[u] \in S \cup {k, n} /\ linkTo[u] \in published
        BY <1>2, <2>2, <3>2 DEF IInv, LinkPublished
      <4>2. linkTo[u] = k => k \in S
        <5>1. linkTo[u] = k => store[k] >= linkTTL[u] \/ linkTTL[k] >= linkTTL[u]
          BY <4>1 DEF IInv, GraceChain, NothingCut
        <5>. QED
          BY <1>2, <1>5, <4>1, <5>1 DEF Closed
      <4>3. linkTo[u] \in S
        BY <1>3, <4>1, <4>2
      <4>. QED
        BY <1>5, <4>1, <4>3 DEF Closed
    <3>. QED
      BY <3>1, <3>2
  <2>. QED
    BY <2>1, <2>2 DEF Closed
<1>6. Resolves(k)' /\ Resolves(n)'
  BY <1>4 DEF Resolves
<1>7. ASSUME NEW t \in published, Resolves(t) PROVE Resolves(t)'
  BY <1>4, <1>7 DEF Resolves
<1>8. ASSUME NEW t \in published, t # k, Resolves(t)' PROVE Resolves(t)
  <2>. SUFFICES ASSUME NEW S \in SUBSET Tokens, Closed(S) PROVE t \in S
    BY DEF Resolves
  <2>1. Closed(S \cup {k, n})' /\ S \cup {k, n} \in SUBSET Tokens
    BY <1>5
  <2>. QED
    BY <1>3, <1>8, <2>1 DEF Resolves
<1>. QED
  <2>1. tok[r] = k /\ new[r] = n /\ tok' = tok /\ new' = new
    BY <1>1 DEF SetLink
  <2>. QED
    BY <1>6, <1>7, <1>8, <2>1

-----------------------------------------------------------------------------
(* The exchange is a rotation. *)

\* The state of the abstract specification.
PredecessorOf == [n \in Tokens |-> IF n \in published THEN parent[n] ELSE NoToken]
Accepted == {t \in published : Resolves(t)}

\* At first no token is issued, and none is accepted.
LEMMA InitRotation == Init => Rotation!Init
<1>. SUFFICES ASSUME Init PROVE Rotation!Init
  OBVIOUS
<1>1. published = {} /\ known = {} /\ \A n \in Tokens : parent[n] = NoToken
  BY DEF Init
<1>. QED
  BY <1>1 DEF Rotation!Init

\* A login is Issue.
LEMMA LoginIssues ==
  ASSUME IInv, NEW n \in Tokens, Login(n)
  PROVE  Rotation!Issue(n)
<1>1. /\ n \notin published /\ parent[n] = NoToken /\ LinkPublished
      /\ store \in [Tokens -> Nat] /\ published \subseteq Tokens
  BY DEF Login, IInv, AllIssued, TypeOK
<1>2. /\ store' = [store EXCEPT ![n] = TokenTTL] /\ published' = published \cup {n}
      /\ known' = known \cup {n} /\ UNCHANGED <<linkTo, linkTTL, parent>>
  BY DEF Login
<1>3. Resolves(n)' /\ \A t \in published : Resolves(t)' <=> Resolves(t)
  BY <1>1, <1>2, ResolvesFresh
<1>4. Accepted' = Accepted \cup {n}
  BY <1>2, <1>3 DEF Accepted
<1>5. PredecessorOf' = PredecessorOf
  BY <1>1, <1>2 DEF PredecessorOf
<1>. QED
  BY <1>1, <1>2, <1>4, <1>5 DEF Rotation!Issue, Accepted, PredecessorOf

\* Setting the rotated key is Rotate.
LEMMA SetLinkRotates ==
  ASSUME IInv, NothingCut, NEW r \in Requests, SetLink(r)
  PROVE  \E t, n \in Tokens : Rotation!Rotate(t, n)
<1>1. PICK k \in Tokens, n \in Tokens : k = tok[r] /\ n = new[r]
  BY SetLinkSets
<1>2. /\ published' = published \cup {n} /\ parent[n] = k
      /\ \A m \in published : parent[m] # k
      /\ UNCHANGED <<known, parent>>
  BY <1>1, SetLinkSets DEF SetLink
<1>3. k \in published /\ n \notin published /\ pc[r] = "SetLink"
  BY <1>1 DEF SetLink, IInv, Unseen, KnownPublished, NothingCut
<1>4. /\ \A t \in {k, n} : Resolves(t)'
      /\ \A t \in published : t # k => (Resolves(t)' <=> Resolves(t))
  BY <1>1, ResolvesRotated
<1>5. Accepted' = Accepted \cup {k, n}
  BY <1>2, <1>3, <1>4 DEF Accepted
<1>6. PredecessorOf' = [PredecessorOf EXCEPT ![n] = k]
  BY <1>2 DEF PredecessorOf
<1>7. ~Rotation!Rotated(k)
  BY <1>2, <1>3 DEF Rotation!Rotated, IInv, TypeOK
<1>8. Rotation!Rotate(k, n)
  BY <1>2, <1>3, <1>5, <1>6, <1>7 DEF Rotation!Rotate, Accepted, PredecessorOf
<1>. QED
  BY <1>8

\* Keys that are deleted or run out are Lapse.
LEMMA KeysLapse ==
  ASSUME UNCHANGED <<parent, published, known>>,
         \A u \in Tokens : store'[u] > 0 => store[u] > 0,
         \A u \in Tokens : linkTTL'[u] > 0 => linkTTL[u] > 0 /\ linkTo'[u] = linkTo[u]
  PROVE  \E S \in SUBSET Accepted : Rotation!Lapse(S)
<1>1. Accepted' \subseteq Accepted
  BY ResolvesShrinks DEF Accepted
<1>2. Accepted' = Accepted \ (Accepted \ Accepted')
  BY <1>1
<1>3. PredecessorOf' = PredecessorOf
  BY DEF PredecessorOf
<1>4. Rotation!Lapse(Accepted \ Accepted')
  BY <1>2, <1>3 DEF Rotation!Lapse, Accepted, PredecessorOf
<1>. QED
  BY <1>4

\* The answer of a request is Answer, or an exception that nobody sees here.
LEMMA UnlockAnswers ==
  ASSUME IInv, NothingCut, NEW r \in Requests, Unlock(r)
  PROVE  (\E n \in Tokens : Rotation!Answer(n)) \/ UNCHANGED Rotation!vars
<1>1. UNCHANGED <<store, linkTo, linkTTL, parent, published>>
  BY DEF Unlock
<1>2. Accepted' = Accepted /\ PredecessorOf' = PredecessorOf
  BY <1>1, ResolvesSame DEF Accepted, PredecessorOf
<1>3. CASE known' = known \cup {new[r]} /\ new[r] # NoToken
  <2>1. new[r] \in published /\ new[r] \in Tokens
    BY <1>3 DEF Unlock, IInv, TypeOK, NewToken, NothingCut
  <2>2. Rotation!Answer(new[r])
    BY <1>1, <1>2, <1>3, <2>1 DEF Rotation!Answer, Accepted, PredecessorOf
  <2>. QED
    BY <2>1, <2>2
<1>4. CASE known' = known
  BY <1>1, <1>2, <1>4 DEF Rotation!vars, Accepted, PredecessorOf
<1>. QED
  BY <1>3, <1>4 DEF Unlock

\* A successor that no rotated key names yet is not there for anybody.
LEMMA BuildIsHidden ==
  ASSUME IInv, NEW r \in Requests, NEW n \in Tokens, Build(r, n)
  PROVE  UNCHANGED Rotation!vars
<1>1. n \notin published /\ LinkPublished /\ store \in [Tokens -> Nat]
  BY DEF Build, IInv, AllIssued, TypeOK
<1>2. /\ store' = [store EXCEPT ![n] = TokenTTL] /\ parent' = [parent EXCEPT ![n] = tok[r]]
      /\ UNCHANGED <<linkTo, linkTTL, published, known>>
  BY DEF Build
<1>3. \A t \in published : Resolves(t)' <=> Resolves(t)
  BY <1>1, <1>2, ResolvesFresh
<1>4. Accepted' = Accepted
  BY <1>2, <1>3 DEF Accepted
<1>5. PredecessorOf' = PredecessorOf
  BY <1>1, <1>2 DEF PredecessorOf, IInv, TypeOK
<1>. QED
  BY <1>2, <1>4, <1>5 DEF Rotation!vars, Accepted, PredecessorOf

\* Reading changes nothing.
LEMMA ReadingIsHidden ==
  ASSUME UNCHANGED <<store, linkTo, linkTTL, parent, published, known>>
  PROVE  UNCHANGED Rotation!vars
<1>1. Accepted' = Accepted /\ PredecessorOf' = PredecessorOf
  BY ResolvesSame DEF Accepted, PredecessorOf
<1>. QED
  BY <1>1 DEF Rotation!vars, Accepted, PredecessorOf

\* Every step of the protocol is a step of Rotation or a stutter.
LEMMA NextRotation ==
  ASSUME IInv, NothingCut, [Next]_vars
  PROVE  [Rotation!Next]_(Rotation!vars)
<1>1. ASSUME NEW n \in Tokens, Login(n) PROVE Rotation!Next
  BY <1>1, LoginIssues DEF Rotation!Next
<1>2. ASSUME NEW r \in Requests, Step(r) PROVE [Rotation!Next]_(Rotation!vars)
  <2>1. CASE SetLink(r)
    BY <2>1, SetLinkRotates DEF Rotation!Next
  <2>2. CASE Delete(r)
    <3>1. \A u \in Tokens : store'[u] > 0 => store[u] > 0
      BY <2>2 DEF Delete, IInv, TypeOK
    <3>2. \E S \in SUBSET Accepted : Rotation!Lapse(S)
      BY <2>2, <3>1, KeysLapse DEF Delete
    <3>. QED
      BY <3>2 DEF Rotation!Next, Accepted
  <2>3. CASE Unlock(r)
    BY <2>3, UnlockAnswers DEF Rotation!Next
  <2>4. CASE \E n \in Tokens : Build(r, n)
    BY <2>4, BuildIsHidden
  <2>5. CASE CheckKey(r) \/ CheckLink(r) \/ Acquire(r) \/ ReadLink(r) \/ FollowKey(r)
             \/ FollowLink(r) \/ ReadPrincipal(r)
    BY <2>5, ReadingIsHidden
       DEF CheckKey, CheckLink, Acquire, ReadLink, FollowKey, FollowLink, ReadPrincipal
  <2>. QED
    BY <1>2, <2>1, <2>2, <2>3, <2>4, <2>5 DEF Step
<1>3. CASE \E r \in Requests, t \in Tokens : Present(r, t)
  BY <1>3, ReadingIsHidden DEF Present
<1>4. CASE \E r \in Requests : PrincipalGone(r)
  BY <1>4, ReadingIsHidden DEF PrincipalGone
<1>5. CASE Tick
  <2>1. /\ store' = Minus1(store) /\ linkTTL' = Minus1(linkTTL)
        /\ linkTo' = [t \in Tokens |-> IF linkTTL[t] > 1 THEN linkTo[t] ELSE NoToken]
        /\ UNCHANGED <<parent, published, known>>
        /\ store \in [Tokens -> Nat] /\ linkTTL \in [Tokens -> Nat]
    BY <1>5 DEF Tick, IInv, TypeOK
  <2>2. \A u \in Tokens : store'[u] > 0 => store[u] > 0
    BY <2>1 DEF Minus1
  <2>3. \A u \in Tokens : linkTTL'[u] > 0 => linkTTL[u] > 0 /\ linkTo'[u] = linkTo[u]
    BY <2>1 DEF Minus1
  <2>4. \E S \in SUBSET Accepted : Rotation!Lapse(S)
    BY <2>1, <2>2, <2>3, KeysLapse
  <2>. QED
    BY <2>4 DEF Rotation!Next, Accepted
<1>6. CASE UNCHANGED vars
  BY <1>6, ReadingIsHidden DEF vars
<1>7. CASE \E r \in Requests : Crash(r)
  BY <1>7, ReadingIsHidden DEF Crash
<1>. QED
  BY <1>1, <1>2, <1>3, <1>4, <1>5, <1>6, <1>7 DEF Next

\* The three steps that turn a request away.
LEMMA TurnsAway ==
  ASSUME IInv, [Next]_vars, NEW r \in Requests, TurnedAway(r)
  PROVE  CheckLink(r) \/ FollowLink(r) \/ ReadPrincipal(r)
<1>1. /\ pc[r] \in {"CheckLink", "FollowLink", "ReadPrincipal"} /\ pc'[r] # pc[r]
      /\ pc'[r] \in {"Idle", "Unlock"} /\ crashes' = crashes
  BY DEF TurnedAway
<1>2. pc \in [Requests -> PC] /\ crashes \in Nat
  BY DEF IInv, TypeOK
<1>3. ~Tick /\ ~(UNCHANGED vars) /\ \A n \in Tokens : ~Login(n)
  BY <1>1 DEF Tick, vars, Login
<1>4. \A q \in Requests, t \in Tokens : ~Present(q, t)
  BY <1>1, <1>2 DEF Present
<1>5. \A q \in Requests : ~PrincipalGone(q) /\ ~Crash(q)
  BY <1>1, <1>2 DEF PrincipalGone, Crash
<1>6. PICK q \in Requests : Step(q)
  BY <1>3, <1>4, <1>5 DEF Next
<1>7. \E p \in PC : pc' = [pc EXCEPT ![q] = p]
  BY <1>6 DEF Step, CheckKey, CheckLink, Acquire, ReadLink, FollowKey, FollowLink,
              ReadPrincipal, Build, SetLink, Delete, Unlock
<1>8. q = r
  BY <1>1, <1>2, <1>7
<1>. QED
  BY <1>1, <1>6, <1>8 DEF Step, CheckKey, Acquire, ReadLink, FollowKey, Build, SetLink,
                          Delete, Unlock

-----------------------------------------------------------------------------
(* The theorems. *)

\* A request that leaves the token it presented for the one a rotated key names
\* is on a path of rotated keys as long as the first of them is there, whatever
\* others write meanwhile.
THEOREM FollowingInductive == Spec => []RInv
<1>. QED
  BY InitRInv, NextRInv, InductiveInvariant, PTL DEF Spec

\* No request is turned away with a token that is good, whatever exchange of it
\* goes on at the same time, is cut or is taken up again (validateToken, exchange).
THEOREM OnlyDeadRejected == Spec => RejectOnlyDead
<1>. DEFINE Rightly(r) == TurnedAway(r) => tok[r] \in disturbed \/ ~Resolves(tok[r])
<1>1. ASSUME IInv, RInv, [Next]_vars, NEW r \in Requests, TurnedAway(r), tok[r] \notin disturbed
      PROVE  ~Resolves(tok[r])
  <2>. DEFINE t == tok[r]
  <2>1. t \in Tokens /\ store \in [Tokens -> Nat] /\ linkTTL \in [Tokens -> Nat]
    BY <1>1 DEF TurnedAway, IInv, TypeOK, AllIssued
  <2>2. CASE CheckLink(r) \/ FollowLink(r)
    <3>1. pc[r] \in {"CheckLink", "FollowLink"} /\ pc'[r] \in {"Idle", "Unlock"}
      BY <1>1, <2>2 DEF CheckLink, FollowLink, TurnedAway
    <3>2. cur[r] \in Tokens /\ store[cur[r]] = 0
      BY <1>1, <3>1, SeekingIssued DEF Seeking, RInv, RequestOK
    <3>3. linkTTL[cur[r]] = 0
      <4>1. pc \in [Requests -> PC]
        BY <1>1 DEF IInv, TypeOK
      <4>2. pc'[r] \notin {"CheckKey", "FollowKey"}
        BY <3>1
      <4>. QED
        BY <2>2, <4>1, <4>2 DEF CheckLink, FollowLink
    <3>4. CASE Followed(r) /\ linkTTL[t] > 0
      <4>1. Path(linkTTL[t], t, cur[r])
        BY <1>1, <3>4 DEF RInv, RequestOK
      <4>2. linkTTL[t] \in Nat
        BY <2>1
      <4>. QED
        BY <2>1, <3>2, <3>3, <3>4, <4>1, <4>2, PathToDead
    <3>5. CASE Followed(r) /\ linkTTL[t] = 0
      <4>1. store[t] = 0
        BY <1>1, <3>5 DEF RInv, RequestOK
      <4>. QED
        BY <2>1, <3>5, <4>1, GoneIsNotResolved
    <3>6. CASE ~Followed(r)
      <4>1. cur[r] = t
        BY <3>1, <3>6, <2>2, <1>1 DEF Followed, Seeking
      <4>. QED
        BY <2>1, <3>2, <3>3, <4>1, GoneIsNotResolved
    <3>. QED
      BY <2>1, <3>4, <3>5, <3>6
  <2>3. CASE ReadPrincipal(r)
    <3>1. store[t] = 0 /\ linkTTL[t] = 0
      <4>1. pc[r] = "ReadPrincipal" /\ pc'[r] # "Build"
        BY <1>1, <2>3 DEF ReadPrincipal, TurnedAway
      <4>. QED
        BY <1>1, <2>1, <2>3, <4>1 DEF ReadPrincipal, IInv, TypeOK, RInv, RequestOK
    <3>. QED
      BY <2>1, <3>1, GoneIsNotResolved
  <2>. QED
    BY <1>1, <2>2, <2>3, TurnsAway
<1>2. IInv /\ RInv /\ [Next]_vars => [\A r \in Requests : Rightly(r)]_vars
  BY <1>1
<1>. QED
  BY <1>2, InductiveInvariant, FollowingInductive, PTL DEF Spec, RejectOnlyDead

\* OpaqueTokenProvider implements OneTimeTokenProvider as long as no exchange is
\* cut: its commands amount to one rotation, at the moment the rotated key is
\* set, and a rotated token is never rotated again.
THEOREM ExchangeIsRotation == Spec /\ []NothingCut => ImplementsRotation
<1>1. IInv /\ NothingCut /\ [Next]_vars => [Rotation!Next]_(Rotation!vars)
  BY NextRotation
<1>. QED
  BY <1>1, InitRotation, InductiveInvariant, PTL DEF Spec, ImplementsRotation, Rotation!Spec

\* Exchanges are cut by an instance that dies or by a lease that ends under its
\* holder, and by nothing else: without them every exchange is a rotation.
THEOREM CutByCrashOrOverrun ==
  ASSUME MaxCrashes = 0, ~CanOverrun
  PROVE  Spec => []NothingCut /\ ImplementsRotation
<1>1. Init => NothingCut
  BY DEF Init, NothingCut
<1>2. ASSUME IInv, NothingCut, [Next]_vars PROVE NothingCut'
  <2>1. \A r \in Requests : ~Crash(r)
    BY <1>2 DEF Crash, IInv, TypeOK
  <2>2. CASE Tick
    BY <1>2, <2>2 DEF Tick, NothingCut
  <2>3. ASSUME NEW r \in Requests, Step(r) PROVE NothingCut'
    BY <1>2, <2>3 DEF NothingCut, Step, CheckKey, CheckLink, Acquire, ReadLink, FollowKey, FollowLink,
       ReadPrincipal, Build, SetLink, Delete, Unlock
  <2>. QED
    BY <1>2, <2>1, <2>2, <2>3 DEF Next, vars, NothingCut, Login, Present, PrincipalGone
<1>. QED
  BY <1>1, <1>2, InductiveInvariant, ExchangeIsRotation, PTL DEF Spec
=============================================================================
