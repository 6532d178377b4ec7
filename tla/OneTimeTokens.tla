--------------------------- MODULE OneTimeTokens ---------------------------
(***************************************************************************)
(* What OneTimeTokenProvider promises, without keys, locks or clocks: a     *)
(* token is issued, it is rotated at most once and then has one successor   *)
(* for good, both are accepted until they lapse, and nobody is given a      *)
(* token that was not issued or rotated.                                    *)
(***************************************************************************)
EXTENDS FiniteSets

CONSTANTS Tokens, NoToken

VARIABLES
  predecessor,  \* the token a token replaced
  published,    \* the tokens that exist
  accepted,     \* the tokens that are accepted
  known         \* the tokens a client was given

vars == <<predecessor, published, accepted, known>>

Init ==
  /\ predecessor = [t \in Tokens |-> NoToken]
  /\ published = {}
  /\ accepted = {}
  /\ known = {}

Rotated(t) == \E n \in published : predecessor[n] = t

Issue(n) ==
  /\ n \in Tokens \ published
  /\ published' = published \cup {n}
  /\ accepted' = accepted \cup {n}
  /\ known' = known \cup {n}
  /\ UNCHANGED predecessor

\* The old token stays accepted for a while.  (Its key may expire while the
\* exchange is under way: it is then accepted once more, through its successor.)
Rotate(t, n) ==
  /\ t \in published /\ ~Rotated(t)
  /\ n \in Tokens \ published
  /\ predecessor' = [predecessor EXCEPT ![n] = t]
  /\ published' = published \cup {n}
  /\ accepted' = accepted \cup {t, n}
  /\ UNCHANGED known

Answer(n) ==
  /\ n \in published
  /\ known' = known \cup {n}
  /\ UNCHANGED <<predecessor, published, accepted>>

Lapse(S) ==
  /\ accepted' = accepted \ S
  /\ UNCHANGED <<predecessor, published, known>>

Next ==
  \/ \E n \in Tokens : Issue(n)
  \/ \E t, n \in Tokens : Rotate(t, n)
  \/ \E n \in Tokens : Answer(n)
  \/ \E S \in SUBSET accepted : Lapse(S)

Spec == Init /\ [][Next]_vars
=============================================================================
