---------------------------- MODULE MCShortcuts ----------------------------
(* A plan that allows little and one that allows more, as in               *)
(* subscription-plans.yml, with limits a small instance can reach.         *)
EXTENDS Shortcuts, TLC

CONSTANTS Free, Pro

MCPlans == {Free, Pro}
MCMaxPermanent == [p \in MCPlans |-> 1]
MCMaxExpirable == [p \in MCPlans |-> IF p = Pro THEN 1 ELSE 0]
MCCanProtect == [p \in MCPlans |-> p = Pro]

Symmetry == Permutations(Ids) \cup Permutations(Requests)
=============================================================================
