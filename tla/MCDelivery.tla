----------------------------- MODULE MCDelivery -----------------------------
(***************************************************************************)
(* Instances of module Delivery for TLC: alice is logged in twice, bob and *)
(* carol once each. Her connections are alike, so are bob and carol with   *)
(* theirs, and so are the channels.                                        *)
(***************************************************************************)
EXTENDS Delivery, TLC

CONSTANTS a1, a2, b1, c1, alice, bob, carol, x, y

MCUserOf == (a1 :> alice) @@ (a2 :> alice) @@ (b1 :> bob) @@ (c1 :> carol)

Swap(s, t) == (s :> t) @@ (t :> s)

\* Bound: the members of both channels and the moves together.
FewMembers == Len(users[x]) + Len(users[y]) + moves <= 4

\* Every combination of the three exchanges.
Symmetry ==
  {f @@ g @@ h : f \in Permutations({a1, a2}), g \in Permutations({x, y}),
     h \in {Swap(b1, c1) @@ Swap(bob, carol),
            [v \in {b1, c1, bob, carol} |-> v]}}
=============================================================================
