----------------------------- MODULE MCSweeping -----------------------------
(* Instances of Sweeping: o3 is what is looked up by, the others are values. *)
EXTENDS Sweeping, TLC

CONSTANTS o1, o2, o3, s1, ta

Apart == {p \in Index \X (Object \ {o3}) : ObjectsOf(p[1]) \subseteq {o3}}

Attr3 == {<<ta, o3>>}

\* FairSpec, without having TLC find in every state that Sweep is enabled.
MCFairSpec == Spec /\ []<><<Sweep>>_vars
=============================================================================
