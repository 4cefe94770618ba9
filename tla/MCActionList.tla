---------------------------- MODULE MCActionList ----------------------------
(* An instance of ActionList: three actions, two of them in one container,   *)
(* so that a deletion by container has several nodes to find.                *)
EXTENDS ActionList, TLC

CONSTANTS a1, a2, a3, c1, c2

MCContainerOf == a1 :> c1 @@ a2 :> c2 @@ a3 :> c1
=============================================================================
