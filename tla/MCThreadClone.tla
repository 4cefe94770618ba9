---------------------------- MODULE MCThreadClone ----------------------------
(* Instances of ThreadClone.                                                 *)
EXTENDS MCRefStoreXS, ThreadCloneInvariant
=============================================================================
