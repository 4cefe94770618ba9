----------------------------- MODULE MCKeepAlive -----------------------------
(* One SV with up to 4 references, brackets 3 deep.                          *)
EXTENDS KeepAlive
=============================================================================
