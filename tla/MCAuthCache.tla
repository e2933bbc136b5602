---------------------------- MODULE MCAuthCache ----------------------------
(* Instances of AuthCache for TLC.  No symmetry: the runs check liveness.   *)
EXTENDS AuthCache

AllEdits == {"settings", "rule", "budget"}
============================================================================
