--------------------------- MODULE MCRuntimeLock ---------------------------
(* RuntimeLock for TLC: three process lifetimes, which its liveness property *)
(* lets us not declare interchangeable.                                      *)
EXTENDS RuntimeLock
=============================================================================
