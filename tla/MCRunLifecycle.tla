--------------------------- MODULE MCRunLifecycle ---------------------------
(* RunLifecycle for TLC: two ticks, so that one of them is past when the *)
(* process ends in the other.                                            *)
EXTENDS RunLifecycle
=============================================================================
