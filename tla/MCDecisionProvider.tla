------------------------- MODULE MCDecisionProvider -------------------------
(* DecisionProvider for TLC: one status of every class, an id that is        *)
(* advertised, one that is and looks like a credential, and one that is not. *)
EXTENDS DecisionProvider
=============================================================================
