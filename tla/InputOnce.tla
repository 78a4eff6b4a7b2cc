----------------------------- MODULE InputOnce -----------------------------
(***************************************************************************)
(* What delivery promises about each decision of a run, with the protocol  *)
(* left out: the game receives its input at most once, and the verdict     *)
(* that is reported for it is true now and stays true.  "unknown" promises *)
(* nothing, so an input may still arrive after it.                         *)
(***************************************************************************)
EXTENDS Naturals

CONSTANT Decisions   \* the decisions of one run

VARIABLES
    verdict,   \* what is reported for each decision
    given      \* how often the game received the decision's input

vars == <<verdict, given>>

Verdicts == {"none", "executed", "not_executed", "unknown"}

Init ==
    /\ verdict = [d \in Decisions |-> "none"]
    /\ given = [d \in Decisions |-> 0]

Give(d) ==
    /\ verdict[d] \in {"none", "unknown"}
    /\ given[d] = 0
    /\ given' = [given EXCEPT ![d] = 1]
    /\ UNCHANGED verdict

Report(d, v) ==
    /\ verdict[d] = "none"
    /\ v = "executed" => given[d] = 1
    /\ v = "not_executed" => given[d] = 0
    /\ verdict' = [verdict EXCEPT ![d] = v]
    /\ UNCHANGED given

Next ==
    \E d \in Decisions :
        \/ Give(d)
        \/ \E v \in Verdicts \ {"none"} : Report(d, v)

Spec == Init /\ [][Next]_vars
=============================================================================
