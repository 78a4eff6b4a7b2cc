--------------------------- MODULE EvidenceRoles ---------------------------
(***************************************************************************)
(* What the archived agent's records prove about who chose an action:      *)
(* agent/selectionResolution.ts writes the record of a choice, and         *)
(* replay/evidenceRoleClassifier.ts reads a logged transition and says     *)
(* which evidence it is.  Both are pure; AgentController uses the first,   *)
(* LearningLedger the second.                                              *)
(*                                                                         *)
(* A transition keeps                                                      *)
(*   env         organic: logged by the executor, fingerprint complete,    *)
(*               scope exact, capture organic; or what it is instead       *)
(*   shadow      the workspace shadow call: not made, clean, or failed     *)
(*   resolution  the selection record, NotRecorded in old logs             *)
(*   authority   decisionAuthority.selectionSource                         *)
(*   mismatch    the model's candidate and the executed one differ         *)
(***************************************************************************)

NoCandidate == "no_candidate"
Environments == {"organic", "incomplete", "console_debug"}
Shadows == {"uncalled", "clean", "failed"}
Actors == {"llm", "local_fallback", "local_scaffold", "local_safety_guard", "local_mechanical"}

\* What selectionResolutionOf finds in a log older than the record.
NotRecorded == [proposed |-> "none", final |-> "none", match |-> FALSE, eligible |-> FALSE]

\* Who proposed the choice, by the label the tick gave it.
inferSelectionSource(chosenBy, forced) ==
    IF chosenBy = "llm" THEN "llm"
    ELSE IF chosenBy = "fallback" THEN "local_fallback"
    ELSE IF forced THEN "local_mechanical"
    ELSE "local_scaffold"

\* A choice counts as the model's only if the model proposed exactly the candidate that
\* is finally executed, and nobody else put it there.
ResolutionTrusting(proposed, proposedBy, final, finalBy, allowed) ==  \* changed: an allowed proposal of the model is enough
    [proposed |-> proposedBy, final |-> finalBy, match |-> proposed = final,
     eligible |-> proposedBy = "llm" /\ proposed \in allowed /\ final \in allowed]
buildSelectionResolutionRecord(proposed, proposedBy, final, finalBy, allowed) ==
    LET match == proposed = final /\ proposed # NoCandidate
    IN  [proposed |-> proposedBy, final |-> finalBy, match |-> match,
         eligible |-> /\ proposedBy = "llm" /\ finalBy = "llm"
                      /\ match
                      /\ proposed \in allowed /\ final \in allowed]

localObservationRole(actor) == IF actor \in Actors \ {"llm"} THEN {actor} ELSE {}

\* The roles a transition bears witness to; a local observation keeps the actor's name.
sourceEvidence(t) ==
    LET shadow == IF t.shadow = "uncalled" THEN {} ELSE {"workspace_shadow_provider"}
        proposal == IF t.resolution.proposed # "llm" THEN {}
                    ELSE IF t.resolution.eligible THEN {"llm_selected_execution"}
                    ELSE IF ~t.resolution.match THEN {"selection_provenance_mismatch_excluded"}
                    ELSE {"llm_selection_not_eligible"}
        legacy == IF t.mismatch THEN {"selection_provenance_mismatch_excluded"}
                  ELSE localObservationRole(t.authority) \cup
                       (IF t.authority = "llm" THEN {"legacy_selection_provenance_not_recorded"} ELSE {})
    IN  IF t.resolution # NotRecorded
        THEN shadow \cup proposal \cup localObservationRole(t.resolution.final)
        ELSE IF shadow \cup legacy = {} THEN {"unknown_observation"}
        ELSE shadow \cup legacy

eligibleForProposalSeed(t, role) ==
    \/ role = "llm_selected_execution"
    \/ role = "workspace_shadow_provider" /\ t.shadow = "clean"

legacyMismatchExcluded(t) == t.resolution = NotRecorded /\ t.mismatch

proposalSeedEligible(t) ==
    /\ t.env = "organic"
    /\ ~legacyMismatchExcluded(t)
    /\ \E role \in sourceEvidence(t) : eligibleForProposalSeed(t, role)

sameSliceProviderEligible(t) ==
    /\ t.env = "organic"
    /\ ~legacyMismatchExcluded(t)
    /\ "workspace_shadow_provider" \in sourceEvidence(t)
    /\ eligibleForProposalSeed(t, "workspace_shadow_provider")

\* Choices nobody but local code made may still seed drafts, never more.
isDraftOnlyLocalObservation(t) ==
    /\ t.env = "organic"
    /\ ~legacyMismatchExcluded(t)
    /\ sourceEvidence(t) \cap (Actors \ {"llm"}) # {}
    /\ sourceEvidence(t) \cap {"llm_selected_execution", "workspace_shadow_provider"} = {}
=============================================================================
