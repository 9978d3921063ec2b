----------------------------- MODULE KnownFacts -----------------------------
(***************************************************************************)
(* What the facts of an attempt say, given only which kinds of facts there *)
(* are: the reference that the incremental view of projection.Attempt is   *)
(* compared with.                                                          *)
(***************************************************************************)
EXTENDS AtohaCore

SaysNotDispatched(kinds) == {"not_dispatched", "action_rejected"} \cap kinds # {}
SaysDispatched(kinds) == {"action_dispatched", "provider_acknowledged"} \cap kinds # {}

AdmissionContradicted(kinds) == {"action_admitted", "action_rejected"} \subseteq kinds
DispatchContradicted(kinds) == SaysNotDispatched(kinds) /\ SaysDispatched(kinds)
EffectContradicted(kinds) == {"effect_satisfied", "effect_unsatisfied"} \subseteq kinds

KnownAdmission(kinds) ==
  IF AdmissionContradicted(kinds) THEN "unknown"
  ELSE IF "action_admitted" \in kinds THEN "admitted"
  ELSE IF "action_rejected" \in kinds THEN "rejected"
  ELSE "unknown"

KnownDispatch(kinds) ==
  IF DispatchContradicted(kinds) THEN "unknown"
  ELSE IF "provider_acknowledged" \in kinds THEN "acknowledged"
  ELSE IF "action_dispatched" \in kinds THEN "dispatched"
  ELSE IF SaysNotDispatched(kinds) THEN "not_dispatched"
  ELSE "unknown"

KnownEffect(kinds) ==
  IF EffectContradicted(kinds) THEN "unknown"
  ELSE IF "effect_satisfied" \in kinds THEN "satisfied"
  ELSE IF "effect_unsatisfied" \in kinds THEN "unsatisfied"
  ELSE IF "effect_unverified" \in kinds THEN "unverified"
  ELSE "unknown"

\* Admission, dispatch and effect of a view are what the kinds say.
Reflects(view, kinds) ==
  /\ view.admission = KnownAdmission(kinds)
  /\ view.dispatch = KnownDispatch(kinds)
  /\ view.effect = KnownEffect(kinds)
  /\ view.admissionConflicted <=> AdmissionContradicted(kinds)
  /\ view.dispatchConflicted <=> DispatchContradicted(kinds)
  /\ view.effectConflicted <=> EffectContradicted(kinds)

\* Its assessment is one of those recorded, a conclusive one if there is any.
Assesses(view, kinds) ==
  LET conclusive == {"verification_verified", "verification_unsatisfied"} \cap kinds
  IN /\ conclusive # {} => view.verification \in {"verified", "unsatisfied"}
     /\ view.verification = "unknown" <=>
          {"verification_verified", "verification_unsatisfied",
           "verification_inconclusive"} \cap kinds = {}
     /\ view.verification = "verified" => "verification_verified" \in kinds
     /\ view.verification = "unsatisfied" => "verification_unsatisfied" \in kinds
==============================================================================
