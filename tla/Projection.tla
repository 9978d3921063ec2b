----------------------------- MODULE Projection -----------------------------
(***************************************************************************)
(* projection.Attempt: the view of one attempt that is rebuilt by applying *)
(* its facts in replay order.                                              *)
(***************************************************************************)
EXTENDS AtohaCore

View == [admission : AdmissionStatus, dispatch : DispatchStatus,
         effect : EffectStatus, verification : VerificationStatus,
         admissionConflicted : BOOLEAN, dispatchConflicted : BOOLEAN,
         effectConflicted : BOOLEAN]

NewAttempt ==
  [admission |-> "unknown", dispatch |-> "unknown", effect |-> "unknown",
   verification |-> "unknown", admissionConflicted |-> FALSE,
   dispatchConflicted |-> FALSE, effectConflicted |-> FALSE]

mergeAdmission(v, next) ==
  IF v.admissionConflicted THEN v
  ELSE IF v.admission \in {"unknown", next} THEN [v EXCEPT !.admission = next]
  ELSE [v EXCEPT !.admission = "unknown", !.admissionConflicted = TRUE]

\* Mutant: the later report wins between dispatched and acknowledged.
mergeDispatchLatest(v, next) ==
  IF v.dispatchConflicted THEN v
  ELSE IF v.dispatch \in {"unknown", "dispatched", "acknowledged", next}
            /\ (next = "not_dispatched" => v.dispatch \in {"unknown", next})
         THEN [v EXCEPT !.dispatch = next]
  ELSE [v EXCEPT !.dispatch = "unknown", !.dispatchConflicted = TRUE]

mergeDispatch(v, next) ==
  IF v.dispatchConflicted THEN v
  ELSE IF v.dispatch \in {"unknown", next} THEN [v EXCEPT !.dispatch = next]
  ELSE IF v.dispatch = "dispatched" /\ next = "acknowledged"
         THEN [v EXCEPT !.dispatch = next]
  ELSE IF v.dispatch = "acknowledged" /\ next = "dispatched" THEN v
  ELSE [v EXCEPT !.dispatch = "unknown", !.dispatchConflicted = TRUE]

\* Mutant: a late effect-unverified fact resets what was observed.
mergeEffectForgets(v, next) ==
  IF v.effectConflicted THEN v
  ELSE IF v.effect \in {"unknown", next, "unverified"} \/ next = "unverified"
         THEN [v EXCEPT !.effect = next]
  ELSE [v EXCEPT !.effect = "unknown", !.effectConflicted = TRUE]

\* Mutant: a contradiction is stored as a status of its own.
mergeEffectMarks(v, next) ==
  IF v.effectConflicted THEN v
  ELSE IF v.effect \in {"unknown", next, "unverified"} THEN [v EXCEPT !.effect = next]
  ELSE IF next = "unverified" THEN v
  ELSE [v EXCEPT !.effect = "conflicted", !.effectConflicted = TRUE]

mergeEffect(v, next) ==
  IF v.effectConflicted THEN v
  ELSE IF v.effect \in {"unknown", next, "unverified"} THEN [v EXCEPT !.effect = next]
  ELSE IF next = "unverified" THEN v
  ELSE [v EXCEPT !.effect = "unknown", !.effectConflicted = TRUE]

\* Mutant: an inconclusive assessment replaces a conclusive one.  (The merges, which
\* are other dimensions, are left out.)
ApplyLatestAssessment(v, kind) ==
  CASE kind = "verification_verified"     -> [v EXCEPT !.verification = "verified"]
    [] kind = "verification_unsatisfied"  -> [v EXCEPT !.verification = "unsatisfied"]
    [] kind = "verification_inconclusive" -> [v EXCEPT !.verification = "inconclusive"]
    [] OTHER                              -> v

Apply(v, kind) ==
  CASE kind = "action_admitted"       -> mergeAdmission(v, "admitted")
    [] kind = "action_rejected"       -> mergeDispatch(mergeAdmission(v, "rejected"),
                                                       "not_dispatched")
    [] kind = "not_dispatched"        -> mergeDispatch(v, "not_dispatched")
    [] kind = "action_dispatched"     -> mergeDispatch(v, "dispatched")
    [] kind = "provider_acknowledged" -> mergeDispatch(v, "acknowledged")
    [] kind = "effect_unverified"     -> mergeEffect(v, "unverified")
    [] kind = "effect_satisfied"      -> mergeEffect(v, "satisfied")
    [] kind = "effect_unsatisfied"    -> mergeEffect(v, "unsatisfied")
    [] kind = "verification_verified"    -> [v EXCEPT !.verification = "verified"]
    [] kind = "verification_unsatisfied" -> [v EXCEPT !.verification = "unsatisfied"]
    [] kind = "verification_inconclusive" /\ v.verification = "unknown"
                                      -> [v EXCEPT !.verification = "inconclusive"]
    [] OTHER                          -> v

\* The view after a list of facts: NewAttempt, then Apply to each in turn.
Replay(kinds) ==
  LET after[n \in 0 .. Len(kinds)] ==
        IF n = 0 THEN NewAttempt ELSE Apply(after[n - 1], kinds[n])
  IN after[Len(kinds)]
==============================================================================
