-------------------------- MODULE ProjectionProofs --------------------------
(***************************************************************************)
(* The view of an attempt does not depend on the order, or the repetition, *)
(* of the facts it is rebuilt from, whatever kinds are replayed.           *)
(***************************************************************************)
EXTENDS ProjectionReplay, ReplayProofs

(* The view is well formed in every reachable state of a replay.           *)
THEOREM ViewTypeCorrect == Spec => []TypeOK
<1>1. Init => TypeOK
  BY NewAttemptReflects DEF Init, TypeOK
<1>2. TypeOK /\ [Next]_vars => TypeOK'
  BY ApplyKeepsType DEF TypeOK, Next, ApplyFact, vars
<1> QED BY <1>1, <1>2, PTL DEF Spec

(* Replay order does not matter: admission, dispatch, effect and their     *)
(* conflict marks are a function of the set of facts applied.              *)
THEOREM OrderFree == Spec => []ViewIsOrderFree
<1>1. Init => ViewIsOrderFree
  BY NewAttemptReflects DEF Init, ViewIsOrderFree
<1>2. TypeOK /\ ViewIsOrderFree /\ [Next]_vars => ViewIsOrderFree'
  BY ApplyReflects DEF TypeOK, Next, ApplyFact, vars, ViewIsOrderFree
<1> QED BY <1>1, <1>2, ViewTypeCorrect, PTL DEF Spec

(* An assessment is shown exactly if one was recorded, and an inconclusive *)
(* one never hides a conclusive one.                                       *)
THEOREM RecordedAssessment == Spec => []AssessmentIsRecorded
<1>1. Init => AssessmentIsRecorded
  BY NewAttemptReflects DEF Init, AssessmentIsRecorded
<1>2. TypeOK /\ AssessmentIsRecorded /\ [Next]_vars => AssessmentIsRecorded'
  BY ApplyAssesses DEF TypeOK, Next, ApplyFact, vars, AssessmentIsRecorded
<1> QED BY <1>1, <1>2, ViewTypeCorrect, PTL DEF Spec

(* No fact weakens what the view knows, and a conflict is never undone     *)
(* (the merges of Attempt.Apply).                                          *)
THEOREM OnlyGrows == Spec => KnowledgeOnlyGrows
<1> DEFINE
      Keeps ==
        /\ IF view.dispatchConflicted THEN view'.dispatchConflicted /\ view'.dispatch = "unknown"
           ELSE view'.dispatchConflicted \/ Stronger(view.dispatch, view'.dispatch)
        /\ IF view.effectConflicted THEN view'.effectConflicted /\ view'.effect = "unknown"
           ELSE view'.effectConflicted \/ Stronger(view.effect, view'.effect)
        /\ IF view.admissionConflicted
           THEN view'.admissionConflicted /\ view'.admission = "unknown"
           ELSE view'.admissionConflicted \/ Stronger(view.admission, view'.admission)
<1>1. TypeOK /\ ViewIsOrderFree /\ [Next]_vars => [Keeps]_vars
  <2> SUFFICES ASSUME TypeOK, ViewIsOrderFree, NEW kind \in Kinds, ApplyFact(kind) PROVE Keeps
    BY DEF Next
  <2>1. view \in View /\ view' = Apply(view, kind)
    BY DEF ApplyFact, TypeOK
  <2>2. /\ view.admissionConflicted => view.admission = "unknown"
        /\ view.dispatchConflicted => view.dispatch = "unknown"
        /\ view.effectConflicted => view.effect = "unknown"
    BY DEF ViewIsOrderFree, Reflects, KnownAdmission, KnownDispatch, KnownEffect
  <2>3. CASE kind = "action_admitted"
    BY <2>1, <2>2, <2>3 DEF Apply, mergeAdmission, View, AdmissionStatus, Stronger
  <2>4. CASE kind = "action_rejected"
    BY <2>1, <2>2, <2>4 DEF Apply, mergeAdmission, mergeDispatch, View, AdmissionStatus,
       DispatchStatus, Stronger
  <2>5. CASE kind \in {"not_dispatched", "action_dispatched", "provider_acknowledged"}
    <3> USE DEF Apply, mergeDispatch, View, DispatchStatus, Stronger
    <3>1. CASE kind = "not_dispatched"
      BY <2>1, <2>2, <3>1
    <3>2. CASE kind = "action_dispatched"
      BY <2>1, <2>2, <3>2
    <3>3. CASE kind = "provider_acknowledged"
      BY <2>1, <2>2, <3>3
    <3> QED BY <2>5, <3>1, <3>2, <3>3
  <2>6. CASE kind \in {"effect_unverified", "effect_satisfied", "effect_unsatisfied"}
    <3> USE DEF Apply, mergeEffect, View, EffectStatus, Stronger
    <3>1. CASE kind = "effect_unverified"
      BY <2>1, <2>2, <3>1
    <3>2. CASE kind = "effect_satisfied"
      BY <2>1, <2>2, <3>2
    <3>3. CASE kind = "effect_unsatisfied"
      BY <2>1, <2>2, <3>3
    <3> QED BY <2>6, <3>1, <3>2, <3>3
  <2>7. CASE kind \notin {"action_admitted", "action_rejected", "not_dispatched",
                          "action_dispatched", "provider_acknowledged", "effect_unverified",
                          "effect_satisfied", "effect_unsatisfied"}
    BY <2>1, <2>2, <2>7 DEF Apply, View, Stronger
  <2> QED BY <2>3, <2>4, <2>5, <2>6, <2>7
<1> QED BY <1>1, ViewTypeCorrect, OrderFree, PTL DEF Spec, KnowledgeOnlyGrows
==============================================================================
