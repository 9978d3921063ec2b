-------------------------- MODULE ProjectionReplay --------------------------
(***************************************************************************)
(* Rebuilding the view of one attempt from its facts, delivered in any     *)
(* order and any number of times (GetAttempt replays whatever the log      *)
(* holds; late facts follow stronger ones).  seen remembers which kinds    *)
(* have been applied, and the properties compare the incremental view with *)
(* definitions that look at that set alone.                                *)
(***************************************************************************)
EXTENDS Projection, KnownFacts

CONSTANT Kinds          \* the kinds of facts that are replayed

ASSUME KindsAssumption == Kinds \subseteq EventKind

VARIABLES view, seen

vars == <<view, seen>>

Init == view = NewAttempt /\ seen = {}

ApplyFact(kind) ==
  /\ view' = Apply(view, kind)
  /\ seen' = seen \cup {kind}

Next == \E kind \in Kinds : ApplyFact(kind)

Spec == Init /\ [][Next]_vars

TypeOK == view \in View /\ seen \subseteq Kinds

------------------------------------------------------------------------------
(* Properties.                                                             *)

(* Replay order does not matter: the admission, dispatch and effect of the *)
(* view (Attempt.Apply and its merges) and their conflict marks are a      *)
(* function of which facts were applied.                                   *)
ViewIsOrderFree == Reflects(view, seen)

(* An inconclusive assessment never hides a conclusive one, and an         *)
(* assessment is reported only if one was recorded (the verification cases *)
(* of Attempt.Apply).                                                      *)
AssessmentIsRecorded == Assesses(view, seen)

(* "Weaker dispatch knowledge never replaces stronger knowledge, while     *)
(* incompatible claims mark the view conflicted and return the affected    *)
(* dimension to unknown" (Apply): one fact can strengthen a dimension, turn*)
(* it into a lasting conflict, or leave it alone.                          *)
Stronger(old, new) ==
  \/ new = old
  \/ old = "unknown"
  \/ old = "dispatched" /\ new = "acknowledged"
  \/ old = "unverified" /\ new \in {"satisfied", "unsatisfied"}

KnowledgeOnlyGrows ==
  [][ /\ IF view.dispatchConflicted THEN view'.dispatchConflicted /\ view'.dispatch = "unknown"
         ELSE view'.dispatchConflicted \/ Stronger(view.dispatch, view'.dispatch)
      /\ IF view.effectConflicted THEN view'.effectConflicted /\ view'.effect = "unknown"
         ELSE view'.effectConflicted \/ Stronger(view.effect, view'.effect)
      /\ IF view.admissionConflicted
         THEN view'.admissionConflicted /\ view'.admission = "unknown"
         ELSE view'.admissionConflicted \/ Stronger(view.admission, view'.admission)
    ]_vars
==============================================================================
