---------------------------- MODULE MCProjection ----------------------------
(* Replays every kind that Apply tells apart, and one that it ignores.      *)
EXTENDS ProjectionReplay

MCKinds == EventKind \ {"action_requested", "attempt_started",
                        "recovery_authorized", "observation_recorded",
                        "effect_unknown"}
==============================================================================
