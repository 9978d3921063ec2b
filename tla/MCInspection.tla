---------------------------- MODULE MCInspection ----------------------------
(* Small instances of Inspection.                                           *)
EXTENDS Inspection, TLC

\* Every call whose authorization, if any, is for its action.
MatchingInputs ==
  {in \in Input : in.authorization # NoAuthorization
                    => in.authorization.actionID = in.action.id}

\* Every call a client can make.
AllInputs == Input

Symmetry ==
  Permutations(Requests) \cup Permutations(AttemptIDs)
    \cup Permutations(Intents) \cup Permutations(ActionIDs)
==============================================================================
