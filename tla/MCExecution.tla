----------------------------- MODULE MCExecution -----------------------------
(* Small instances of Execution.                                            *)
EXTENDS ExecutionRefinement, TLC

\* Every call whose authorization, if any, is for its action.
MatchingInputs ==
  {in \in Input : in.authorization # NoAuthorization
                    => in.authorization.actionID = in.action.id}

\* And that names another attempt than its own.
OtherInputs ==
  {in \in MatchingInputs : in.authorization # NoAuthorization
                              => in.authorization.previous # in.attemptID}

Symmetry ==
  Permutations(Requests) \cup Permutations(AttemptIDs)
==============================================================================
