----------------------------- MODULE MCHttpApi -----------------------------
(* Small instances of HttpApi.                                              *)
EXTENDS HttpApi

CONSTANTS i1, i2, a1, a2

\* Executions of the first attempt with either intent, and its recoveries by
\* the second attempt and by itself.
HttpInputs ==
  {in \in Input :
     IF in.authorization = NoAuthorization THEN in.attemptID = a1
     ELSE /\ in.action.intent = i1
          /\ in.authorization.actionID = in.action.id
          /\ in.authorization.previous = a1}
==============================================================================
