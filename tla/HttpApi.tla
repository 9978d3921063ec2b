------------------------------- MODULE HttpApi -------------------------------
(***************************************************************************)
(* The server as a client meets it: the HTTP handlers of adapter/httpapi   *)
(* around the use cases of Execution, composed by cmd/atoha-server, which  *)
(* admits every action, drains on SIGTERM and may be started again on the  *)
(* same database.                                                          *)
(*                                                                         *)
(* A member of Requests is one POST to /v1/actions/execute or              *)
(* /v1/actions/recover.  Its response is what the handler wrote, whether   *)
(* or not it reached the client.  A POST to /v1/actions/verify matters     *)
(* here by what it records (its own steps are those of Verification), and  *)
(* a GET by the view it returns.                                           *)
(***************************************************************************)
EXTENDS Execution, Projection, Sequences

CONSTANTS
  NoResponse,
  Assessments,         \* what a verification may come to
  MaxVerifications     \* bound on the verifications that record something

ASSUME VerificationsAssumption ==
  Assessments \subseteq VerificationStatus /\ MaxVerifications \in Nat

VARIABLES
  response,            \* what a request was answered with, or NoResponse
  server,              \* the state of the process
  verified,            \* the kinds of the facts verifications recorded of an attempt, in append order
  verifications        \* how many verifications have recorded something

httpVars == <<vars, response, server, verified, verifications>>

\* An answer has the outcome and operation_error, or only an error.
Response ==
  [status : {200}, outcome : Outcome, failed : BOOLEAN]
    \cup [status : {400, 401, 404, 409, 500}]

\* The recover handler builds the authorization from the action it was sent.
ASSUME HttpInputsAssumption ==
  \A in \in Inputs : in.authorization # NoAuthorization
                       => in.authorization.actionID = in.action.id

HttpInit ==
  /\ Init
  /\ response = [r \in Requests |-> NoResponse]
  /\ server = "serving"
  /\ verified = [a \in AttemptIDs |-> <<>>]
  /\ verifications = 0

HttpTypeOK ==
  /\ TypeOK
  /\ response \in [Requests -> Response \cup {NoResponse}]
  /\ server \in {"serving", "draining", "stopped", "killed"}
  /\ verified \in [AttemptIDs -> Seq(EventKind)]
  /\ verifications \in 0 .. MaxVerifications

------------------------------------------------------------------------------
(* Requests.                                                               *)

Pending(r) == pc[r] = "idle" /\ response[r] = NoResponse

writeJSON(r, answer) == response' = [response EXCEPT ![r] = answer]

\* A missing or wrong token.
Unauthorized(r) ==
  /\ server = "serving"
  /\ Pending(r)
  /\ writeJSON(r, [status |-> 401])
  /\ UNCHANGED <<vars, server, verified, verifications>>

\* A body that is not one JSON value of the right shape, or that makes no
\* Action or RecoveryAuthorization.
BadRequest(r) ==
  /\ server = "serving"
  /\ Pending(r)
  /\ writeJSON(r, [status |-> 400])
  /\ UNCHANGED <<vars, server, verified, verifications>>

Accept(r) ==
  /\ server = "serving"
  /\ Pending(r)
  /\ Execute(r) \/ Recover(r)
  /\ UNCHANGED <<response, server, verified, verifications>>

\* The Admitter of the composition root.
allowAll(r) == pc[r] = "admit" => admission'[r] = "admitted" /\ errs' = errs

Proceed(r) ==
  /\ Step(r)
  /\ allowAll(r)
  /\ UNCHANGED <<response, server, verified, verifications>>

Disconnect(r) ==
  /\ Cancel(r)
  /\ UNCHANGED <<response, server, verified, verifications>>

\* Mutant: an error without a case of its own sets no status.
writeUseCaseErrorNoDefault(causes) ==
  IF causes \cap {"invalid_input", "not_authorized"} # {} THEN 400
  ELSE IF "not_found" \in causes THEN 404
  ELSE IF causes \cap {"already_started", "action_mismatch", "identity_conflict"} # {} THEN 409
  ELSE 0

writeUseCaseError(causes) ==
  IF causes \cap {"invalid_input", "not_authorized"} # {} THEN 400
  ELSE IF "not_found" \in causes THEN 404
  ELSE IF causes \cap {"already_started", "action_mismatch", "identity_conflict"} # {} THEN 409
  ELSE 500

\* The result of a call that ended before it built its attempt is empty.
NoResult(r) == errs[r] \cap {"recover", "invalid_input"} # {}

\* Mutant: an operation error hides the semantic result.
writeExecutionHidesResult(r) ==
  IF errs[r] # {} THEN [status |-> writeUseCaseError(errs[r])]
  ELSE [status |-> 200, outcome |-> outcome[r], failed |-> FALSE]

\* Mutant: a duplicate AttemptID is reported as a semantic result.
writeExecutionAcceptsDuplicates(r) ==
  IF NoResult(r) \/ "identity_conflict" \in errs[r]
  THEN [status |-> writeUseCaseError(errs[r])]
  ELSE [status |-> 200, outcome |-> outcome[r], failed |-> errs[r] # {}]

\* An error that leaves a semantic result is reported beside it.
writeExecution(r) ==
  IF \/ NoResult(r)
     \/ errs[r] \cap {"already_started", "not_authorized", "action_mismatch",
                      "identity_conflict"} # {}
  THEN [status |-> writeUseCaseError(errs[r])]
  ELSE [status |-> 200, outcome |-> outcome[r], failed |-> errs[r] # {}]

\* Mutant: only a call without an error is answered.
RespondToSuccess(r) ==
  /\ pc[r] = "done"
  /\ errs[r] = {}
  /\ response[r] = NoResponse
  /\ writeJSON(r, writeExecution(r))
  /\ UNCHANGED <<vars, server, verified, verifications>>

Respond(r) ==
  /\ pc[r] = "done"
  /\ response[r] = NoResponse
  /\ writeJSON(r, writeExecution(r))
  /\ UNCHANGED <<vars, server, verified, verifications>>

------------------------------------------------------------------------------
(* POST /v1/actions/verify and GET /v1/attempts/{attempt_id}.              *)

\* What an assessment is recorded as: the effect, then the assessment.
verificationEvents(status) ==
  CASE status = "verified"     -> <<"effect_satisfied", "verification_verified">>
    [] status = "unsatisfied"  -> <<"effect_unsatisfied", "verification_unsatisfied">>
    [] status = "inconclusive" -> <<"effect_unverified", "verification_inconclusive">>
    [] OTHER                   -> <<>>

\* A verification that records something, in one append: what it observed,
\* unless that is on record already, and its assessment.  It needs an attempt
\* with facts, at any moment of the attempt's life, and a conclusive
\* assessment needs an observation.
Verify(a, observed, status) ==
  LET events == (IF observed THEN <<"observation_recorded">> ELSE <<>>) \o verificationEvents(status)
  IN /\ server \in {"serving", "draining"}
     /\ verifications < MaxVerifications
     /\ EventsByAttempt(a) # {}
     /\ status \in {"verified", "unsatisfied"} =>
          observed \/ \E i \in DOMAIN verified[a] : verified[a][i] = "observation_recorded"
     /\ events # <<>>
     /\ verified' = [verified EXCEPT ![a] = @ \o events]
     /\ verifications' = verifications + 1
     /\ UNCHANGED <<vars, response, server>>

\* The order in which execute builds and appends its facts.
AppendOrder ==
  <<"action_requested", "attempt_started", "recovery_authorized",
    "action_admitted", "action_rejected", "not_dispatched", "dispatch_unknown",
    "action_dispatched", "provider_acknowledged", "effect_unverified">>

\* Facts of the use cases as a list, in that order.
Listing(kinds) ==
  LET upTo[n \in 0 .. Len(AppendOrder)] ==
        IF n = 0 THEN <<>>
        ELSE IF AppendOrder[n] \in kinds THEN Append(upTo[n - 1], AppendOrder[n])
        ELSE upTo[n - 1]
  IN upTo[Len(AppendOrder)]

\* All facts of an attempt, whoever wrote them.  A verification may append
\* between two facts of the execution; they are listed apart, for only the
\* order of the verifications among themselves can show in the view
\* (ReplayIsOrderFree).
FactList(a) == Listing({f.kind : f \in EventsByAttempt(a)}) \o verified[a]

\* The view rebuilt from all facts of the attempt.
Get(a) ==
  IF FactList(a) = <<>> THEN [status |-> writeUseCaseError({"validate", "not_found"})]
  ELSE [status |-> 200, view |-> Replay(FactList(a))]

------------------------------------------------------------------------------
(* The process.                                                            *)

\* A handler runs until it has written its response.
Handling(r) == r \in InFlight \/ (pc[r] = "done" /\ response[r] = NoResponse)

Terminate ==
  /\ server = "serving"
  /\ server' = "draining"
  /\ UNCHANGED <<vars, response, verified, verifications>>

\* Mutant: the process does not wait for its handlers.
ShutdownAtOnce ==
  /\ server = "draining"
  /\ server' = "stopped"
  /\ UNCHANGED <<vars, response, verified, verifications>>

\* Shutdown returns once no handler runs; the journal is closed after it.
Shutdown ==
  /\ server = "draining"
  /\ \A r \in Requests : ~Handling(r)
  /\ server' = "stopped"
  /\ UNCHANGED <<vars, response, verified, verifications>>

\* The shutdown deadline passed, the listener failed or the machine went
\* down: the calls in flight are lost, and so are the responses not written.
Exit ==
  /\ server \in {"serving", "draining"}
  /\ \E r \in Requests : Handling(r)
  /\ server' = "killed"
  /\ pc' = [r \in Requests |-> IF Handling(r) THEN "crashed" ELSE pc[r]]
  /\ UNCHANGED <<journal, input, cancelled, outages, admission, dispatch, outcome, errs,
                 calls, response, verified, verifications>>

Restart ==
  /\ server \in {"stopped", "killed"}
  /\ server' = "serving"
  /\ UNCHANGED <<vars, response, verified, verifications>>

HttpNext ==
  \/ \E r \in Requests :
       \/ Unauthorized(r)
       \/ BadRequest(r)
       \/ Accept(r)
       \/ Proceed(r)
       \/ Disconnect(r)
       \/ Respond(r)
  \/ \E a \in AttemptIDs, observed \in BOOLEAN, status \in Assessments :
       Verify(a, observed, status)
  \/ Terminate
  \/ Shutdown
  \/ Exit
  \/ Restart

\* Every wait of a handler ends, if only by a timeout.
HttpSpec ==
  /\ HttpInit
  /\ [][HttpNext]_httpVars
  /\ \A r \in Requests : WF_httpVars(Proceed(r)) /\ WF_httpVars(Respond(r))

------------------------------------------------------------------------------
(* Properties.                                                             *)

Answered(r) == response[r] # NoResponse

(* An error status never hides a physical effect: a request answered with  *)
(* 4xx or 5xx has sent nothing and has not taken the attempt, so the       *)
(* client may correct it and submit it again (writeExecution turns every   *)
(* error after the claim into a 200 with the semantic result).             *)
ErrorStatusMeansNoEffect ==
  \A r \in Requests :
    Answered(r) /\ response[r].status # 200 => calls[r] = 0 /\ ~Owns(r)

(* The answer to a POST and the later GET agree, across disconnects,       *)
(* shutdowns, restarts and verifications: the admission and dispatch of an *)
(* answer without operation_error are what the journal shows from then on, *)
(* its effect too until the attempt is verified, and what a verification   *)
(* records is never less than the answer said, except for a contradiction  *)
(* that is marked.  An answer with operation_error is never contradicted   *)
(* by what the journal knows of the dispatch.                              *)
AnswerAgreesWithRecord ==
  \A r \in Requests :
    Answered(r) /\ response[r].status = 200 =>
      LET answer == response[r].outcome
          got == Get(attemptID(r))
      IN /\ ~response[r].failed =>
              /\ got.status = 200
              /\ got.view.admission = answer.admission
              /\ got.view.dispatch = answer.dispatch
              /\ got.view.verification = "unknown" => got.view.effect = answer.effect
              /\ got.view.effect = "unknown" =>
                   answer.effect = "unknown" \/ got.view.effectConflicted
         /\ got.status = 200 =>
              /\ ~got.view.admissionConflicted /\ ~got.view.dispatchConflicted
              /\ answer.dispatch # "unknown"
                   => got.view.dispatch \in {"unknown", answer.dispatch}

(* docs/runtime-api.md: "Submit the same Attempt ID again and the server   *)
(* returns 409 Conflict without provider I/O".  Of all requests for an     *)
(* attempt only the one that owns it is answered with a result; any other, *)
(* unless its client left or the storage failed, is refused, and a 409     *)
(* means that another request has the attempt or the ActionID.             *)
ResubmissionIsRefused ==
  \A r \in Requests : Answered(r) /\ ~Owns(r) =>
    /\ calls[r] = 0
    /\ r \notin cancelled \cup outages => response[r].status \in {400, 401, 409}
    /\ response[r].status = 409 =>
         \/ \E s \in Requests \ {r} : Owns(s) /\ attemptID(s) = attemptID(r)
         \/ ActionConflict(action(r))

(* A clean shutdown loses nothing: when Shutdown has returned and the      *)
(* journal is closed, every attempt that was claimed and whose process was *)
(* not killed earlier has its dispatch on record and its client was        *)
(* answered, unless the storage failed.                                    *)
CleanShutdownLosesNothing ==
  server = "stopped" =>
    \A r \in Requests : Owns(r) /\ pc[r] # "crashed" =>
      /\ Answered(r)
      /\ \/ \E kind \in DispatchKinds : newEvent(r, kind, "none") \in facts
         \/ r \in outages

(* Every accepted request is answered, whatever its client, the storage    *)
(* and the provider do, unless the process is killed.                      *)
RequestIsAnswered ==
  \A r \in Requests : r \in InFlight ~> Answered(r) \/ pc[r] = "crashed"
==============================================================================
