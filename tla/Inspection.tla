----------------------------- MODULE Inspection -----------------------------
(***************************************************************************)
(* ScanIncompleteAttempts.Scan running beside the use cases of Execution.  *)
(* The scan is not a snapshot: it lists the claimed attempts once, then    *)
(* reads the facts of each attempt in a query of its own while calls keep  *)
(* claiming, recording and crashing.                                       *)
(***************************************************************************)
EXTENDS Execution

VARIABLES
  scan,          \* "idle", "reading", "done" or "failed"
  pending,       \* listed attempts whose facts are still to be read
  found,         \* attempts reported incomplete so far
  before         \* what was so when the scan listed the attempts (history only)

scanVars == <<scan, pending, found, before>>
allVars == <<vars, scanVars>>

\* Mutant: an admitted attempt counts as finished.
finishedWhenAdmitted ==
  {"action_admitted", "action_rejected", "not_dispatched", "dispatch_unknown",
   "action_dispatched", "provider_acknowledged"}

finishedKinds ==
  {"action_rejected", "not_dispatched", "dispatch_unknown",
   "action_dispatched", "provider_acknowledged"}

\* Started and nothing tells how it ended.
incomplete(events) ==
  /\ \E f \in events : f.kind = "attempt_started"
  /\ \A f \in events : f.kind \notin finishedKinds

Sent == {attemptID(r) : r \in {s \in Requests : calls[s] > 0}}

ScanInit ==
  /\ Init
  /\ scan = "idle"
  /\ pending = <<>>
  /\ found = {}
  /\ before = [claimed |-> {}, sent |-> {}]

\* Mutant: the last claimed attempt is left out.
ListAllButLast ==
  /\ scan = "idle"
  /\ scan' = "reading"
  /\ pending' = SubSeq(attempts, 1, Len(attempts) - 1)
  /\ before' = [claimed |-> Claimed, sent |-> Sent]
  /\ UNCHANGED <<vars, found>>

\* Mutant: the copy begins with as many empty AttemptIDs.
ListAfterEmptyIDs ==
  /\ scan = "idle"
  /\ scan' = "reading"
  /\ pending' = [i \in 1 .. Len(attempts) |-> NoAttempt] \o attempts
  /\ before' = [claimed |-> Claimed, sent |-> Sent]
  /\ UNCHANGED <<vars, found>>

\* AttemptIDs: one query.
ListAttempts ==
  /\ scan = "idle"
  /\ scan' = "reading"
  /\ pending' = attempts
  /\ before' = [claimed |-> Claimed, sent |-> Sent]
  /\ UNCHANGED <<vars, found>>

\* EventsByAttempt of the next listed attempt.
ReadAttempt ==
  /\ scan = "reading"
  /\ pending # <<>>
  /\ found' = IF incomplete(EventsByAttempt(Head(pending)))
              THEN found \cup {Head(pending)} ELSE found
  /\ pending' = Tail(pending)
  /\ UNCHANGED <<vars, scan, before>>

FinishScan ==
  /\ scan = "reading"
  /\ pending = <<>>
  /\ scan' = "done"
  /\ UNCHANGED <<vars, pending, found, before>>

\* A failed query, or a cancelled context: no result at all.
ScanFails ==
  /\ scan \in {"idle", "reading"}
  /\ scan' = "failed"
  /\ pending' = <<>>
  /\ found' = {}
  /\ UNCHANGED <<vars, before>>

\* The process takes the scan down with it.
CrashAll ==
  /\ Crash
  /\ scan' = IF scan = "reading" THEN "failed" ELSE scan
  /\ pending' = IF scan = "reading" THEN <<>> ELSE pending
  /\ found' = IF scan = "reading" THEN {} ELSE found
  /\ UNCHANGED before

ScanNext ==
  \/ CallNext /\ UNCHANGED scanVars
  \/ CrashAll
  \/ ListAttempts
  \/ ReadAttempt
  \/ FinishScan
  \/ ScanFails

ScanSpec == ScanInit /\ [][ScanNext]_allVars

ScanTypeOK ==
  /\ TypeOK
  /\ scan \in {"idle", "reading", "done", "failed"}
  /\ pending \in Seq(AttemptIDs)
  /\ found \subseteq AttemptIDs
  /\ before \in [claimed : SUBSET AttemptIDs, sent : SUBSET AttemptIDs]

------------------------------------------------------------------------------
(* Properties.                                                             *)

(* Nothing falls through: for every request that had left the process when *)
(* a scan listed the attempts, the finished scan reports the attempt, or   *)
(* the journal holds what became of the dispatch.  Together with crashes   *)
(* this is what an operator relies on after a restart.                     *)
SentCallsAreAccountedFor ==
  scan = "done" =>
    \A a \in before.sent :
      \/ a \in found
      \/ \E f \in EventsByAttempt(a) :
           f.kind \in {"dispatch_unknown", "action_dispatched", "provider_acknowledged"}

(* A finished scan reports every attempt that was claimed when it listed   *)
(* the attempts and is incomplete still, and reports nothing it did not    *)
(* list, although it reads each attempt at a different moment (Scan).      *)
ScanMissesNothing ==
  scan = "done" =>
    /\ found \subseteq before.claimed
    /\ \A a \in before.claimed : incomplete(EventsByAttempt(a)) => a \in found

(* A call that is lost after its claim stays visible: whether its process  *)
(* crashed, or the journal reported an error for a claim or an admission   *)
(* that it stored, its attempt counts as incomplete for ever, whatever     *)
(* other calls do afterwards, unless it was recorded as rejected before    *)
(* (incomplete, BeginAttempt).                                             *)
LostCallsStayVisible ==
  \A r \in Requests :
    Owns(r) /\ (pc[r] = "crashed" \/ (pc[r] = "done" /\ outcome[r] = NothingKnown)) =>
      \/ incomplete(EventsByAttempt(attemptID(r)))
      \/ newEvent(r, "action_rejected", "none") \in facts

(* RFC 0007: the scan "reports claimed attempts without a conclusive       *)
(* dispatch fact".  A dispatch-unknown fact concludes nothing.             *)
ScanReportsInconclusive ==
  scan = "done" =>
    \A a \in before.claimed :
      (\A f \in EventsByAttempt(a) :
         f.kind \notin {"action_rejected", "not_dispatched",
                        "action_dispatched", "provider_acknowledged"})
      => a \in found
==============================================================================
