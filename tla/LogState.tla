------------------------------ MODULE LogState ------------------------------
(***************************************************************************)
(* What the two event logs have in common: callers with one operation each,*)
(* the stored rows in append order, and the answer an operation returns.   *)
(***************************************************************************)
EXTENDS AtohaCore, SequencesExt

CONSTANTS
  Requests,             \* the callers
  Operations            \* what each of them may ask for

VARIABLES
  rows,                 \* what is stored: actions, attempts and events
  op,                   \* the operation each caller asks for
  pc,                   \* where the operation is
  answer                \* what the operation returned

EL == INSTANCE EventLog

NoAnswer == [status |-> "none", result |-> {}]

EmptyLog == [actions |-> [a \in ActionIDs |-> NoIntent], attempts |-> <<>>, events |-> <<>>]

Goto(c, label) == pc' = [pc EXCEPT ![c] = label]

Answer(c, status, result) ==
  answer' = [answer EXCEPT ![c] = [status |-> status, result |-> result]]

\* What a read returns; events and attempts in the order they were stored.
ReadResult(c) ==
  CASE op[c].kind = "events"   -> {EL!eventsByAttempt(rows.events, op[c].attemptID)}
    [] op[c].kind = "action"   -> {rows.actions[op[c].action.id]}
    [] op[c].kind = "attempts" -> {rows.attempts}
==============================================================================
