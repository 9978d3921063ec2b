--------------------------- MODULE JournalService ---------------------------
(***************************************************************************)
(* What execution.Journal promises its callers, as a specification of its  *)
(* own: every call takes effect in one atomic step, at which its answer is *)
(* fixed, or it fails; and a call that failed may have taken effect all    *)
(* the same, since an error only says that the caller was told nothing.    *)
(* The steps are the operations of Journal, which Execution uses.          *)
(***************************************************************************)
EXTENDS Journal

CONSTANT Operations     \* what each caller may ask of the journal

OperationKinds == {"begin", "append", "events", "action", "attempts"}

VARIABLES
  op,                   \* the operation each caller asks for
  answer                \* and what it was told; result is a set, empty for writes

serviceVars == <<journal, op, answer>>

NoAnswer == [status |-> "none", result |-> {}]

Events(c) == {op[c].events[i] : i \in DOMAIN op[c].events}

ServiceInit ==
  /\ JournalInit
  /\ op \in {o \in [Requests -> UNION {Operations[c] : c \in Requests}] :
              \A c \in Requests : o[c] \in Operations[c]}
  /\ answer = [c \in Requests |-> NoAnswer]

Answer(c, status, result) ==
  /\ answer[c] = NoAnswer
  /\ answer' = [answer EXCEPT ![c] = [status |-> status, result |-> result]]
  /\ UNCHANGED op

Claims(c) ==
  /\ op[c].kind = "begin"
  /\ BeginAttempt(op[c].action, op[c].attemptID, Events(c))

Appends(c) ==
  /\ op[c].kind = "append"
  /\ AppendAll(Events(c))

Begin(c) ==
  LET result == BeginResult(op[c].action, op[c].attemptID, Events(c))
  IN /\ op[c].kind = "begin"
     /\ Answer(c, result, {})
     /\ \/ Claims(c)
        \/ result # "claimed" /\ UNCHANGED journal

AppendEvents(c) ==
  /\ op[c].kind = "append"
  /\ \/ Appends(c) /\ Answer(c, "ok", {})
     \/ ~preflight(Events(c)) /\ Answer(c, "conflict", {}) /\ UNCHANGED journal

Read(c) ==
  /\ \/ op[c].kind = "events" /\ Answer(c, "read", EventsByAttempt(op[c].attemptID))
     \/ op[c].kind = "action" /\ Answer(c, "read", {ActionByID(op[c].action.id)})
     \/ op[c].kind = "attempts" /\ Answer(c, "read", {attempts})
  /\ UNCHANGED journal

Fail(c) ==
  /\ Answer(c, "error", {})
  /\ Claims(c) \/ Appends(c) \/ UNCHANGED journal

ServiceNext == \E c \in Requests : Begin(c) \/ AppendEvents(c) \/ Read(c) \/ Fail(c)

ServiceSpec == ServiceInit /\ [][ServiceNext]_serviceVars
==============================================================================
