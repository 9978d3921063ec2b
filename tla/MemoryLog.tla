------------------------------ MODULE MemoryLog ------------------------------
(***************************************************************************)
(* eventlog/memory: every operation looks at its context, waits for the    *)
(* lock and does its work in one critical section.  The context is not     *)
(* looked at again once the lock is held.                                  *)
(***************************************************************************)
EXTENDS LogState

\* ctx.Err, before the lock: the context may be done.
Enter(c) ==
  /\ pc[c] = "enter"
  /\ \/ Answer(c, "error", {}) /\ Goto(c, "done")
     \/ Goto(c, "lock") /\ UNCHANGED answer
  /\ UNCHANGED rows

equalAction(c) == rows.actions[op[c].action.id] = op[c].action.intent

BeginStatus(c) ==
  IF rows.actions[op[c].action.id] # NoIntent /\ ~equalAction(c) THEN "conflict"
  ELSE IF op[c].attemptID \in ToSet(rows.attempts) THEN "duplicate"
  ELSE IF ~EL!preflight(rows.events, op[c].events) THEN "conflict"
  ELSE "claimed"

BeginAttempt(c) ==
  /\ pc[c] = "lock"
  /\ op[c].kind = "begin"
  /\ Answer(c, BeginStatus(c), {})
  /\ rows' = IF BeginStatus(c) # "claimed" THEN rows
             ELSE [actions  |-> [rows.actions EXCEPT ![op[c].action.id] = op[c].action.intent],
                   attempts |-> Append(rows.attempts, op[c].attemptID),
                   events   |-> EL!appendPrepared(rows.events, op[c].events)]
  /\ Goto(c, "done")

AppendAll(c) ==
  /\ pc[c] = "lock"
  /\ op[c].kind = "append"
  /\ \/ /\ ~EL!preflight(rows.events, op[c].events)
        /\ Answer(c, "conflict", {}) /\ UNCHANGED rows
     \/ /\ EL!preflight(rows.events, op[c].events)
        /\ Answer(c, "ok", {})
        /\ rows' = [rows EXCEPT !.events = EL!appendPrepared(@, op[c].events)]
  /\ Goto(c, "done")

\* EventsByAttempt, ActionByID, AttemptIDs, under the read lock.
Read(c) ==
  /\ pc[c] = "lock"
  /\ op[c].kind \in {"events", "action", "attempts"}
  /\ Answer(c, "read", ReadResult(c))
  /\ Goto(c, "done")
  /\ UNCHANGED rows

Step(c) == Enter(c) \/ BeginAttempt(c) \/ AppendAll(c) \/ Read(c)
==============================================================================
