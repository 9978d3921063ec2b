------------------------------ MODULE SqliteLog ------------------------------
(***************************************************************************)
(* eventlog/sqlite: every operation waits for the one connection of its    *)
(* process, and a write is a transaction of several statements.  The       *)
(* database file is shared by several processes: one of them at a time     *)
(* may write, a commit waits for the reads of the others, and a wait that  *)
(* exceeds the busy timeout makes the statement fail.                      *)
(*                                                                         *)
(* A write transaction's first statement takes the write lock, so what the *)
(* later ones read cannot change under them.  The locking, and what becomes*)
(* of a transaction when its process dies, are SQLite's and database/sql's *)
(* and are modelled from how the log uses them.                            *)
(***************************************************************************)
EXTENDS LogState

CONSTANTS
  Processes,            \* the processes that have the file open
  Process               \* the process of each caller

VARIABLES
  conn,                 \* who holds the connection of a process
  writer,               \* who holds the file's write lock
  work,                 \* the rows as the writer sees them
  next                  \* the event a caller's transaction inserts next

connVars == <<conn, writer, work, next>>

Reading == {c \in Requests : pc[c] = "rows"}

\* The rows a statement of c sees.
Seen(c) == IF c \in writer THEN work ELSE rows

\* A write statement waits for the write lock.
Lock(c) ==
  /\ writer \in {{}, {c}}
  /\ writer' = {c}

\* The connection goes back to the pool, the write lock is given up.
Release(c) ==
  /\ conn' = [conn EXCEPT ![Process[c]] = {}]
  /\ writer' = writer \ {c}
  /\ work' = IF c \in writer THEN rows' ELSE work

\* Mutant: the pool is not limited to one connection.
ConnectAlways(c) ==
  /\ pc[c] = "connect"
  /\ conn' = [conn EXCEPT ![Process[c]] = @ \cup {c}]
  /\ Goto(c, CASE op[c].kind = "begin"  -> "insert_action"
               [] op[c].kind = "append" -> "insert_events"
               [] OTHER                 -> "query")
  /\ UNCHANGED <<rows, answer, writer, work, next>>

\* BeginTx and QueryContext wait for the connection.
Connect(c) ==
  /\ pc[c] = "connect"
  /\ conn[Process[c]] = {}
  /\ conn' = [conn EXCEPT ![Process[c]] = {c}]
  /\ Goto(c, CASE op[c].kind = "begin"  -> "insert_action"
               [] op[c].kind = "append" -> "insert_events"
               [] OTHER                 -> "query")
  /\ UNCHANGED <<rows, answer, writer, work, next>>

\* The context is done before a connection is free.
ConnectFails(c) ==
  /\ pc[c] = "connect"
  /\ Answer(c, "error", {})
  /\ Goto(c, "done")
  /\ UNCHANGED <<rows, connVars>>

------------------------------------------------------------------------------
(* BeginAttempt and AppendAll.                                             *)

Refuse(c, status) == Answer(c, status, {}) /\ Goto(c, "rollback")

\* INSERT OR IGNORE, and the comparison with the row that was there.
InsertAction(c) ==
  LET known == rows.actions[op[c].action.id]
  IN /\ pc[c] = "insert_action"
     /\ Lock(c)
     /\ \/ /\ known \in {NoIntent, op[c].action.intent}
           /\ work' = [rows EXCEPT !.actions[op[c].action.id] = op[c].action.intent]
           /\ Goto(c, "insert_attempt")
           /\ UNCHANGED answer
        \/ /\ known \notin {NoIntent, op[c].action.intent}
           /\ work' = rows
           /\ Refuse(c, "conflict")
     /\ UNCHANGED <<rows, conn, next>>

InsertAttempt(c) ==
  /\ pc[c] = "insert_attempt"
  /\ \/ /\ op[c].attemptID \notin ToSet(work.attempts)
        /\ work' = [work EXCEPT !.attempts = Append(@, op[c].attemptID)]
        /\ Goto(c, "insert_events")
     \/ /\ op[c].attemptID \in ToSet(work.attempts)
        /\ Goto(c, "duplicate")
        /\ UNCHANGED work
  /\ UNCHANGED <<rows, answer, conn, writer, next>>

\* Mutant: the claim is reported as taken without ending the transaction.
DuplicateLeaks(c) ==
  /\ pc[c] = "duplicate"
  /\ Answer(c, "duplicate", {})
  /\ Goto(c, "done")
  /\ UNCHANGED <<rows, connVars>>

\* No row was inserted: the explicit rollback, which may fail itself.
RollbackDuplicate(c) ==
  /\ pc[c] = "duplicate"
  /\ Answer(c, "duplicate", {}) \/ Answer(c, "error", {})
  /\ UNCHANGED <<rows, next>>
  /\ Release(c)
  /\ Goto(c, "done")

\* Mutant: an ignored insert is taken for an identical fact.
InsertEventUnchecked(c) ==
  LET e == op[c].events[next[c]]
      known == {f \in ToSet(Seen(c).events) : EL!SameEventID(e, f)}
  IN /\ pc[c] = "insert_events"
     /\ Lock(c)
     /\ work' = IF known = {} THEN [Seen(c) EXCEPT !.events = Append(@, e)] ELSE Seen(c)
     /\ next' = [next EXCEPT ![c] = @ + 1]
     /\ Goto(c, IF next[c] = Len(op[c].events) THEN "commit" ELSE "insert_events")
     /\ UNCHANGED <<rows, conn, answer>>

\* appendEvents, one event: INSERT OR IGNORE, and the comparison with the row
\* that was there, this transaction's own rows included.
InsertEvent(c) ==
  LET e == op[c].events[next[c]]
      known == {f \in ToSet(Seen(c).events) : EL!SameEventID(e, f)}
  IN /\ pc[c] = "insert_events"
     /\ Lock(c)
     /\ work' = IF known = {} THEN [Seen(c) EXCEPT !.events = Append(@, e)] ELSE Seen(c)
     /\ \/ /\ \A f \in known : EL!equal(e, f)
           /\ next' = [next EXCEPT ![c] = @ + 1]
           /\ Goto(c, IF next[c] = Len(op[c].events) THEN "commit" ELSE "insert_events")
           /\ UNCHANGED answer
        \/ /\ \E f \in known : ~EL!equal(e, f)
           /\ Refuse(c, "conflict")
           /\ UNCHANGED next
     /\ UNCHANGED <<rows, conn>>

\* A commit waits for the open reads of other processes.
Commit(c) ==
  /\ pc[c] = "commit"
  /\ Reading = {}
  /\ rows' = work
  /\ Answer(c, IF op[c].kind = "begin" THEN "claimed" ELSE "ok", {})
  /\ Release(c)
  /\ Goto(c, "done")
  /\ UNCHANGED next

\* Commit reports an error, and may have worked all the same.
CommitFails(c) ==
  /\ pc[c] = "commit"
  /\ \/ Reading = {} /\ rows' = work
     \/ rows' = rows
  /\ Refuse(c, "error")
  /\ UNCHANGED connVars

\* A done context, the busy timeout, or the disk.
StatementFails(c) ==
  /\ pc[c] \in {"insert_action", "insert_attempt", "insert_events"}
  /\ Refuse(c, "error")
  /\ UNCHANGED <<rows, connVars>>

\* Mutant: the deferred function commits what there is.
RollbackCommits(c) ==
  /\ pc[c] = "rollback"
  /\ rows' = Seen(c)
  /\ Release(c)
  /\ Goto(c, "done")
  /\ UNCHANGED <<answer, next>>

\* The deferred rollback.
Rollback(c) ==
  /\ pc[c] = "rollback"
  /\ UNCHANGED <<rows, answer, next>>
  /\ Release(c)
  /\ Goto(c, "done")

------------------------------------------------------------------------------
(* EventsByAttempt, ActionByID and AttemptIDs: a row set is read and closed *)
(* while the connection is held.                                           *)

Query(c) ==
  /\ pc[c] = "query"
  /\ Goto(c, "rows")
  /\ UNCHANGED <<rows, answer, connVars>>

ReadRows(c) ==
  /\ pc[c] = "rows"
  /\ Answer(c, "read", ReadResult(c))
  /\ UNCHANGED <<rows, next>>
  /\ Release(c)
  /\ Goto(c, "done")

ReadFails(c) ==
  /\ pc[c] \in {"query", "rows"}
  /\ Answer(c, "error", {})
  /\ UNCHANGED <<rows, next>>
  /\ Release(c)
  /\ Goto(c, "done")

------------------------------------------------------------------------------

\* What a caller does by itself; giving up the wait for the connection takes
\* someone to cancel it.
Step(c) ==
  \/ Connect(c)
  \/ InsertAction(c)
  \/ InsertAttempt(c)
  \/ RollbackDuplicate(c)
  \/ InsertEvent(c)
  \/ Commit(c)
  \/ CommitFails(c)
  \/ StatementFails(c)
  \/ Rollback(c)
  \/ Query(c)
  \/ ReadRows(c)
  \/ ReadFails(c)

\* A process dies: its transaction is undone and its locks are gone.  (A
\* commit that reached the disk before is CommitFails.)
Crash(p) ==
  LET lost == {c \in Requests : Process[c] = p /\ pc[c] \notin {"idle", "done", "crashed"}}
  IN /\ lost # {}
     /\ pc' = [c \in Requests |-> IF c \in lost THEN "crashed" ELSE pc[c]]
     /\ conn' = [conn EXCEPT ![p] = {}]
     /\ writer' = writer \ lost
     /\ work' = IF writer \cap lost # {} THEN rows ELSE work
     /\ UNCHANGED <<rows, answer, next>>
==============================================================================
