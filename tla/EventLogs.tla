------------------------------ MODULE EventLogs ------------------------------
(***************************************************************************)
(* The two event logs under concurrent callers, each shown to implement    *)
(* JournalService, the promise the use cases rely on.                      *)
(***************************************************************************)
EXTENDS LogState, FiniteSets

CONSTANTS
  Backends,             \* "memory", "sqlite"
  Processes,            \* the processes that share a SQLite file
  Process               \* the process of each caller

VARIABLES backend, conn, writer, work, next

vars == <<backend, rows, op, pc, answer, conn, writer, work, next>>

Memory == INSTANCE MemoryLog
Sqlite == INSTANCE SqliteLog

\* Every fact some operation appends.
Facts == UNION {ToSet(o.events) : o \in UNION {Operations[c] : c \in Requests}}

\* What the callers ask for: an ID, an intent and a batch of facts.  A write
\* has facts; the first facts of a claim are of its attempt, and no others say
\* that an attempt started.
ValidOperation(o) ==
  /\ o.kind \in {"begin", "append", "events", "action", "attempts"}
  /\ o.action \in Action /\ o.attemptID \in AttemptIDs
  /\ o.events \in Seq(Facts)
  /\ o.kind \in {"begin", "append"} => o.events # <<>>
  /\ \A e \in ToSet(o.events) :
       /\ e = [actionID |-> e.actionID, attemptID |-> e.attemptID, kind |-> e.kind,
               qualifier |-> e.qualifier, content |-> e.content]
       /\ e.kind \in EventKind
       /\ IF o.kind = "begin" THEN e.attemptID = o.attemptID ELSE e.kind # "attempt_started"

ASSUME OperationsAssumption ==
  \A c \in Requests : \A o \in Operations[c] : ValidOperation(o)
ASSUME BackendsAssumption == Backends \subseteq {"memory", "sqlite"} /\ Backends # {}
ASSUME ProcessAssumption == Process \in [Requests -> Processes]

Init ==
  /\ backend \in Backends
  /\ rows = EmptyLog
  /\ op \in {o \in [Requests -> UNION {Operations[c] : c \in Requests}] :
              \A c \in Requests : o[c] \in Operations[c]}
  /\ pc = [c \in Requests |-> "idle"]
  /\ answer = [c \in Requests |-> NoAnswer]
  /\ conn = [p \in Processes |-> {}]
  /\ writer = {}
  /\ work = EmptyLog
  /\ next = [c \in Requests |-> 1]

Call(c) ==
  /\ pc[c] = "idle"
  /\ Goto(c, IF backend = "memory" THEN "enter" ELSE "connect")
  /\ UNCHANGED <<backend, rows, op, answer, conn, writer, work, next>>

ConnectFails(c) ==
  /\ backend = "sqlite"
  /\ Sqlite!ConnectFails(c)
  /\ UNCHANGED <<backend, op>>

Step(c) ==
  \/ /\ backend = "memory"
     /\ Memory!Step(c)
     /\ UNCHANGED <<backend, op, conn, writer, work, next>>
  \/ /\ backend = "sqlite"
     /\ Sqlite!Step(c)
     /\ UNCHANGED <<backend, op>>

Crash(p) ==
  /\ backend = "sqlite"
  /\ Sqlite!Crash(p)
  /\ UNCHANGED <<backend, op>>

Next ==
  \/ \E c \in Requests : Call(c) \/ Step(c) \/ ConnectFails(c)
  \/ \E p \in Processes : Crash(p)

\* A goroutine that can run runs; waits for the file end by the busy timeout.
Spec == Init /\ [][Next]_vars /\ \A c \in Requests : WF_vars(Step(c))

LogsTypeOK ==
  /\ backend \in Backends
  /\ \A r \in {rows, work} :
       /\ r.actions \in [ActionIDs -> Intents \cup {NoIntent}]
       /\ r.attempts \in Seq(AttemptIDs)
       /\ \A i \in DOMAIN r.events : r.events[i].kind \in EventKind
  /\ \A c \in Requests :
       answer[c].status \in {"none", "claimed", "duplicate", "conflict", "ok", "read", "error"}
  /\ \A p \in Processes :
       conn[p] \subseteq {c \in Requests : Process[c] = p} /\ Cardinality(conn[p]) <= 1
  /\ writer \subseteq UNION {conn[p] : p \in Processes}
  /\ next \in [Requests -> Nat]

------------------------------------------------------------------------------
(* Properties.                                                             *)

\* The journal as its callers see it: no order among the facts.
Journal == INSTANCE JournalService WITH
  actions  <- rows.actions,
  attempts <- rows.attempts,
  facts    <- ToSet(rows.events),
  answer   <- [c \in Requests |->
                 IF op[c].kind # "events" THEN answer[c]
                 ELSE [answer[c] EXCEPT !.result = UNION {ToSet(s) : s \in @}]]

(* Both logs are linearizable: whatever the interleaving of statements,    *)
(* the cancellations, failures and crashes, every operation takes effect   *)
(* at one instant between call and answer, and its answer is the one the   *)
(* journal gives at that instant (BeginAttempt, AppendAll, the readers).   *)
ImplementsJournal == Journal!ServiceSpec

(* A claim is whole and has an owner: the attempt, the intent and all its  *)
(* initial facts are stored together or not at all.  A caller that was     *)
(* told "claimed" has all of it on disk, also after crashes; a claim nobody*)
(* was told of belongs to a caller that got an error                       *)
(* (BeginAttempt's transaction and its commit).                            *)
ClaimIsWhole ==
  LET Stored(c) == /\ op[c].attemptID \in ToSet(rows.attempts)
                   /\ ToSet(op[c].events) \subseteq ToSet(rows.events)
                   /\ rows.actions[op[c].action.id] = op[c].action.intent
      Begins == {c \in Requests : op[c].kind = "begin"}
  IN /\ \A c \in Begins : answer[c].status = "claimed" => Stored(c)
     /\ \A a \in ToSet(rows.attempts) :
          \E c \in Begins : /\ op[c].attemptID = a
                            /\ Stored(c)
                            /\ answer[c].status \in {"claimed", "error"}
     /\ \A e \in ToSet(rows.events) :
          e.kind = "attempt_started" => e.attemptID \in ToSet(rows.attempts)
     /\ \A a \in ActionIDs : rows.actions[a] # NoIntent =>
          \E c \in Begins : op[c].action.id = a /\ op[c].attemptID \in ToSet(rows.attempts)

\* s lists the members of log at the positions in ks, in their order.
Lists(s, log, ks) ==
  \E at \in [DOMAIN s -> ks] :
    /\ \A i \in DOMAIN s : s[i] = log[at[i]]
    /\ \A i, j \in DOMAIN s : i < j => at[i] < at[j]
    /\ \A k \in ks : \E i \in DOMAIN s : at[i] = k

(* Reads are in append order, for ever: what EventsByAttempt or AttemptIDs *)
(* returned at any time is what a beginning of today's log gives, so two   *)
(* reads never disagree about the order of what both have seen.            *)
ReadsFollowAppendOrder ==
  \A c \in Requests : answer[c].status = "read" =>
    /\ op[c].kind = "events" =>
         \E n \in 0 .. Len(rows.events) : \A s \in answer[c].result :
           Lists(s, rows.events, {k \in 1 .. n : rows.events[k].attemptID = op[c].attemptID})
    /\ op[c].kind = "attempts" =>
         \A s \in answer[c].result : IsPrefix(s, rows.attempts)

(* No operation waits for ever: with one connection per process, and       *)
(* transactions, row sets, failures and crashes that hold it, every call   *)
(* returns unless its process dies (SetMaxOpenConns(1), Rollback, Close).  *)
OperationReturns ==
  \A c \in Requests : pc[c] # "idle" ~> pc[c] \in {"done", "crashed"}
==============================================================================
