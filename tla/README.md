# Atoha in TLA+

Atoha executes physical actions (turn a light on, set a temperature) through a
provider, today Home Assistant's REST API, and keeps an append-only journal of
what it knows about every attempt. Its promise is about *knowledge*: never
dispatch an attempt twice, never record or report more, or less, than what is
known about a dispatch, and leave every ambiguity visible for an explicit
human decision. This directory models that promise, checks it with TLC on small
instances and proves its core with TLAPS for every instance.

## Inventory

| part | state | operations | interacts with |
|---|---|---|---|
| core contracts (`*.go`) | none: immutable values | constructors, validation | everything |
| `execution` Execute | one call's locals | claim, admit, record, resolve, dispatch, record | journal, admitter, provider |
| `execution` Recover | one call's locals | check authorization, read previous attempt, read action, then execute | journal, Execute |
| `execution` Verify | one call's locals | read, resolve, observe, assess, record | journal, observer, verifier |
| `execution` Get, Scan | none | replay one attempt; list and read all attempts | journal, projection |
| `execution.Journal` | registered actions, claimed attempts, facts | BeginAttempt, AppendAll, three readers | all use cases |
| `eventlog/memory`, `eventlog/sqlite` | the journal's state, behind a mutex or in one database | the journal's operations | — |
| `projection` | the view of one attempt | Apply and its merges | Get |
| `provider/homeassistant` | none | Resolve, Dispatch, Observe, StateVerifier | the REST API |
| `adapter/httpapi` | none | one handler per use case, status codes | use cases |
| `cmd/atoha-server` | the HTTP server | wiring, graceful shutdown | all |

What is hard here is concurrent and partial: every HTTP request is a goroutine
of its own; clients cancel; the provider's answer may be lost after the request
left; an append may fail after the physical effect; the process may die between
any two steps; verifications and scans read while others append.
`PROJECT.json` lists these hazards at their lines, with the properties that
would catch each.

What makes the parts correct:

* Execute/Recover — one dispatch per attempt, write-ahead, true and coherent
  evidence, a sound answer to the caller, recorded whatever the client does;
* Scan — nothing sent is ever invisible;
* Verify — assessments rest on recorded, fresh evidence, contradictions show,
  dispatch knowledge is untouched;
* Projection — the view is a function of the facts, not of their order;
* journal — append-only, atomic, one intent per ActionID, one claim per AttemptID;
* event logs — linearizable under concurrent callers and processes, claims whole
  across failures and crashes, no operation stuck;
* HTTP and server — an error status means no effect, an answer agrees with the
  record, a resubmission is refused, a clean shutdown loses nothing.

## Modules

| module | models |
|---|---|
| `AtohaCore` | identities, intents, statuses, event kinds |
| `Journal` | the contract of the event logs: `actions`, `attempts`, `facts` and their atomic operations |
| `Execution` | Execute and Recover over the journal, the provider's Dispatch, cancellation, outages, crashes |
| `AttemptLifecycle`, `ExecutionRefinement` | what is promised about an attempt (claimed once, sent at most once, true evidence), and the mapping under which `Execution` implements it |
| `Inspection` | Scan beside `Execution` |
| `Projection`, `KnownFacts`, `ProjectionReplay` | the view of an attempt and its replay from a list of facts; what the kinds of facts say, whatever their order; facts applied in any order |
| `EventLog` | the event logs' algorithms on a sequence (conflict check, idempotent append, read) |
| `JournalService` | what `execution.Journal` promises a caller: every call takes effect at one instant, or fails and may have taken effect all the same |
| `LogState`, `MemoryLog`, `SqliteLog`, `EventLogs` | the two logs step by step under concurrent callers, and the mapping under which they implement `JournalService` |
| `HttpApi` | the HTTP handlers and the server process around `Execution` |
| `Verification` | Verify beside an executor, other verifications, a clock and a device |
| `ExecutionProofs` | theorems about `Execution` |
| `RefinementProofs` | `Execution` implements `AttemptLifecycle` |
| `ProjectionProofs`, `ReplayProofs` | theorems about the projection; what a replay computes for every list of facts |
| `InspectionProofs`, `HttpProofs`, `VerificationProofs` | theorems about the scan, the server and the verifications |
| `EventLogsProofs` | theorems about the two logs; both implement `JournalService` |
| `MCExecution`, `MCInspection`, `MCProjection`, `MCVerification`, `MCEventLogs`, `MCHttpApi` | instances for TLC |

**Execution.** A member of `Requests` is one call; its `input` is fixed in
`Init` (an Execute, or a Recover with an authorization). `pc` names the next
point where the call touches something shared, so each journal operation, the
admitter, the resolver, the request leaving (`callService`) and its answer
(`DispatchReturns`) are steps of their own. `errs` is what the
returned error names: its stages, and the sentinel errors callers test for. `calls[r]` counts REST requests that left the process: it is the
physical truth the evidence is compared with. `cancelled` is the set of calls
whose context is done: a step that uses the caller's context (`Begin`, the
reads, `callService`) is then disabled or fails, while `appendAfterIO`, which
detaches, is not affected. `outages` remembers which calls met a storage error
and is read only by properties. `Crash` loses all calls in flight; a restarted
process serves the calls that are still `idle`.

A fact's `content` is the call that built it. Payload and times differ between
calls, so two facts are equal exactly when one call built both. A journal
operation is atomic, and one that fails may have been stored all the same:
`BeginUncertain` is a claim the caller was never told of, and the failing branch of
`appendAfterIO` may append. Both come from `JournalService!Fail`, which the event
logs are shown to implement.

**AttemptLifecycle.** Three variables, no calls and no failures: which attempts are
claimed, which requests left, what is on record about each dispatch.
`ExecutionRefinement` maps them to the journal's claims, the REST calls and the
facts. Most steps of `Execution` are stutters; the rest are a claim, a send or one
record.

**Event logs.** Every caller has one operation. `MemoryLog` looks at the context,
waits for the lock and works in one critical section. `SqliteLog` has a step per
statement: the wait for the process's only connection (`SetMaxOpenConns(1)`), the
three kinds of INSERT OR IGNORE with their comparison, commit, the deferred and the
explicit rollback, and a row set that holds the connection until it is read.
`rows` is what is committed, `work` what the transaction sees. Several processes may
have the file open: SQLite lets one write at a time and makes a commit wait for open
reads. That, and the undoing of a dead process's transaction, is SQLite's and
`database/sql`'s behaviour as the log relies on it. The memory log dies with its
process, so `Crash` is SQLite's only. `LogState` holds what both share, `EventLogs`
runs either backend and instantiates `JournalService` with the facts' order forgotten.

**HttpApi.** `Accept` starts an `Execution` call for a POST, `Proceed` is its next step
under the server's admitter (`allowAll`), `Respond` writes the answer: `NoResult` and
the errors `writeExecution` lists become an error status, anything else is a 200 with
the outcome and perhaps an operation error. `Verify` is a POST to verify by what it
records: observation, effect and assessment, appended to any attempt that has facts, at
any moment of its life. `verified` holds the kinds of these facts; the steps
that lead to them are `Verification`'s. `Get` replays all facts of an attempt, those of its
execution (in `AppendOrder`) and those of its verifications. In the log they are mixed;
`FactList` has the verifications' last, because the view does not depend on how the two are
mixed (`ReplayIsOrderFree`), only on the order of the assessments among themselves, which is
kept. `Shutdown` ends the process once no
handler runs; `Exit` ends it with handlers running (the 10 s deadline, a listener
error, a kill); `Restart` is a new process on the same file. A second POST that
repeats an attempt is therefore a duplicate, a retry after a lost answer or a
resubmission after a restart.

**Inspection.** `ListAttempts` is the `AttemptIDs` query, `ReadAttempt` one
`EventsByAttempt` each. `before` remembers what was claimed and sent at the list
query, for the properties.

**Verification.** One attempt, one action. The log is a sequence of facts with
qualifiers and contents: an observation fact's ID is the raw answer (state and
`last_updated`), its content also has `recordedAt`. `wanted` is what the action asks
for, including a temperature its input does not name (`unreadable`, no
assessment at all) and an action the verifier does not know (`unsupported`). A
device reading may be `malformed` (decode error) or `absent` (a null setpoint).
The executor appears by its appends only: the claim, the admission, and the end, which
is `not_dispatched` unless it admitted, with no admission fact at all when the admitter
gave no valid decision (`undecided`). `verifyAnswer` is what the HTTP handler
makes of a finished call: a changed action is a 409, anything else a 200, which
carries status `unknown` beside its `operation_error` when nothing was assessed. Left out: several observations per
Observe (the provider returns one) and observations of another target.

Definitions named in a `Mutant:` comment are deliberate faults. No specification
uses them; each replaces one definition to show that a property depends on it.

## Runs

| run | instance | result |
|---|---|---|
| `execution` | 3 calls, 1 action, 2 attempt IDs, symmetric | 2.3 M states, passes |
| `execution_live` | 2 calls, 1 action, 2 attempt IDs, fair; also the refinement of `AttemptLifecycle` | 228 k states, passes |
| `inspection` | 2 calls with any of 2 actions × 2 intents × 3 attempt IDs and any authorization, 1 scan | 2.3 M states, passes |
| `projection` | the 12 kinds that matter in any order and number | 5 k states, passes |
| `verification` | 2 verifications, 2 clock values, synchronous clocks | 507 k states, passes |
| `freshness` | 1 verification, 5 clock values, window 2, skew 2, all demands | 2.3 M states, passes |
| `logs` | either log, 3 callers in 2 processes, claims, appends and reads that collide; also the refinement of `JournalService` | 232 k states, passes |
| `http` | 2 POSTs out of 4 inputs, 1 conclusive verification, shutdown, kill and restart at any time, fair | 852 k states, passes |
| `ambiguity`, `authorization`, `scan_doc`, `reverify` | as above | violated, see Findings |

What they show: `execution` and `inspection` that dispatch is exclusive, written
ahead, truly recorded and never invisible to a scan; `execution_live` that a claim is
settled and that the whole is one simple life per attempt; `projection` that a view
does not depend on the order of facts; `verification` and `freshness` that assessments
rest on fresh recorded evidence and never touch dispatch; `logs` that what the others
assume of a journal is what both logs do, and that no operation waits for ever;
`http` what a client may conclude from a status, an answer, a later GET or silence.

Why the bounds are enough: exclusion of duplicates and takeovers is between two
calls, a third gives a recovery beside a duplicate pair; a call makes every
choice (admission status with and without error, each provider answer, each
append failing) in every instance; three attempt IDs allow a recovery that names
an attempt nobody claimed. Two clock values let a second verification read the
same device state at another time, or a changed one; five values with a window
of two include ages −2 to 4. In `logs` two callers compete for one
connection and a third for the file, each with operations that claim the same
attempt, reuse an ActionID, or repeat or contradict one another's events, the
contradicted event being the second of its batch. The 4 inputs of `http` are an
execution, one of the same attempt with another intent, and recoveries of that attempt by
another and by itself; either request may take any of them, so that the second is a
duplicate, a conflict, a recovery or a recovery whose action differs from the registered one.
One verification (`MaxVerifications`) comes before, between or after all facts of either
attempt; that several contradict each other is `verification`'s subject, and the proof
has no bound. No run uses a state constraint. Deadlock is not
checked where all calls may have ended.

Fairness: `FairSpec` asks weak fairness of `Step(r)`, the next step of a call
that has started. Go's scheduler runs every runnable goroutine, and each wait in
a call is bounded: journal appends by the record timeout, the provider by the HTTP
client's timeout. `HttpSpec` asks the same of `Proceed(r)` and `Respond(r)`, and
`EventLogs` of a caller's `Step`: waits for the file end by the busy timeout, and a
wait for the connection ends when its holder, itself fair, gives it back. Giving up
that wait (`ConnectFails`) is not assumed, so `OperationReturns` does not rest on
cancellation. Starting a call, cancelling, crashing, shutdown and restart are not fair.

## Findings

* `ambiguity` — Execute never looks at earlier attempts: after a
  dispatch-unknown, a plain Execute with a fresh AttemptID dispatches again. RFC
  0007: "physical ambiguity always requires explicit recovery".
* `authorization` — one authorization starts any number of attempts; the type's
  comment: it "permits one new attempt".
* `scan_doc` — an attempt that ended dispatch-unknown counts as finished and is
  not listed; RFC 0007 and the API document promise every attempt "without a
  conclusive dispatch fact".
* `reverify` — an observation's EventID does not depend on when it was read, its
  content does. Verifying twice while Home Assistant reports the same
  `last_updated` makes the second batch a conflict: the assessment is returned,
  with a record error, and not stored.

## Proofs

All of them hold for any sets of calls, actions, intents, attempts and decisions,
finite or not. Assumptions: `NoAttempt`, `NoIntent` and `NoAuthorization` are not among
the real values, `Inputs` is a non-empty set of well-typed calls; for `Verification`, times
and the skew are naturals, the freshness window is positive, and an action asks for
one of the four demands; for `HttpApi`, a recovery's authorization names the
action it was sent with, as the handler builds it; for `EventLogs`, every caller belongs to a process and asks for a
`ValidOperation`: a write has at least one fact, the first facts of a claim are of its attempt
(both logs' callers see to that, and `BeginAttempt` checks it), and no other batch says that
an attempt started. No bound of a run is assumed.

The SMT translation of tlapm 1.4.5 gives every function on `1 .. n` and no other a length,
which contradicts itself as soon as an obligation also speaks of a function on `0 .. n`. The
proofs keep `Len` and such functions apart, and every obligation that mentions `Len` was
also checked with the sound half of that axiom.

**`ExecutionProofs`** proves `TypeOK`, `AtMostOneCallPerAttempt`,
`CallIsWrittenAhead`, `DispatchFactsAreTrue`, `AttemptHistoryIsCoherent`,
`ReturnedOutcomeIsSound` and the action property `HistoryIsAppendOnly`.
None of the invariants is inductive: they speak of calls and facts and not of *where a
call is*. The strengthening `IInv` is

* `Steady(r)`: for each label, which kinds of facts the call has on record and
  whether its request left (say, `resolve` to `record_dispatch` imply a recorded
  admission and no dispatch fact; one request at most, and none before
  `calling`);
* `Owned`: every fact was built by a call whose attempt-started fact is on
  record, two owners never share an AttemptID, and an owner's attempt is claimed
  and its intent registered.

A step changes one call, so `Steady` is re-established for that call alone
(`OneCallMoves`), and `Owned` survives an append by an owner (`OwnedAppend`) and a
successful claim (`OwnedBegin`), where the claim check gives uniqueness. There is
one lemma per group of actions that change the same state. Journal failures that took
effect are part of `Next`: a claim the caller was not told of makes it an owner that
has ended (`BeginUncertain`), an append that failed may have added its facts.
A crash, and any other way of losing calls, is one lemma (`LosingKeepsIInv`).

Its second part proves `ReturnedOutcomeIsRecorded` and `RecoveryIsLinked`. `IInv` says
what a call may have on record; these say what it was *told*, and which other call
explains it. `EInv` adds that every claim has an owner (`ClaimsAreOwned`), that a call
that ended without owning its attempt was cancelled, met an outage or carries an error
whose cause is in the journal (`Explained`), that the dispatch it returned is on its
record (`Told`), and that a recovery past its first read has a previous attempt with an
owner (`Linked`). The argument that needs care is that an owner's own batch always passes
`preflight` (`OwnBatchPasses`): that is why a record error can only be an outage.
`Lost(r)`, a third invariant, says that a call that crashed or returned nothing has no
dispatch fact.

**`RefinementProofs`** proves `Spec => ImplementsLifecycle`: the initial states map to
initial states, a claim (told or not) is `Claim`, the request leaving is `Send`, an append
that stores a dispatch fact for the first time is one `Record`, all else stutters.
`DispatchFactsAreTrue` and the uniqueness of owners give `Record`'s guards. The proof
showed that `KnownDispatch` had overlapping CASE arms, whose value TLA+ leaves open; it
is an IF now.

**`InspectionProofs`** first shows that a scan is transparent (`ScanSpec => Spec`), so
everything above holds beside it, then `ScanTypeOK`, `ScanMissesNothing`,
`SentCallsAreAccountedFor` and `LostCallsStayVisible`. `ScanInv` carries the scan: an attempt
that was claimed at the list query is found, still to be read, or finished, and a
finished attempt stays finished because facts are never removed.

**`HttpProofs`** proves `HttpTypeOK`, `ErrorStatusMeansNoEffect`, `ResubmissionIsRefused`,
`CleanShutdownLosesNothing` and `AnswerAgreesWithRecord`, for any number of verifications with
any outcomes. `HttpSpec` does not imply `Execution`'s `Spec`: a process that
exits also loses calls that have returned and were not answered yet, which no step of
`Execution` does. The invariants are therefore shown again for `HttpNext`
(`HttpKeepsExecution`), from the same step lemmas. `HInv` adds that an answer is what
`writeExecution` makes of the call, and that a stopped server has no handler. `AInv` says how
far the outcome a call holds agrees with the kinds it has on record, `VInv` that what
verifications record says nothing of admission and dispatch, and of the effect only together
with an assessment; `ListingSays`, `ConcatSays` and the replay theorem turn the kinds into
what GET answers.

**`ProjectionProofs`** proves that a view is well formed, `ViewIsOrderFree` for any
set of kinds (the incremental merges equal a definition over the set of applied
kinds, which is itself inductive), `AssessmentIsRecorded` and the action property
`KnowledgeOnlyGrows`.

**`ReplayProofs`** proves `ReplayIsOrderFree`: for every list of facts, `Replay` gives what the
kinds in it say (`KnownFacts`). It needs an induction over the list. The induction theorems
of the library take a predicate as a parameter, which the provers cannot instantiate, so
`Induction` is stated for a *set* of naturals and follows from the least-number principle;
`Recursion`, that functions defined step by step exist, follows from it. The last part is
what `appendPrepared` does to any log and batch (`Appended`): it keeps the log, adds facts of
the batch only, and where it adds one, all earlier facts of the batch are on record before
that place, even those it skipped.

**`VerificationProofs`** proves `TypeOK`, `AssessmentRestsOnEvidence`,
`ContradictionIsVisible`, `DispatchIsTheExecutors`, `UnrecordedIsReported` and the action
property `EffectOnlyGrows`. From `Appended` follow the kinds on record, that an accepted
batch is stored as a whole, and that an assessment stays behind its evidence. The invariant `VInv` adds what the properties
leave out: `ExecutorSays` (the executor's facts in each of its states), `Paired` (effect and
assessment come together) and `Justified(c)` (why a verification may hold its verdict, and
that it was recorded if no error says otherwise). The replay theorem carries them to views.

**`EventLogsProofs`** proves `LogsTypeOK`, `ClaimIsWhole`, `ReadsFollowAppendOrder` and
`Spec => ImplementsJournal`, for both logs and any number of callers and processes. The
invariant `LInv` says who holds the connection of a process and the write lock (`HoldInv`),
and for each label of a transaction what `work` is compared with `rows` (`Transaction`): the
intent is registered, the attempt is added, the first `next - 1` facts are in and none of
them contradicts another (`Filled`). The rows cannot change under a transaction because only
the holder of the write lock commits; a transaction that has not taken the lock yet has done
nothing (`OtherTransactions`). `EveryStep` is the heart: a step keeps `LInv`, and to the
callers it is nothing or `Linearizes(c)`, the instant at which `c` is answered. One INSERT OR
IGNORE after the other (`FillNext`) and the memory log's `appendPrepared` (`FillAll`) end in
the same `Filled`; a conflict found half way is one of the whole batch (`FillConflict`), which
is why the SQLite log, that has no preflight, answers what the journal does. The last three
theorems look only at `Linearizes`. `EventsByAttemptLists`, by induction, says what a read
returns: the facts of the attempt at their places in the log, in order.

Only model-checked: liveness (`ClaimIsSettled`, `OperationReturns`, `RequestIsAnswered`),
since fairness is out of the prover's reach.

## Not modelled

* Reading the environment, URL and JSON construction, number comparison, the texts of
  responses, payload encoding, decoding of stored rows: data conversions. What they
  decide (refused, failed, equal or not) is a choice of the model.
* Constructors that only validate text and times: identities are model values.
* `/healthz` and the scan handler, which passes the scan's result through.
* A commit that fails on the busy timeout: `database/sql` takes the transaction as
  ended, so the deferred rollback does nothing, and whether the connection is still
  inside SQLite's transaction depends on the driver, which is not in this repository.
  The model takes the connection as usable again.
* Redirects. The client `cmd/atoha-server` gives the provider sets no `CheckRedirect`, so Go's `net/http`
  follows them: a 307 or 308 makes it send the POST again, and a 301, 302 or 303 makes it
  send a GET. `callService` is one request, so "at most one call per attempt" is about the calls
  Atoha makes, under the assumption that Home Assistant's service endpoint answers no redirect.
* Loss of committed data, and a clock that runs backwards.

## Plan

Done: all modules and runs above, and proofs about every modelled component: every safety
property and both refinements that the runs check are also theorems. Left to TLC is liveness.
A next step would be a model of the driver's state after a commit that timed out, once its
source is at hand.
