----------------------------- MODULE StepStore -----------------------------
(***************************************************************************)
(* The durable store of one workflow: src/store/sqlite.rs behind the trait *)
(* of src/store.rs.  It keeps an append-only log of events and a row per   *)
(* step that is written with every event, in the same transaction, and by  *)
(* the claim and the renewal of a lease, which leave no event.  Each       *)
(* operation holds the connection's mutex and is one step.                 *)
(***************************************************************************)
EXTENDS Integers, Sequences, FiniteSets

CONSTANTS
    NumSteps,       \* the number of steps of the workflow
    MaxAttempts,    \* RetryPolicy.max_attempts
    Workers,        \* worker ids, one for each engine
    Calls,          \* the calls of the engines' operations
    Nobody

ASSUME StoreAssumption ==
    /\ NumSteps \in Nat \ {0}
    /\ MaxAttempts \in Nat
    /\ Nobody \notin Workers

VARIABLES
    log,        \* the table events, in the order of their ids
    rows        \* the table steps: status, lease and attempt of each step

store == <<log, rows>>

Steps == 0..(NumSteps - 1)
Attempts == 0..MaxAttempts

\* Workflow events carry no step.  Two fields are not in the table and are there
\* for properties to speak of: by, the call that appended the event, and attempt
\* in events other than StepStarted and RetryScheduled.
NoStep == -1

StepEvents == {"StepStarted", "StepCompleted", "StepFailed", "RetryScheduled",
               "StepWaiting", "StepResumed", "WorkerRecovered"}
TerminalEvents == {"WorkflowCompleted", "WorkflowFailed", "WorkflowCancelled"}

Events == [type : StepEvents \union TerminalEvents \union {"WorkflowStarted"},
           step : Steps \union {NoStep},
           attempt : Attempts,
           by : Calls]

\* "absent" stands for a step that has no row; attempt is 0 for it, as
\* current_attempt(..).unwrap_or(0) makes it.  fresh says that the expiry time
\* of a lease lies ahead.
Rows == [status : {"absent", "pending", "leased", "completed", "failed", "waiting"},
         holder : Workers \union {Nobody},
         fresh : BOOLEAN,
         attempt : Attempts]

NoRow == [status |-> "absent", holder |-> Nobody, fresh |-> FALSE, attempt |-> 0]

StoreTypeOK == log \in Seq(Events) /\ rows \in [Steps -> Rows]

StoreInit == log = <<>> /\ rows = [s \in Steps |-> NoRow]

(***************************************************************************)
(* Reading the log: the folds of engine.rs                                 *)
(***************************************************************************)

Logged(type) == \E i \in DOMAIN log : log[i].type = type

LoggedFor(type, s) == \E i \in DOMAIN log : log[i].type = type /\ log[i].step = s

HasTerminalEvent == \E type \in TerminalEvents : Logged(type)

IsCancelled == Logged("WorkflowCancelled")

\* The positions of the events of step s that are of one of these types.
Positions(types, s) ==
    {i \in DOMAIN log : log[i].type \in types /\ log[i].step = s}

\* The last event of step s of one of these types, when there is one.
LastEvent(types, s) ==
    log[CHOOSE i \in Positions(types, s) : \A j \in Positions(types, s) : j <= i]

\* step_status_from_events: each event of a step sets the status.
StatusFromLog(s) ==
    IF Positions(StepEvents, s) = {} THEN "pending"
    ELSE CASE LastEvent(StepEvents, s).type = "StepCompleted" -> "completed"
           [] LastEvent(StepEvents, s).type = "StepFailed"    -> "failed"
           [] LastEvent(StepEvents, s).type = "StepWaiting"   -> "waiting"
           [] OTHER -> "pending"

\* current_attempt_from_events: the attempt last started or scheduled.
AttemptFromLog(s) ==
    IF Positions({"StepStarted", "RetryScheduled"}, s) = {} THEN 0
    ELSE LastEvent({"StepStarted", "RetryScheduled"}, s).attempt

(***************************************************************************)
(* Operations                                                              *)
(***************************************************************************)

\* The status that the event of a step gives to its row.
StatusAfter(type) ==
    CASE type = "StepCompleted" -> "completed"
      [] type = "StepFailed"    -> "failed"
      [] type = "StepWaiting"   -> "waiting"
      [] OTHER                  -> "pending"

AttemptAfter(row, e) == IF e.type = "RetryScheduled" THEN e.attempt ELSE row.attempt

\* Slip: StepStarted resets the row, as it did before version 0.2.1.
Projects_Started(e) == e.type \in StepEvents

\* Slip: RetryScheduled leaves the row as StepFailed made it.
Projects_NotRetry(e) == e.type \in StepEvents \ {"StepStarted", "RetryScheduled"}

\* StepStarted and the workflow events leave the row alone.
Projects(e) == e.type \in StepEvents \ {"StepStarted"}

\* apply_event_projection: the status is set and the lease cleared, whoever holds
\* it; only RetryScheduled changes the attempt.
Projected(row, e) ==
    IF Projects(e) THEN [NoRow EXCEPT !.status = StatusAfter(e.type),
                                      !.attempt = AttemptAfter(row, e)]
                   ELSE row

\* append_event: the event and its projection, in one transaction.
AppendEvent(type, s, a, c) ==
    LET e == [type |-> type, step |-> s, attempt |-> a, by |-> c]
    IN  /\ log' = Append(log, e)
        /\ rows' = [t \in Steps |-> IF t = s THEN Projected(rows[t], e) ELSE rows[t]]

\* Slip: a completed step is not recognised.
ClaimResult_ForgetsCompleted(row, w) ==
    CASE row.status = "waiting" -> "AlreadyWaiting"
      [] row.status = "leased" /\ row.holder # w /\ row.fresh -> "HeldByOther"
      [] OTHER -> "Claimed"

\* What claim_step_tx answers worker w about a row.  Its own lease, fresh or not,
\* does not stop w.
ClaimResult(row, w) ==
    CASE row.status = "completed" -> "AlreadyCompleted"
      [] row.status = "waiting"   -> "AlreadyWaiting"
      [] row.status = "leased" /\ row.holder # w /\ row.fresh -> "HeldByOther"
      [] OTHER -> "Claimed"

\* claim_step: a claim that succeeds writes the lease and keeps the attempt.
ClaimStep(s, w) ==
    rows' = IF ClaimResult(rows[s], w) = "Claimed"
            THEN [rows EXCEPT ![s] = [status |-> "leased", holder |-> w,
                                      fresh |-> TRUE, attempt |-> @.attempt]]
            ELSE rows

\* renew_lease: only for the holder, also when the lease has expired already.
RenewLease(s, w) ==
    /\ rows[s].status = "leased" /\ rows[s].holder = w
    /\ rows' = [rows EXCEPT ![s].fresh = TRUE]

\* The lease time runs out.
ExpireLease(s) ==
    /\ rows[s].status = "leased" /\ rows[s].fresh
    /\ rows' = [rows EXCEPT ![s].fresh = FALSE]

\* expired_leases: the executions a recovery finds, with the row's attempt.
ExpiredLeases ==
    {[step |-> s, attempt |-> rows[s].attempt] :
        s \in {t \in Steps : rows[t].status = "leased" /\ ~ rows[t].fresh}}
=============================================================================
