--------------------------- MODULE WorkflowEngine ---------------------------
(***************************************************************************)
(* agentq's durable workflows: src/engine.rs and src/recovery.rs on top of *)
(* StepStore.  One workflow, one or more engines (processes) that share    *)
(* the store, and calls of run, cancel, resume, recover and                *)
(* register_workflow that interleave at every store operation, lock and    *)
(* await.                                                                  *)
(*                                                                         *)
(* An engine's queue is seen through what IdempotentKeys promises: a job   *)
(* key is claimed, pending, running or settled, and whoever waits for it   *)
(* is told its outcome, or that it is lost when the claim is given up.     *)
(* The queue is in memory, so a crash forgets all of it.                   *)
(*                                                                         *)
(* As in Queue, a definition marked Slip is one that nothing uses.         *)
(***************************************************************************)
EXTENDS StepStore

CONSTANTS
    Engine,         \* Engine[c]: the engine that call c is made on
    Kind,           \* Kind[c]: its operation
    Target,         \* Target[c]: the step that a resume names
    Timed,          \* the steps with a timeout
    Bodies,         \* what the body of an attempt may return
    Faults,         \* which of these may happen: "expire", a lease nobody renews
                    \* runs out; "stall", a lease runs out although somebody
                    \* would have renewed it; "crash"; "store", a store error;
                    \* "abandon", a caller drops the future of its call
    MaxFaults,      \* bound on crashes, store errors and abandoned calls together
    MaxConcurrent   \* bound on the calls in progress at a time

ASSUME EngineAssumption ==
    /\ Engine \in [Calls -> Workers]
    /\ Kind \in [Calls -> {"run", "register", "cancel", "resume", "recover"}]
    /\ Target \in [Calls -> Steps]
    /\ Timed \subseteq Steps
    /\ Bodies \subseteq {"ok", "fail", "wait", "fatal"}
    /\ Faults \subseteq {"expire", "stall", "crash", "store", "abandon"}
    /\ MaxFaults \in Nat
    /\ MaxConcurrent \in Nat \ {0}
    /\ Nobody \notin Calls

VARIABLES
    up,         \* up[w]: the process of engine w is running
    mounted,    \* mounted[w]: in_flight holds the workflow and its bodies
    lock,       \* lock[w]: the call that holds terminal_write, or Nobody
    job,        \* job[w]: the state map of w's queue, by step and attempt
    pc,         \* where each call is
    at,         \* at[c]: the step it drives
    attempt,    \* attempt[c]: the attempt of that step
    driving,    \* driving[c]: it is inside drive_from
    answer,     \* answer[c]: what the handle it awaits has resolved to
    todo,       \* todo[c]: the executions a recover has still to readmit
    faults      \* the crashes, store errors and abandoned calls so far

engines == <<up, mounted, lock, job>>
calls == <<pc, at, attempt, driving, answer, todo>>
vars == <<store, engines, calls, faults>>

Ended == {"ok", "error", "dead"}

\* The points of a call, named for what it does next.
Points == {"idle", "start", "mount", "drive", "claim", "begin", "push", "send",
           "await", "complete", "wait", "fail", "fatal", "reschedule", "backoff",
           "giveup", "unmount", "remount", "record", "leave", "cancel", "forget",
           "lookup", "resume", "next", "relookup"} \union Ended

JobStates == {"none", "claimed", "pending", "running", "ok", "fail", "wait", "fatal"}

EngineTypeOK ==
    /\ StoreTypeOK
    /\ up \in [Workers -> BOOLEAN]
    /\ mounted \in [Workers -> BOOLEAN]
    /\ lock \in [Workers -> Calls \union {Nobody}]
    /\ job \in [Workers -> [Steps \X Attempts -> JobStates]]
    /\ pc \in [Calls -> Points]
    /\ at \in [Calls -> 0..NumSteps]
    /\ attempt \in [Calls -> Attempts]
    /\ driving \in [Calls -> BOOLEAN]
    /\ answer \in [Calls -> {"none", "ok", "fail", "wait", "fatal", "lost"}]
    /\ todo \in [Calls -> SUBSET [step : Steps, attempt : Attempts]]
    /\ faults \in 0..MaxFaults

NoJobs == [k \in Steps \X Attempts |-> "none"]

Init ==
    /\ StoreInit
    /\ up = [w \in Workers |-> TRUE]
    /\ mounted = [w \in Workers |-> FALSE]
    /\ lock = [w \in Workers |-> Nobody]
    /\ job = [w \in Workers |-> NoJobs]
    /\ pc = [c \in Calls |-> "idle"]
    /\ at = [c \in Calls |-> 0]
    /\ attempt = [c \in Calls |-> 0]
    /\ driving = [c \in Calls |-> FALSE]
    /\ answer = [c \in Calls |-> "none"]
    /\ todo = [c \in Calls |-> {}]
    /\ faults = 0

(***************************************************************************)
(* Helpers                                                                 *)
(***************************************************************************)

InProgress == {c \in Calls : pc[c] \notin Ended \union {"idle"}}

\* Call c of this kind is made now.
Called(c, kind) ==
    /\ pc[c] = "idle" /\ Kind[c] = kind /\ up[Engine[c]]
    /\ Cardinality(InProgress) < MaxConcurrent

Go(c, point) == pc' = [pc EXCEPT ![c] = point]

\* run, resume or readmission is over without an error: a recover goes on with
\* its next execution, any other call returns Ok.
Leave(c) == Go(c, IF Kind[c] = "recover" THEN "next" ELSE "ok")

\* The event of call c's current step.
AppendStep(c, type) == AppendEvent(type, at[c], attempt[c], c)
AppendWorkflow(c, type) == AppendEvent(type, NoStep, 0, c)

JobOf(c) == <<at[c], attempt[c]>>

SetJob(w, k, st) == job' = [job EXCEPT ![w][k] = st]

\* Call c holds a handle of job k that has not resolved.
Awaits(c, w, k) ==
    pc[c] = "await" /\ answer[c] = "none" /\ Engine[c] = w /\ JobOf(c) = k

\* Rest of a step that touches nothing else of a call but its point.
OnlyPoint == UNCHANGED <<at, attempt, driving, answer, todo, faults>>

(***************************************************************************)
(* register_workflow and run                                               *)
(***************************************************************************)

\* register_workflow refuses a list of bodies that does not match the steps, and
\* run with it.
Refuse(c) ==
    /\ Called(c, "register") \/ Called(c, "run")
    /\ Go(c, "error")
    /\ UNCHANGED <<store, engines>> /\ OnlyPoint

Register(c) ==
    /\ Called(c, "register")
    /\ mounted' = [mounted EXCEPT ![Engine[c]] = TRUE]
    /\ Go(c, "ok")
    /\ UNCHANGED <<store, up, lock, job>> /\ OnlyPoint

Run(c) ==
    /\ Called(c, "run")
    /\ mounted' = [mounted EXCEPT ![Engine[c]] = TRUE]
    /\ Go(c, "start")
    /\ UNCHANGED <<store, up, lock, job>> /\ OnlyPoint

\* WorkflowStarted is appended whatever the log already holds.
RecordStarted(c) ==
    /\ pc[c] = "start"
    /\ AppendWorkflow(c, "WorkflowStarted")
    /\ Go(c, "mount")
    /\ UNCHANGED engines /\ OnlyPoint

\* mounted_steps_and_bodies: NotFound when a cancel has removed the workflow.
Mount(c) ==
    /\ pc[c] = "mount"
    /\ IF mounted[Engine[c]]
       THEN Go(c, "drive") /\ driving' = [driving EXCEPT ![c] = TRUE]
       ELSE Go(c, "error") /\ UNCHANGED driving
    /\ UNCHANGED <<store, engines, at, attempt, answer, todo, faults>>

(***************************************************************************)
(* drive_from                                                              *)
(***************************************************************************)

\* Slip: the boundary check is missing.
DriveStep_NoCheck(c) ==
    /\ pc[c] = "drive" /\ at[c] < NumSteps
    /\ Go(c, "claim") /\ attempt' = [attempt EXCEPT ![c] = 0]
    /\ UNCHANGED <<store, engines, at, driving, answer, todo, faults>>

\* The next step, unless the log shows a cancellation.
DriveStep(c) ==
    /\ pc[c] = "drive" /\ at[c] < NumSteps
    /\ IF IsCancelled
       THEN Leave(c) /\ UNCHANGED attempt
       ELSE Go(c, "claim") /\ attempt' = [attempt EXCEPT ![c] = 0]
    /\ UNCHANGED <<store, engines, at, driving, answer, todo, faults>>

\* Slip: the look at the log has the wrong sense.
Finish_Inverted(c) ==
    /\ pc[c] = "drive" /\ at[c] = NumSteps
    /\ lock[Engine[c]] = Nobody
    /\ lock' = [lock EXCEPT ![Engine[c]] = c]
    /\ Go(c, IF HasTerminalEvent THEN "record" ELSE "leave")
    /\ UNCHANGED <<store, up, mounted, job>> /\ OnlyPoint

\* All steps are done: under terminal_write, look for a terminal event ...
Finish(c) ==
    /\ pc[c] = "drive" /\ at[c] = NumSteps
    /\ lock[Engine[c]] = Nobody
    /\ lock' = [lock EXCEPT ![Engine[c]] = c]
    /\ Go(c, IF HasTerminalEvent THEN "leave" ELSE "record")
    /\ UNCHANGED <<store, up, mounted, job>> /\ OnlyPoint

\* ... append WorkflowCompleted when there was none ...
RecordCompleted(c) ==
    /\ pc[c] = "record"
    /\ AppendWorkflow(c, "WorkflowCompleted")
    /\ Go(c, "leave")
    /\ UNCHANGED engines /\ OnlyPoint

\* ... let go of the lock and un-register.
Unregister(c) ==
    /\ pc[c] = "leave"
    /\ lock' = [lock EXCEPT ![Engine[c]] = Nobody]
    /\ mounted' = [mounted EXCEPT ![Engine[c]] = FALSE]
    /\ Leave(c)
    /\ UNCHANGED <<store, up, job>> /\ OnlyPoint

(***************************************************************************)
(* run_step                                                                *)
(***************************************************************************)

\* The step is done: drive_from goes on; resume and readmission look their
\* bodies up again first.
StepDone(c) ==
    IF driving[c] THEN Go(c, "drive") /\ at' = [at EXCEPT ![c] = @ + 1]
                  ELSE Go(c, "remount") /\ UNCHANGED at

\* Slip: a step that another worker holds is passed over.
Claim_PassesHeld(c) ==
    /\ pc[c] = "claim"
    /\ ClaimStep(at[c], Engine[c])
    /\ \/ /\ ClaimResult(rows[at[c]], Engine[c]) = "Claimed"
          /\ Go(c, "begin") /\ UNCHANGED at
       \/ /\ ClaimResult(rows[at[c]], Engine[c]) \in {"AlreadyCompleted", "HeldByOther"}
          /\ StepDone(c)
       \/ /\ ClaimResult(rows[at[c]], Engine[c]) = "AlreadyWaiting"
          /\ Leave(c) /\ UNCHANGED at
    /\ UNCHANGED <<log, engines, attempt, driving, answer, todo, faults>>

\* claim_step, and where each of its answers leads.
Claim(c) ==
    /\ pc[c] = "claim"
    /\ ClaimStep(at[c], Engine[c])
    /\ \/ /\ ClaimResult(rows[at[c]], Engine[c]) = "Claimed"
          /\ Go(c, "begin") /\ UNCHANGED at
       \/ /\ ClaimResult(rows[at[c]], Engine[c]) = "AlreadyCompleted"
          /\ StepDone(c)
       \/ /\ ClaimResult(rows[at[c]], Engine[c]) = "AlreadyWaiting"
          /\ Leave(c) /\ UNCHANGED at
       \/ /\ ClaimResult(rows[at[c]], Engine[c]) = "HeldByOther"
          /\ Go(c, "unmount") /\ UNCHANGED at
    /\ UNCHANGED <<log, engines, attempt, driving, answer, todo, faults>>

RecordStepStarted(c) ==
    /\ pc[c] = "begin"
    /\ AppendStep(c, "StepStarted")
    /\ Go(c, "push")
    /\ UNCHANGED engines /\ OnlyPoint

\* Slip: a result in the state map is not looked at.
Push_ForgetsResult(c) ==
    /\ pc[c] = "push"
    /\ LET st == job[Engine[c]][JobOf(c)] IN
       IF st \in {"claimed", "pending", "running"}
       THEN Go(c, "await") /\ UNCHANGED job
       ELSE Go(c, "send") /\ SetJob(Engine[c], JobOf(c), "claimed")
    /\ UNCHANGED <<store, up, mounted, lock>> /\ OnlyPoint

\* Queue::push under the key workflow:step:attempt.  A key that succeeded before
\* is Cached; one in flight is joined; any other is claimed.
Push(c) ==
    /\ pc[c] = "push"
    /\ LET st == job[Engine[c]][JobOf(c)] IN
       \/ st = "ok" /\ Go(c, "complete") /\ UNCHANGED job
       \/ st \in {"claimed", "pending", "running"} /\ Go(c, "await") /\ UNCHANGED job
       \/ /\ st \notin {"ok", "claimed", "pending", "running"}
          /\ Go(c, "send") /\ SetJob(Engine[c], JobOf(c), "claimed")
    /\ UNCHANGED <<store, up, mounted, lock>> /\ OnlyPoint

\* The lane has room for the job.
Send(c) ==
    /\ pc[c] = "send"
    /\ SetJob(Engine[c], JobOf(c), "pending")
    /\ Go(c, "await")
    /\ UNCHANGED <<store, up, mounted, lock>> /\ OnlyPoint

\* The renewal tick, while the handle is awaited and at no other time.
Renew(c) ==
    /\ pc[c] = "await" /\ answer[c] = "none"
    /\ RenewLease(at[c], Engine[c])
    /\ UNCHANGED <<log, engines, calls, faults>>

\* What the engine does with an outcome; the prefix of the reason tells a request
\* for input and a failure that must not be retried from any other failure.  JobLost
\* ends the call, and neither the log nor the row hears of it.
Verdict(o) ==
    CASE o = "ok" -> "complete" [] o = "wait" -> "wait"
      [] o = "fatal" -> "fatal" [] o = "lost" -> "unmount" [] OTHER -> "fail"

Resolve(c) ==
    /\ pc[c] = "await" /\ answer[c] # "none"
    /\ Go(c, Verdict(answer[c]))
    /\ answer' = [answer EXCEPT ![c] = "none"]
    /\ UNCHANGED <<store, engines, at, attempt, driving, todo, faults>>

\* The deadline wins the select!: a failure, and the job is left to itself.
TimeOut(c) ==
    /\ pc[c] = "await" /\ answer[c] = "none" /\ at[c] \in Timed
    /\ Go(c, "fail")
    /\ UNCHANGED <<store, engines>> /\ OnlyPoint

RecordStepCompleted(c) ==
    /\ pc[c] = "complete"
    /\ AppendStep(c, "StepCompleted")
    /\ StepDone(c)
    /\ UNCHANGED <<engines, attempt, driving, answer, todo, faults>>

\* Slip: a step that waits counts as done.
RecordStepWaiting_GoesOn(c) ==
    /\ pc[c] = "wait"
    /\ AppendStep(c, "StepWaiting")
    /\ StepDone(c)
    /\ UNCHANGED <<engines, attempt, driving, answer, todo, faults>>

RecordStepWaiting(c) ==
    /\ pc[c] = "wait"
    /\ AppendStep(c, "StepWaiting")
    /\ Leave(c)
    /\ UNCHANGED engines /\ OnlyPoint

\* Slip: one attempt too many.
MayRetry_OffByOne(c) == attempt[c] < MaxAttempts

\* Slip: the policy is not looked at.
MayRetry_Always(c) == TRUE

MayRetry(c) == attempt[c] + 1 < MaxAttempts

RecordStepFailed(c) ==
    /\ pc[c] \in {"fail", "fatal"}
    /\ AppendStep(c, "StepFailed")
    /\ Go(c, IF pc[c] = "fail" /\ MayRetry(c) THEN "reschedule" ELSE "giveup")
    /\ UNCHANGED engines /\ OnlyPoint

\* Slip: the failed attempt is scheduled, not the one after it.
RecordRetryScheduled_SameAttempt(c) ==
    /\ pc[c] = "reschedule"
    /\ AppendStep(c, "RetryScheduled")
    /\ Go(c, "backoff")
    /\ UNCHANGED engines /\ OnlyPoint

RecordRetryScheduled(c) ==
    /\ pc[c] = "reschedule"
    /\ AppendEvent("RetryScheduled", at[c], attempt[c] + 1, c)
    /\ Go(c, "backoff")
    /\ UNCHANGED engines /\ OnlyPoint

\* After the backoff, the next attempt, unless the log shows a cancellation.
BackOff(c) ==
    /\ pc[c] = "backoff"
    /\ IF IsCancelled
       THEN Leave(c) /\ UNCHANGED attempt
       ELSE Go(c, "claim") /\ attempt' = [attempt EXCEPT ![c] = @ + 1]
    /\ UNCHANGED <<store, engines, at, driving, answer, todo, faults>>

\* WorkflowFailed is appended without the lock and without a look at the log.
RecordWorkflowFailed(c) ==
    /\ pc[c] = "giveup"
    /\ AppendWorkflow(c, "WorkflowFailed")
    /\ Go(c, "unmount")
    /\ UNCHANGED engines /\ OnlyPoint

\* drop_from_in_flight, and the error is returned.
Unmount(c) ==
    /\ pc[c] = "unmount"
    /\ mounted' = [mounted EXCEPT ![Engine[c]] = FALSE]
    /\ Go(c, "error")
    /\ UNCHANGED <<store, up, lock, job>> /\ OnlyPoint

\* The lookup before resume and readmission hand over to drive_from.
Remount(c) ==
    /\ pc[c] = "remount"
    /\ IF mounted[Engine[c]]
       THEN /\ Go(c, "drive")
            /\ driving' = [driving EXCEPT ![c] = TRUE]
            /\ at' = [at EXCEPT ![c] = @ + 1]
       ELSE Go(c, "error") /\ UNCHANGED <<driving, at>>
    /\ UNCHANGED <<store, engines, attempt, answer, todo, faults>>

(***************************************************************************)
(* cancel                                                                  *)
(***************************************************************************)

\* Slip: cancel does not take terminal_write.
CancelLoad_NoLock(c) ==
    /\ Called(c, "cancel")
    /\ Go(c, IF HasTerminalEvent THEN "ok" ELSE "cancel")
    /\ UNCHANGED <<store, engines>> /\ OnlyPoint

\* Under terminal_write: nothing to do once there is a terminal event.
CancelLoad(c) ==
    /\ Called(c, "cancel")
    /\ lock[Engine[c]] = Nobody
    /\ IF HasTerminalEvent
       THEN Go(c, "ok") /\ UNCHANGED lock
       ELSE Go(c, "cancel") /\ lock' = [lock EXCEPT ![Engine[c]] = c]
    /\ UNCHANGED <<store, up, mounted, job>> /\ OnlyPoint

RecordCancelled(c) ==
    /\ pc[c] = "cancel"
    /\ AppendWorkflow(c, "WorkflowCancelled")
    /\ Go(c, "forget")
    /\ UNCHANGED engines /\ OnlyPoint

Forget(c) ==
    /\ pc[c] = "forget"
    /\ mounted' = [mounted EXCEPT ![Engine[c]] = FALSE]
    /\ lock' = [lock EXCEPT ![Engine[c]] = Nobody]
    /\ Go(c, "ok")
    /\ UNCHANGED <<store, up, job>> /\ OnlyPoint

(***************************************************************************)
(* resume                                                                  *)
(***************************************************************************)

\* The log must show no cancellation and the step waiting.  The attempt is read
\* off these same events.
ResumeLoad(c) ==
    /\ Called(c, "resume")
    /\ IF IsCancelled \/ StatusFromLog(Target[c]) # "waiting"
       THEN Go(c, "error") /\ UNCHANGED <<at, attempt>>
       ELSE /\ Go(c, "lookup")
            /\ at' = [at EXCEPT ![c] = Target[c]]
            /\ attempt' = [attempt EXCEPT ![c] = AttemptFromLog(Target[c])]
    /\ UNCHANGED <<store, engines, driving, answer, todo, faults>>

ResumeLookup(c) ==
    /\ pc[c] = "lookup"
    /\ Go(c, IF mounted[Engine[c]] THEN "resume" ELSE "error")
    /\ UNCHANGED <<store, engines>> /\ OnlyPoint

RecordResumed(c) ==
    /\ pc[c] = "resume"
    /\ AppendStep(c, "StepResumed")
    /\ Go(c, "claim")
    /\ UNCHANGED engines /\ OnlyPoint

(***************************************************************************)
(* recover                                                                 *)
(***************************************************************************)

\* One look at the expired leases; what happens to them later is not seen.
RecoverLoad(c) ==
    /\ Called(c, "recover")
    /\ todo' = [todo EXCEPT ![c] = ExpiredLeases]
    /\ Go(c, "next")
    /\ UNCHANGED <<store, engines, at, attempt, driving, answer, faults>>

RecoverEnds(c) ==
    /\ pc[c] = "next" /\ todo[c] = {}
    /\ Go(c, "ok")
    /\ UNCHANGED <<store, engines>> /\ OnlyPoint

\* Slip: the attempt that the crash interrupted counts as failed.
Readmit_CountsCrash(c, x) ==
    /\ pc[c] = "next"
    /\ AppendEvent("WorkerRecovered", x.step, x.attempt, c)
    /\ todo' = [todo EXCEPT ![c] = @ \ {x}]
    /\ at' = [at EXCEPT ![c] = x.step]
    /\ attempt' = [attempt EXCEPT ![c] = x.attempt + 1]
    /\ driving' = [driving EXCEPT ![c] = FALSE]
    /\ Go(c, "relookup")
    /\ UNCHANGED <<engines, answer, faults>>

\* readmit_after_worker_recovery: WorkerRecovered is appended first, whether or
\* not the workflow is mounted and whoever holds the lease by now.
Readmit(c, x) ==
    /\ pc[c] = "next"
    /\ AppendEvent("WorkerRecovered", x.step, x.attempt, c)
    /\ todo' = [todo EXCEPT ![c] = @ \ {x}]
    /\ at' = [at EXCEPT ![c] = x.step]
    /\ attempt' = [attempt EXCEPT ![c] = x.attempt]
    /\ driving' = [driving EXCEPT ![c] = FALSE]
    /\ Go(c, "relookup")
    /\ UNCHANGED <<engines, answer, faults>>

ReadmitLookup(c) ==
    /\ pc[c] = "relookup"
    /\ IF mounted[Engine[c]] THEN Go(c, "claim") ELSE Leave(c)
    /\ UNCHANGED <<store, engines>> /\ OnlyPoint

(***************************************************************************)
(* The jobs of an engine's queue, as IdempotentKeys has them               *)
(***************************************************************************)

BodyStarts(w, k) ==
    /\ up[w] /\ job[w][k] = "pending"
    /\ SetJob(w, k, "running")
    /\ UNCHANGED <<store, up, mounted, lock, calls, faults>>

\* Slip: only a success is told to the waiters.
BodyEnds_SilentFailure(w, k, o) ==
    /\ up[w] /\ job[w][k] = "running"
    /\ SetJob(w, k, o)
    /\ answer' = [c \in Calls |->
                     IF Awaits(c, w, k) /\ o = "ok" THEN o ELSE answer[c]]
    /\ UNCHANGED <<store, up, mounted, lock, pc, at, attempt, driving, todo, faults>>

\* The body returns, and every call that awaits this key learns its outcome.
BodyEnds(w, k, o) ==
    /\ up[w] /\ job[w][k] = "running"
    /\ SetJob(w, k, o)
    /\ answer' = [c \in Calls |->
                     IF Awaits(c, w, k) THEN o ELSE answer[c]]
    /\ UNCHANGED <<store, up, mounted, lock, pc, at, attempt, driving, todo, faults>>

(***************************************************************************)
(* Time and faults                                                         *)
(***************************************************************************)

\* Some call of the holder renews this lease.
Renewed(s) ==
    \E c \in Calls : /\ Engine[c] = rows[s].holder /\ at[c] = s
                     /\ pc[c] = "await" /\ answer[c] = "none"

\* A lease runs out when nobody renews it, or when the holder stalls.
LeaseExpires(s) ==
    /\ "stall" \in Faults \/ ("expire" \in Faults /\ ~ Renewed(s))
    /\ ExpireLease(s)
    /\ UNCHANGED <<log, engines, calls, faults>>

\* A process dies: its calls, its registrations and its queue are gone.
Crash(w) ==
    /\ "crash" \in Faults /\ faults < MaxFaults /\ up[w]
    /\ faults' = faults + 1
    /\ up' = [up EXCEPT ![w] = FALSE]
    /\ mounted' = [mounted EXCEPT ![w] = FALSE]
    /\ lock' = [lock EXCEPT ![w] = Nobody]
    /\ job' = [job EXCEPT ![w] = NoJobs]
    /\ pc' = [c \in Calls |-> IF Engine[c] = w /\ c \in InProgress
                              THEN "dead" ELSE pc[c]]
    /\ UNCHANGED <<store, at, attempt, driving, answer, todo>>

\* Slip: a claim whose push is dropped is not given up.
Abandon_NoGuard(c) ==
    /\ "abandon" \in Faults /\ faults < MaxFaults
    /\ faults' = faults + 1
    /\ pc[c] \in {"send", "await", "backoff"}
    /\ Go(c, "dead")
    /\ UNCHANGED <<store, engines, at, attempt, driving, answer, todo>>

\* The future of a call is dropped at one of its three awaits: a push that waits for
\* room, whose guard gives the claim up and with it everybody who joined; a handle,
\* whose job goes on without it; the sleep before a retry.
Abandon(c) ==
    /\ "abandon" \in Faults /\ faults < MaxFaults
    /\ faults' = faults + 1
    /\ pc[c] \in {"send", "await", "backoff"}
    /\ Go(c, "dead")
    /\ IF pc[c] = "send"
       THEN /\ SetJob(Engine[c], JobOf(c), "none")
            /\ answer' = [d \in Calls |->
                   IF Awaits(d, Engine[c], JobOf(c)) THEN "lost" ELSE answer[d]]
       ELSE UNCHANGED <<job, answer>>
    /\ UNCHANGED <<store, up, mounted, lock, at, attempt, driving, todo>>

Restart(w) ==
    /\ ~ up[w]
    /\ up' = [up EXCEPT ![w] = TRUE]
    /\ UNCHANGED <<store, mounted, lock, job, calls, faults>>

\* A store operation fails.  Inside run_step the workflow is un-registered with
\* the error; elsewhere the error is just returned, and terminal_write released.
StoreFails(c) ==
    /\ "store" \in Faults /\ faults < MaxFaults
    /\ faults' = faults + 1
    /\ \/ /\ pc[c] \in {"claim", "begin", "complete", "wait", "fail", "fatal",
                        "reschedule", "backoff", "giveup"}
          /\ Go(c, "unmount") /\ UNCHANGED lock
       \/ /\ pc[c] \in {"start", "drive", "resume"} \/ (pc[c] = "next" /\ todo[c] # {})
          /\ Go(c, "error") /\ UNCHANGED lock
       \/ /\ pc[c] \in {"record", "cancel"}
          /\ Go(c, "error") /\ lock' = [lock EXCEPT ![Engine[c]] = Nobody]
    /\ UNCHANGED <<store, up, mounted, job, at, attempt, driving, answer, todo>>

(***************************************************************************)
(* The system                                                              *)
(***************************************************************************)

\* What a call does by itself once it has been made.
Step(c) ==
    \/ RecordStarted(c) \/ Mount(c)
    \/ DriveStep(c) \/ Finish(c) \/ RecordCompleted(c) \/ Unregister(c)
    \/ Claim(c) \/ RecordStepStarted(c) \/ Push(c) \/ Send(c) \/ Resolve(c)
    \/ RecordStepCompleted(c) \/ RecordStepWaiting(c) \/ RecordStepFailed(c)
    \/ RecordRetryScheduled(c) \/ BackOff(c) \/ RecordWorkflowFailed(c)
    \/ Unmount(c) \/ Remount(c)
    \/ RecordCancelled(c) \/ Forget(c)
    \/ ResumeLookup(c) \/ RecordResumed(c)
    \/ RecoverEnds(c) \/ (\E x \in todo[c] : Readmit(c, x)) \/ ReadmitLookup(c)

Begin(c) ==
    \/ Refuse(c) \/ Register(c) \/ Run(c)
    \/ CancelLoad(c) \/ ResumeLoad(c) \/ RecoverLoad(c)

\* No call is in progress and no job is left to run.
Quiet ==
    /\ InProgress = {}
    /\ \A w \in Workers, k \in Steps \X Attempts : job[w][k] \notin {"pending", "running"}
    /\ UNCHANGED vars

Next ==
    \/ \E c \in Calls : Begin(c)
    \/ \E c \in Calls : Step(c)
    \/ \E c \in Calls : Renew(c)
    \/ \E c \in Calls : TimeOut(c)
    \/ \E c \in Calls : StoreFails(c)
    \/ \E c \in Calls : Abandon(c)
    \/ \E w \in Workers, k \in Steps \X Attempts : BodyStarts(w, k)
    \/ \E w \in Workers, k \in Steps \X Attempts, o \in Bodies : BodyEnds(w, k, o)
    \/ \E s \in Steps : LeaseExpires(s)
    \/ \E w \in Workers : Crash(w) \/ Restart(w)
    \/ Quiet

Spec == Init /\ [][Next]_vars

\* A call goes on, a job runs and its body returns.  Nobody has to make a call,
\* and neither a timeout, a renewal, an expiry nor a restart is counted on.
Fairness ==
    /\ \A c \in Calls : WF_vars(Step(c))
    /\ \A w \in Workers, k \in Steps \X Attempts :
          /\ WF_vars(BodyStarts(w, k))
          /\ WF_vars(\E o \in Bodies : BodyEnds(w, k, o))

FairSpec == Spec /\ Fairness

(***************************************************************************)
(* Safety                                                                  *)
(***************************************************************************)

\* A step is only ever started after the step before it has been completed,
\* whether by run, by resume, by recover or by several of them at once
\* (engine.rs:309-339, 268-277, 419-428).
StepsInOrder ==
    \A i \in DOMAIN log :
        (log[i].type = "StepStarted" /\ log[i].step > 0) =>
            \E j \in 1..(i - 1) : /\ log[j].type = "StepCompleted"
                                  /\ log[j].step = log[i].step - 1

\* WorkflowCompleted is on record only when every step is (engine.rs:341-352).
CompletedMeansAllSteps ==
    Logged("WorkflowCompleted") => \A s \in Steps : LoggedFor("StepCompleted", s)

\* No attempt beyond the retry policy is started, counting those that crashes,
\* recoveries and resumes begin with (engine.rs:647-661, 266, recovery.rs:9).
AttemptsBounded ==
    \A i \in DOMAIN log :
        log[i].type = "StepStarted" =>
            log[i].attempt < MaxAttempts \/ log[i].attempt = 0

\* Of completion and cancellation at most one is recorded, and once: what
\* terminal_write is for (engine.rs:204-225, 341-352).  It holds for the calls of
\* one engine.
OneOfCompletedAndCancelled ==
    Cardinality({i \in DOMAIN log : log[i].type \in
                    {"WorkflowCompleted", "WorkflowCancelled"}}) <= 1

\* After a cancellation a call that was under way starts at most the attempt it
\* had decided on before: it looks again at every step and retry boundary
\* (engine.rs:316-320, 656-658).
CancelStopsAtBoundary ==
    \A i, j, k \in DOMAIN log :
        (/\ log[i].type = "WorkflowCancelled" /\ i < j /\ j < k
         /\ log[j].type = "StepStarted" /\ log[k].type = "StepStarted")
            => log[j].by # log[k].by \/ Kind[log[j].by] = "recover"

\* A step that is on record as completed is never handed to a queue again, across
\* crashes, abandoned calls, recoveries and repeated runs of calls that do not
\* overlap, and for resumes that do overlap as long as no attempt fails.  An attempt
\* that was queued before may still start (engine.rs:563-600, sqlite.rs:258-263).
CompletedStepStaysDone ==
    [][\A s \in Steps, a \in Attempts, w \in Workers :
          (LoggedFor("StepCompleted", s) /\ job'[w][<<s, a>>] = "claimed")
              => job[w][<<s, a>>] = "claimed"]_vars

\* For calls that do not overlap, the status a row shows when no lease is on it
\* is the status the engine reads off the log (sqlite.rs:332-448,
\* engine.rs:727-788).
RowsMatchLog ==
    \A s \in Steps :
        rows[s].status \notin {"leased", "absent"} => rows[s].status = StatusFromLog(s)

\* For calls that do not overlap, the step that a call works on is leased to its
\* engine from the claim to the event that ends the attempt, so that a crash in
\* between leaves an expiring lease to recover (sqlite.rs:335-339).
WorkIsLeased ==
    \A c \in Calls :
        pc[c] \in {"begin", "push", "send", "await", "complete", "wait", "fail", "fatal"} =>
            rows[at[c]].status = "leased" /\ rows[at[c]].holder = Engine[c]

\* A run that returns Ok has left the workflow with a terminal event, or at a
\* step that asked for input (engine.rs:303-308).
RunAccountsForItself ==
    \A c \in Calls :
        Kind[c] = "run" /\ pc[c] = "ok" =>
            HasTerminalEvent \/ Logged("StepWaiting")

\* Nobody waits for what cannot come: a call in progress has its process; a job that
\* is claimed, and whoever has joined it, has the one push that waits for room; an
\* awaited handle has a job that will be told or run; and terminal_write is held by a
\* call of its engine that is about to release it (engine.rs:341-356, 466-517, 587-600,
\* state.rs:66-98).
EveryWaitIsBacked ==
    /\ \A c \in InProgress :
          /\ up[Engine[c]]
          /\ pc[c] = "send" => job[Engine[c]][JobOf(c)] = "claimed"
          /\ pc[c] = "await" /\ answer[c] = "none" =>
                job[Engine[c]][JobOf(c)] \in {"claimed", "pending", "running"}
    /\ \A w \in Workers, k \in Steps \X Attempts :
          job[w][k] = "claimed" =>
              \E c \in Calls : pc[c] = "send" /\ Engine[c] = w /\ JobOf(c) = k
    /\ \A w \in Workers :
          lock[w] # Nobody =>
              Engine[lock[w]] = w /\ pc[lock[w]] \in {"record", "leave", "cancel", "forget"}

(***************************************************************************)
(* The inductive invariant behind StepsInOrder, CompletedMeansAllSteps and *)
(* AttemptsBounded                                                         *)
(***************************************************************************)

\* Every step before s is on record as completed.
DoneBefore(s) == \A t \in Steps : t < s => LoggedFor("StepCompleted", t)

\* An attempt that the policy allows; the first one always is.
Allowed(a) == a < MaxAttempts \/ a = 0

\* An event of a step comes after the completion of all steps before it.
EventsInOrder ==
    \A i \in DOMAIN log, t \in Steps :
        t < log[i].step => \E j \in 1..(i - 1) : /\ log[j].type = "StepCompleted"
                                              /\ log[j].step = t

\* A row exists only for a step whose turn has come, and shows a completion only
\* when one is on record.
RowsInOrder ==
    \A s \in Steps :
        /\ rows[s].status # "absent" => DoneBefore(s)
        /\ rows[s].status = "completed" => LoggedFor("StepCompleted", s)

AttemptsAllowed ==
    /\ \A i \in DOMAIN log : Allowed(log[i].attempt)
    /\ \A s \in Steps : Allowed(rows[s].attempt)

\* The points at which a call is in the middle of a step.
InStep == {"claim", "begin", "push", "send", "await", "complete", "wait", "fail", "fatal",
           "reschedule", "backoff", "remount", "lookup", "resume", "relookup"}

\* Where call c is, and what it is about to do, is backed by the log.
CallInOrder(c) ==
    /\ DoneBefore(at[c]) /\ Allowed(attempt[c])
    /\ \A x \in todo[c] : DoneBefore(x.step) /\ Allowed(x.attempt)
    /\ pc[c] \in InStep => at[c] < NumSteps
    /\ pc[c] = "remount" => LoggedFor("StepCompleted", at[c])
    /\ pc[c] = "record" => at[c] = NumSteps
    /\ pc[c] \in {"reschedule", "backoff"} => MayRetry(c)

\* The log, the rows and the calls agree on how far the workflow has come, for
\* any number of engines, with stalls, crashes and store errors
\* (engine.rs:309-352, 562-661, sqlite.rs:332-448).
ProgressInOrder ==
    /\ EventsInOrder
    /\ RowsInOrder
    /\ AttemptsAllowed
    /\ CompletedMeansAllSteps
    /\ \A c \in Calls : CallInOrder(c)

(***************************************************************************)
(* Refinement                                                              *)
(***************************************************************************)

\* The executions that the log holds an event of this type for.
Executions(type) ==
    {<<log[i].step, log[i].attempt>> : i \in {j \in DOMAIN log : log[j].type = type}}

Durable == INSTANCE DurableWorkflow WITH
    started   <- Executions("StepStarted"),
    completed <- Executions("StepCompleted"),
    failed    <- Executions("StepFailed"),
    waiting   <- Executions("StepWaiting"),
    resumed   <- Executions("StepResumed"),
    scheduled <- Executions("RetryScheduled"),
    ended     <- {type \in TerminalEvents : Logged(type)}

\* An attempt starts only when every attempt before it is on record as failed, across
\* crashes, recoveries, resumes and engines: a crash costs no attempt
\* (engine.rs:640-661, 400-424, recovery.rs:9, sqlite.rs:450-481).
RetriesFollowFailures == Durable!RetriesFollowFailures

\* Whatever the calls, engines and faults, the log only ever grows as a durable
\* workflow may: no outcome without a start, no start out of order or beyond the
\* retries on record, no resume of what never waited and no end without its reason
\* (engine.rs:175-428, 553-688).
ImplementsWorkflow == Durable!Spec

(***************************************************************************)
(* Liveness, under FairSpec                                                *)
(***************************************************************************)

\* Every call that is made returns, dies with its process or is dropped by its
\* caller, and takes nobody with it who has joined one of its jobs.
CallsReturn == \A c \in Calls : (c \in InProgress) ~> (pc[c] \in Ended)

(***************************************************************************)
(* What the documents say and the code does not do                         *)
(***************************************************************************)

\* A workflow has at most one terminal event.
AtMostOneTerminalEvent ==
    Cardinality({i \in DOMAIN log : log[i].type \in TerminalEvents}) <= 1

\* No step starts after the cancellation is on record.
NoStepAfterCancel ==
    \A i, j \in DOMAIN log :
        log[i].type = "WorkflowCancelled" /\ i < j => log[j].type # "StepStarted"

\* An unexpired lease is changed by the engine that holds it and by no other.
LeaseIsRespected ==
    [][\A s \in Steps :
          (rows[s].status = "leased" /\ rows[s].fresh /\ rows'[s] # rows[s])
              => \/ rows'[s] = [rows[s] EXCEPT !.fresh = FALSE]
                 \/ \E c \in Calls : Engine[c] = rows[s].holder /\ pc'[c] # pc[c]]_vars

\* A step that a crash interrupted can be found again: when a step was started,
\* its workflow is not over and no call works on it, then its row shows a lease,
\* which expires, a wait or a completion.
InterruptedStepsAreFindable ==
    (InProgress = {} /\ ~ HasTerminalEvent) =>
        \A s \in Steps :
            LoggedFor("StepStarted", s) =>
                rows[s].status \in {"leased", "waiting", "completed"}
=============================================================================
