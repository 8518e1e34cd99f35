------------------------------- MODULE Queue -------------------------------
(***************************************************************************)
(* The in-memory job queue of agentq: src/queue.rs, worker.rs, state.rs    *)
(* and handle.rs.                                                          *)
(*                                                                         *)
(* A call of Queue::push looks its key up in the state map and either      *)
(* returns the cached output, joins the job in flight, or claims the key   *)
(* and sends a job to a bounded lane.  One worker per lane takes a job,    *)
(* waits for a permit and spawns a task that runs the body.  Two drop      *)
(* guards settle a key when something does not run to its end: ClaimGuard  *)
(* for a push abandoned while it waits for room, JobGuard for a body.      *)
(*                                                                         *)
(* A step of the model is a section of the code between two points at      *)
(* which another thread can get in: a locked section, a channel operation, *)
(* or the return of a body.  An element of Pushes is one call of push and, *)
(* when that call claims its key, also the job it sends.                   *)
(*                                                                         *)
(* A definition named after another with a suffix, and marked Slip, is a   *)
(* mistake one could make in that code.  Nothing uses it: PROJECT.json     *)
(* says which property TLC finds violated when it takes the other's place. *)
(***************************************************************************)
EXTENDS Naturals, Sequences, FiniteSets

CONSTANTS
    Keys,       \* idempotency keys
    Lanes,      \* the priorities, each a channel, a worker and a semaphore
    Pushes,     \* the calls of push
    Key,        \* Key[p]: the key that call p pushes
    Lane,       \* Lane[p]: the priority of its job
    Parent,     \* Parent[p]: the job whose body makes call p, or NoJob
    Hanging,    \* the jobs whose body never returns
    Capacity,   \* LaneConfig.capacity
    Permits,    \* Permits[l]: LaneConfig.permits of lane l
    Faults,     \* which of "cancel", "drop" and "shutdown" may happen
    NoJob

\* mpsc::channel panics on a capacity of zero, so a queue that exists has room
\* for one job; a lane with no permits is legal and starts nothing.
ASSUME QueueAssumption ==
    /\ Key \in [Pushes -> Keys]
    /\ Lane \in [Pushes -> Lanes]
    /\ NoJob \notin Pushes
    /\ Parent \in [Pushes -> Pushes \union {NoJob}]
    /\ Hanging \subseteq Pushes
    /\ Capacity \in Nat \ {0}
    /\ Permits \in [Lanes -> Nat]
    /\ Faults \subseteq {"cancel", "drop", "shutdown"}

VARIABLES
    state,      \* the state map: state[k] is "none" when k is absent
    source,     \* the job whose output a completed key holds
    waiters,    \* the waiter map: the calls whose handle is registered
    call,       \* how far each call of push has come
    slot,       \* the oneshot channel behind each call's handle, and its value
    job,        \* how far each job has come
    result,     \* what a job's body returned: JobGuard.outcome
    buffer,     \* each lane's mpsc channel
    worker,     \* each lane's worker task
    queue,      \* "open" while some clone of Queue exists
    runtime     \* "down" once the tokio runtime shuts down

maps == <<state, source, waiters>>
calls == <<call, slot>>
jobs == <<job, result>>
lanes == <<buffer, worker>>
system == <<queue, runtime>>

vars == <<maps, calls, jobs, lanes, system>>

CallPhases == {"new", "sending", "queued", "joined", "cached", "rejected",
               "cancelled"}
JobPhases == {"none", "queued", "held", "spawned", "running", "recorded",
              "notified", "done", "discarded"}
States == {"none", "pending", "processing", "completed", "failed"}
Results == {"ok", "error", "panic"}

NoAnswer == [kind |-> "empty", by |-> NoJob]
JobLost == [kind |-> "lost", by |-> NoJob]

TypeOK ==
    /\ state \in [Keys -> States]
    /\ source \in [Keys -> Pushes \union {NoJob}]
    /\ waiters \in [Keys -> SUBSET Pushes]
    /\ call \in [Pushes -> CallPhases]
    /\ slot \in [Pushes -> [kind : {"empty", "lost", "ok", "failed"},
                            by : Pushes \union {NoJob}]]
    /\ job \in [Pushes -> JobPhases]
    /\ result \in [Pushes -> Results \union {"none"}]
    /\ buffer \in [Lanes -> Seq(Pushes)]
    /\ \A l \in Lanes : Len(buffer[l]) <= Capacity
    /\ worker \in [Lanes -> {"up", "gone"}]
    /\ queue \in {"open", "dropped"}
    /\ runtime \in {"up", "down"}

Init ==
    /\ state = [k \in Keys |-> "none"]
    /\ source = [k \in Keys |-> NoJob]
    /\ waiters = [k \in Keys |-> {}]
    /\ call = [p \in Pushes |-> "new"]
    /\ slot = [p \in Pushes |-> NoAnswer]
    /\ job = [p \in Pushes |-> "none"]
    /\ result = [p \in Pushes |-> "none"]
    /\ buffer = [l \in Lanes |-> <<>>]
    /\ worker = [l \in Lanes |-> "up"]
    /\ queue = "open"
    /\ runtime = "up"

(***************************************************************************)
(* What the code asks of the state                                         *)
(***************************************************************************)

\* Slip: State::Pending falls through to the arm that claims.
InFlight_ProcessingOnly(k) == state[k] = "processing"

\* The match arm State::Pending | State::Processing.
InFlight(k) == state[k] \in {"pending", "processing"}

\* Slip: a completed key is claimed again.
Claimable_Completed(k) == ~ InFlight(k)

\* The match arm State::Failed | None: the rest.
Claimable(k) == state[k] # "completed" /\ ~ InFlight(k)

\* Call p or its job still owes key Key[p] an outcome.
Live(p) ==
    \/ call[p] = "sending"
    \/ job[p] \in {"queued", "held", "spawned", "running"}

Children(p) == {c \in Pushes : Parent[c] = p}

\* The caller has its answer: the value push_and_wait returns is known.
Answered(p) ==
    \/ call[p] \in {"cached", "rejected", "cancelled"}
    \/ call[p] \in {"queued", "joined"} /\ slot[p].kind # "empty"

\* Slip: the permit is dropped when the body starts.
PermitsInUse_ReleasedEarly(l) ==
    {p \in Pushes : Lane[p] = l /\ job[p] = "spawned"}

\* The tasks that own a permit: from the spawn until the task ends, which is
\* after the guard of the body has been dropped.
PermitsInUse(l) ==
    {p \in Pushes : /\ Lane[p] = l
                    /\ job[p] \in {"spawned", "running", "recorded", "notified"}}

\* Slip: the channel takes one job too many.
HasRoom_OffByOne(l) == Len(buffer[l]) <= Capacity

HasRoom(l) == Len(buffer[l]) < Capacity

\* The job the worker of lane l took out of the channel and still holds.
Held(l) == {p \in Pushes : Lane[p] = l /\ job[p] = "held"}

\* The code that makes call p can run: a user's, or a body that is running.
CallerReady(p) ==
    /\ call[p] = "new"
    /\ queue = "open"
    /\ Parent[p] # NoJob => job[Parent[p]] = "running"

\* The slots once value a has gone to every call in W.  A channel that was
\* dropped by its sender or has been used takes nothing more.
Deliver(W, a) ==
    [p \in Pushes |-> IF p \in W /\ slot[p].kind = "empty" THEN a ELSE slot[p]]

(***************************************************************************)
(* Queue::push                                                             *)
(***************************************************************************)

\* A completed key: the stored output is returned and nothing changes.
PushCached(p) ==
    /\ CallerReady(p)
    /\ state[Key[p]] = "completed"
    /\ call' = [call EXCEPT ![p] = "cached"]
    /\ slot' = [slot EXCEPT ![p] = [kind |-> "ok", by |-> source[Key[p]]]]
    /\ UNCHANGED <<maps, jobs, lanes, system>>

\* A key in flight: the call's sender joins the waiters of the job.
PushJoin(p) ==
    /\ CallerReady(p)
    /\ InFlight(Key[p])
    /\ waiters' = [waiters EXCEPT ![Key[p]] = @ \union {p}]
    /\ call' = [call EXCEPT ![p] = "joined"]
    /\ UNCHANGED <<state, source, slot, jobs, lanes, system>>

\* A key never pushed, or failed: it becomes Pending, the call's own sender is
\* registered, and the claim guard is armed, all under both locks.
PushClaim(p) ==
    /\ CallerReady(p)
    /\ Claimable(Key[p])
    /\ state' = [state EXCEPT ![Key[p]] = "pending"]
    /\ waiters' = [waiters EXCEPT ![Key[p]] = @ \union {p}]
    /\ call' = [call EXCEPT ![p] = "sending"]
    /\ UNCHANGED <<source, slot, jobs, lanes, system>>

\* sender.send(job) finds room in the channel; the guard is disarmed.
Enqueue(p) ==
    /\ call[p] = "sending"
    /\ worker[Lane[p]] = "up"
    /\ HasRoom(Lane[p])
    /\ buffer' = [buffer EXCEPT ![Lane[p]] = Append(@, p)]
    /\ call' = [call EXCEPT ![p] = "queued"]
    /\ job' = [job EXCEPT ![p] = "queued"]
    /\ UNCHANGED <<maps, slot, result, worker, system>>

\* Slip: the claim is not undone.
GiveUp_NoGuard(p, s, c) ==
    call' = [call EXCEPT ![p] = c] /\ UNCHANGED <<state, waiters, slot>>

\* Slip: the waiters are forgotten.
GiveUp_KeepsWaiters(p, s, c) ==
    /\ state' = [state EXCEPT ![Key[p]] = s]
    /\ call' = [call EXCEPT ![p] = c]
    /\ UNCHANGED <<waiters, slot>>

\* The claim of call p is undone under both locks: the key is set to s and the
\* senders of all its waiters are dropped.
GiveUp(p, s, c) ==
    /\ state' = [state EXCEPT ![Key[p]] = s]
    /\ waiters' = [waiters EXCEPT ![Key[p]] = {}]
    /\ slot' = Deliver(waiters[Key[p]], JobLost)
    /\ call' = [call EXCEPT ![p] = c]

\* The worker, and with it the receiver, is gone: push returns LaneClosed.
EnqueueFails(p) ==
    /\ call[p] = "sending"
    /\ worker[Lane[p]] = "gone"
    /\ GiveUp(p, "failed", "rejected")
    /\ UNCHANGED <<source, jobs, lanes, system>>

\* The push future is dropped while it waits for room: ClaimGuard::drop.
Cancel(p) ==
    /\ "cancel" \in Faults \/ runtime = "down"
    /\ call[p] = "sending"
    /\ GiveUp(p, "none", "cancelled")
    /\ UNCHANGED <<source, jobs, lanes, system>>

(***************************************************************************)
(* The worker of a lane and the task of a job                              *)
(***************************************************************************)

\* receiver.recv(): the worker holds one job at a time.
Receive(l) ==
    /\ runtime = "up" /\ worker[l] = "up"
    /\ Held(l) = {}
    /\ buffer[l] # <<>>
    /\ job' = [job EXCEPT ![Head(buffer[l])] = "held"]
    /\ buffer' = [buffer EXCEPT ![l] = Tail(@)]
    /\ UNCHANGED <<maps, calls, result, worker, system>>

\* A permit is acquired and the task spawned.
Spawn(p) ==
    /\ runtime = "up"
    /\ job[p] = "held"
    /\ Cardinality(PermitsInUse(Lane[p])) < Permits[Lane[p]]
    /\ job' = [job EXCEPT ![p] = "spawned"]
    /\ UNCHANGED <<maps, calls, result, lanes, system>>

\* The task marks its key Processing, builds the job guard and calls the body.
Start(p) ==
    /\ runtime = "up"
    /\ job[p] = "spawned"
    /\ state' = [state EXCEPT ![Key[p]] = "processing"]
    /\ job' = [job EXCEPT ![p] = "running"]
    /\ UNCHANGED <<source, waiters, calls, result, lanes, system>>

\* Slip: an error is converted to State::Completed.
Record_ErrorCompletes(p, r) ==
    /\ state' = [state EXCEPT ![Key[p]] = IF r = "panic" THEN "failed" ELSE "completed"]
    /\ source' = [source EXCEPT ![Key[p]] = IF r = "ok" THEN p ELSE NoJob]
    /\ result' = [result EXCEPT ![p] = r]
    /\ job' = [job EXCEPT ![p] = "recorded"]
    /\ UNCHANGED <<waiters, calls, lanes, system>>

\* The first half of JobGuard::drop: the outcome enters the state map, whose
\* lock is then released.  A body that did not return counts as failed.
Record(p, r) ==
    /\ state' = [state EXCEPT ![Key[p]] = IF r = "ok" THEN "completed" ELSE "failed"]
    /\ source' = [source EXCEPT ![Key[p]] = IF r = "ok" THEN p ELSE NoJob]
    /\ result' = [result EXCEPT ![p] = r]
    /\ job' = [job EXCEPT ![p] = "recorded"]
    /\ UNCHANGED <<waiters, calls, lanes, system>>

\* The body returns or panics, once the pushes it made itself are answered.
Finish(p, r) ==
    /\ job[p] = "running" /\ p \notin Hanging
    /\ \A c \in Children(p) : Answered(c)
    /\ Record(p, r)

\* Slip: the waiters of a body that returned an error are told Ok.
Told_AlwaysOk(p) == [kind |-> "ok", by |-> p]

\* Slip: after a panic the senders are dropped unused.
Told_PanicIsLost(p) ==
    IF result[p] = "panic" THEN JobLost
    ELSE [kind |-> IF result[p] = "ok" THEN "ok" ELSE "failed", by |-> p]

\* The Outcome of job p that its guard sends.
Told(p) == [kind |-> IF result[p] = "ok" THEN "ok" ELSE "failed", by |-> p]

\* The second half of JobGuard::drop: the waiters registered by now are taken
\* out under the waiter lock alone, and each is sent this job's outcome.
Notify(p) ==
    /\ job[p] = "recorded"
    /\ waiters' = [waiters EXCEPT ![Key[p]] = {}]
    /\ slot' = Deliver(waiters[Key[p]], Told(p))
    /\ job' = [job EXCEPT ![p] = "notified"]
    /\ UNCHANGED <<state, source, call, result, lanes, system>>

\* The task ends and its permit returns to the lane.
Release(p) ==
    /\ job[p] = "notified"
    /\ job' = [job EXCEPT ![p] = "done"]
    /\ UNCHANGED <<maps, calls, result, lanes, system>>

(***************************************************************************)
(* The end of the queue and of the runtime                                 *)
(***************************************************************************)

\* The last clone of Queue is dropped, so the senders of all lanes are.  A push
\* in progress borrows the queue; a body that pushes owns a clone.
DropQueue ==
    /\ "drop" \in Faults /\ queue = "open"
    /\ \A p \in Pushes : /\ call[p] # "sending"
                         /\ Live(p) => Children(p) = {}
    /\ queue' = "dropped"
    /\ UNCHANGED <<maps, calls, jobs, lanes, runtime>>

\* recv() yields the jobs still buffered, and None only after the last of them.
WorkerExits(l) ==
    /\ queue = "dropped" /\ worker[l] = "up"
    /\ buffer[l] = <<>> /\ Held(l) = {}
    /\ worker' = [worker EXCEPT ![l] = "gone"]
    /\ UNCHANGED <<maps, calls, jobs, buffer, system>>

Shutdown ==
    /\ "shutdown" \in Faults /\ runtime = "up"
    /\ runtime' = "down"
    /\ UNCHANGED <<maps, calls, jobs, lanes, queue>>

\* The runtime drops a worker: the job it holds and its channel go with it,
\* and no guard exists yet that would settle their keys.
DropWorker(l) ==
    /\ runtime = "down" /\ worker[l] = "up"
    /\ worker' = [worker EXCEPT ![l] = "gone"]
    /\ buffer' = [buffer EXCEPT ![l] = <<>>]
    /\ job' = [p \in Pushes |-> IF Lane[p] = l /\ job[p] \in {"queued", "held"}
                                THEN "discarded" ELSE job[p]]
    /\ UNCHANGED <<maps, calls, result, system>>

\* The runtime drops a task that has not been polled: it has no guard either.
DropTask(p) ==
    /\ runtime = "down" /\ job[p] = "spawned"
    /\ job' = [job EXCEPT ![p] = "discarded"]
    /\ UNCHANGED <<maps, calls, result, lanes, system>>

\* The runtime drops a task whose body runs: the guard records a panic.  The
\* pushes the body is in the middle of are dropped before the guard is.
AbortBody(p) ==
    /\ runtime = "down" /\ job[p] = "running"
    /\ \A c \in Children(p) : call[c] # "sending"
    /\ Record(p, "panic")

\* Slip: the maps outlive the queue, its workers and its tasks.
FreeMaps_Leaked == FALSE /\ UNCHANGED vars

\* The queue, the workers and the tasks each hold the waiter map.  When the last
\* of them is gone, what is still registered in it is dropped.
FreeMaps ==
    /\ queue = "dropped"
    /\ \A l \in Lanes : worker[l] = "gone"
    /\ \A p \in Pushes : job[p] \in {"none", "done", "discarded"}
    /\ \E k \in Keys : waiters[k] # {}
    /\ waiters' = [k \in Keys |-> {}]
    /\ slot' = Deliver(UNION {waiters[k] : k \in Keys}, JobLost)
    /\ UNCHANGED <<state, source, call, jobs, lanes, system>>

\* Nothing is on its way.  A call that was not made need never be.
Idle ==
    /\ \A p \in Pushes : /\ call[p] # "sending"
                         /\ job[p] \in {"none", "done", "discarded"}
    /\ UNCHANGED vars

Next ==
    \/ \E p \in Pushes : PushCached(p)
    \/ \E p \in Pushes : PushJoin(p)
    \/ \E p \in Pushes : PushClaim(p)
    \/ \E p \in Pushes : Enqueue(p)
    \/ \E p \in Pushes : EnqueueFails(p)
    \/ \E p \in Pushes : Cancel(p)
    \/ \E l \in Lanes : Receive(l)
    \/ \E p \in Pushes : Spawn(p)
    \/ \E p \in Pushes : Start(p)
    \/ \E p \in Pushes, r \in Results : Finish(p, r)
    \/ \E p \in Pushes : Notify(p)
    \/ \E p \in Pushes : Release(p)
    \/ DropQueue
    \/ \E l \in Lanes : WorkerExits(l)
    \/ Shutdown
    \/ \E l \in Lanes : DropWorker(l)
    \/ \E p \in Pushes : DropTask(p)
    \/ \E p \in Pushes : AbortBody(p)
    \/ FreeMaps
    \/ Idle

Spec == Init /\ [][Next]_vars

(***************************************************************************)
(* Fairness.  tokio polls every task that is ready, a body that is not in  *)
(* Hanging returns, and a runtime that shuts down drops all its tasks.     *)
(* Nothing obliges a user to push, to cancel, or to drop the queue, but a  *)
(* body that pushes does push.                                             *)
(***************************************************************************)
Fairness ==
    /\ \A p \in Pushes :
          /\ WF_vars(Parent[p] # NoJob
                     /\ (PushCached(p) \/ PushJoin(p) \/ PushClaim(p)))
          /\ WF_vars(Enqueue(p) \/ EnqueueFails(p))
          /\ WF_vars(runtime = "down" /\ Cancel(p))
          /\ WF_vars(Spawn(p))
          /\ WF_vars(Start(p))
          /\ WF_vars(\E r \in Results : Finish(p, r))
          /\ WF_vars(Notify(p))
          /\ WF_vars(Release(p))
          /\ WF_vars(DropTask(p) \/ AbortBody(p))
    /\ \A l \in Lanes :
          /\ WF_vars(Receive(l))
          /\ WF_vars(WorkerExits(l) \/ DropWorker(l))
    /\ WF_vars(FreeMaps)

FairSpec == Spec /\ Fairness

(***************************************************************************)
(* Safety                                                                  *)
(***************************************************************************)

\* At most one job per key is on its way, counting a push that still waits for
\* room in its lane: what the two locks held together in push are for
\* (queue.rs:33-68).  Two callers racing, a claim abandoned under a joiner and a
\* key pushed again right after its failure must all keep to it.
SingleFlight ==
    \A p, q \in Pushes : Key[p] = Key[q] /\ Live(p) /\ Live(q) => p = q

\* A key that push would answer with InFlight has a job that will settle it.
\* Were there none, every later push of the key would join and wait for ever
\* (state.rs:70-81 and worker.rs:31-36 exist to prevent that).  Jobs dropped by
\* a runtime that shuts down have no guard and do leave such keys.
ClaimsAreOwned ==
    \A k \in Keys :
        InFlight(k) => \/ \E p \in Pushes : Key[p] = k /\ Live(p)
                       \/ runtime = "down"

\* Once a body has succeeded, no job of its key is queued or run again, whoever
\* was racing with it (queue.rs:43-47, state.rs:47-50).
NoRunAfterSuccess ==
    \A p \in Pushes : Live(p) => source[Key[p]] = NoJob

\* Whoever is registered under a key has somebody left to answer: the key is in
\* flight, or a guard has recorded an outcome and not yet taken the waiters.
\* Recording first and taking them afterwards is what makes this hold
\* (state.rs:47-55): a joiner that comes before the record is still taken.
NoWaiterLeftBehind ==
    \A k \in Keys :
        waiters[k] # {} => \/ InFlight(k)
                           \/ \E p \in Pushes : Key[p] = k /\ job[p] = "recorded"

\* Every caller that is told Ok, from the cache or through a handle, is given
\* the one output the state map holds for its key, and finds it there when it
\* looks (state.rs:47-59, queue.rs:43-47).
AnswersAgree ==
    \A p \in Pushes :
        slot[p].kind = "ok" => /\ state[Key[p]] = "completed"
                               /\ slot[p].by = source[Key[p]]

\* JobLost reaches a handle only when a push of its key was abandoned or refused,
\* or when the runtime is gone; a body that fails or panics never causes it
\* (state.rs:43-45).
JobLostHasCause ==
    \A p \in Pushes :
        slot[p].kind = "lost" =>
            \/ \E q \in Pushes : Key[q] = Key[p] /\ call[q] \in {"cancelled", "rejected"}
            \/ runtime = "down"

\* No more bodies of a lane run together than the lane has permits
\* (worker.rs:18-25), whatever path its earlier tasks took to their end.
PermitsRespected ==
    \A l \in Lanes :
        Cardinality({p \in Pushes : Lane[p] = l /\ job[p] = "running"}) <= Permits[l]

\* A completed key keeps its output for good.
CompletedIsFinal ==
    [][\A k \in Keys : state[k] = "completed" =>
            state'[k] = "completed" /\ source'[k] = source[k]]_vars

(***************************************************************************)
(* The inductive invariant behind the safety properties                    *)
(***************************************************************************)

\* A job exists only for a call that claimed its key and got it into the lane.
JobsWereQueued == \A p \in Pushes : job[p] # "none" => call[p] = "queued"

\* A lane's channel holds exactly the queued jobs of the lane, each once.
BuffersHoldQueuedJobs ==
    \A l \in Lanes :
        /\ \A i \in 1..Len(buffer[l]) : /\ job[buffer[l][i]] = "queued"
                                        /\ Lane[buffer[l][i]] = l
        /\ \A i, j \in 1..Len(buffer[l]) : buffer[l][i] = buffer[l][j] => i = j

LiveIsInFlight == \A p \in Pushes : Live(p) => InFlight(Key[p])

SourceMatchesState ==
    \A k \in Keys : /\ source[k] # NoJob <=> state[k] = "completed"
                    /\ source[k] # NoJob => Key[source[k]] = k

\* Between the halves of the job guard nobody takes a success back.
RecordedSuccessStands ==
    \A p \in Pushes :
        job[p] = "recorded" /\ result[p] = "ok" =>
            state[Key[p]] = "completed" /\ source[Key[p]] = p

WaitersShareKey == \A k \in Keys : \A p \in waiters[k] : Key[p] = k

NewCallsAreSilent ==
    \A p \in Pushes :
        call[p] = "new" => slot[p] = NoAnswer /\ \A k \in Keys : p \notin waiters[k]

\* Who is on its way, where, and what the state map says of it: queue.rs:33-98,
\* worker.rs:17-26 and state.rs:41-82 keep these in step.
Consistent ==
    /\ JobsWereQueued
    /\ BuffersHoldQueuedJobs
    /\ LiveIsInFlight
    /\ SingleFlight
    /\ SourceMatchesState
    /\ RecordedSuccessStands
    /\ WaitersShareKey
    /\ NewCallsAreSilent

(***************************************************************************)
(* The abstract view                                                       *)
(***************************************************************************)

LivePush(k) == {p \in Pushes : Key[p] = k /\ Live(p)}

KeyPhase(k) ==
    IF state[k] = "completed" THEN "done"
    ELSE IF ~ InFlight(k) THEN "free"
    ELSE IF LivePush(k) # {} THEN "busy" ELSE "stranded"

KeyOwner(k) ==
    IF KeyPhase(k) = "busy" THEN CHOOSE p \in LivePush(k) : TRUE ELSE NoJob

Abstract == INSTANCE IdempotentKeys WITH
    phase <- [k \in Keys |-> KeyPhase(k)],
    owner <- [k \in Keys |-> KeyOwner(k)],
    winner <- source,
    answer <- slot

\* The queue with its lanes, workers, guards and waiter lists does for each key
\* only what IdempotentKeys allows: one owner at a time, the owner alone makes
\* the key done, and no Ok but the winner's (queue.rs:33-98, state.rs:41-82).
ImplementsIdempotentKeys == Abstract!Spec

(***************************************************************************)
(* Liveness, under FairSpec                                                *)
(***************************************************************************)

\* The bodies of lane l that push to their own lane and wait.
SelfNested(l) == {p \in Pushes : Lane[p] = l /\ \E c \in Children(p) : Lane[c] = l}

\* A runtime that is gone has dropped jobs that had no guard yet, while the queue
\* still holds the map in which their waiters are registered.
Stranded == runtime = "down" /\ queue = "open"

\* Every push comes to an end and every handle resolves, through failures, panics,
\* abandoned claims, a dropped queue, bodies that push and wait, and the end of the
\* runtime, once the queue is dropped too.  A body that never returns takes this from
\* those who share its lane or its key and from no others; bodies that wait in their
\* own lane take it from that lane unless it has more permits than there are such
\* bodies (worker.rs:10-28, state.rs:41-82, queue.rs:73).
EveryHandleResolves ==
    \A p \in Pushes :
        (/\ \A h \in Hanging : Lane[h] # Lane[p] /\ Key[h] # Key[p]
         /\ Cardinality(SelfNested(Lane[p])) < Permits[Lane[p]]) =>
            (call[p] \in {"sending", "queued", "joined"} /\ ~ Stranded
                ~> Answered(p) \/ Stranded)

(***************************************************************************)
(* What the documents say and the code does not do                         *)
(***************************************************************************)

\* A push that is told Queued runs a job of its own, and its handle gets the
\* outcome of that job and of no other.
QueuedGetsOwnOutcome ==
    \A p \in Pushes :
        call[p] = "queued" /\ slot[p].kind \in {"ok", "failed"} => slot[p].by = p
=============================================================================
