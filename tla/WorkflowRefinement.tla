------------------------- MODULE WorkflowRefinement -------------------------
(***************************************************************************)
(* The proof that WorkflowEngine implements DurableWorkflow, for any       *)
(* number of steps, attempts, engines and calls, and with every fault.     *)
(*                                                                         *)
(* InOrder gives the order of the steps.  That no outcome comes without    *)
(* its start, and no attempt without its predecessor's failure, is known   *)
(* to the calls, the rows and the snapshots of a recover: Backed says that *)
(* the log bears out all they know.                                        *)
(***************************************************************************)
EXTENDS WorkflowEngineProofs, SequenceTheorems

\* The types of event that tell of an execution.
Told == {"StepStarted", "StepCompleted", "StepFailed", "StepWaiting", "StepResumed",
         "RetryScheduled"}

\* An attempt may be started: it is the first, or it has been scheduled.
Due(s, a) == a = 0 \/ <<s, a>> \in Executions("RetryScheduled")

StoreBacked ==
    /\ \A s \in Steps : Due(s, rows[s].attempt)
    /\ \A i \in DOMAIN log :
          log[i].type \in {"StepStarted", "RetryScheduled"} => Due(log[i].step, log[i].attempt)

\* The points at which a call has started the attempt it works on, ...
AtWork == {"push", "send", "await", "complete", "wait", "fail", "fatal"}

\* ... at which it is about to, ...
BeforeWork == {"claim", "begin", "lookup", "resume", "relookup"}

\* ... and all those at which it relies on the log.
Reliant == AtWork \union BeforeWork \union {"reschedule", "backoff", "giveup"}

CallBacked(c) ==
    /\ pc[c] \in AtWork => JobOf(c) \in Executions("StepStarted")
    /\ pc[c] \in BeforeWork => Due(at[c], attempt[c])
    /\ pc[c] = "reschedule" => JobOf(c) \in Executions("StepFailed")
    /\ pc[c] = "backoff" => <<at[c], attempt[c] + 1>> \in Executions("RetryScheduled")
    /\ pc[c] = "giveup" => Executions("StepFailed") # {}
    /\ pc[c] \in {"lookup", "resume"} => Durable!Waited(at[c])
    /\ \A x \in todo[c] : Due(x.step, x.attempt)

CallsBacked == \A c \in Calls : CallBacked(c)

KeepsExecutions == \A type \in Told : Executions(type) \subseteq Executions(type)'

\* What a step of the system is to the abstract specification.
AbstractStep == [Durable!Next]_(Durable!record)

(***************************************************************************)
(* The log as a record of executions                                       *)
(***************************************************************************)

\* An event adds its execution to those of its type and leaves the others alone.
LEMMA AppendAdds ==
    ASSUME StoreTypeOK, NEW type, NEW s, NEW a, NEW c, AppendEvent(type, s, a, c)
    PROVE  /\ Executions(type)' = Executions(type) \union {<<s, a>>}
           /\ \A t \in Told : t # type => Executions(t)' = Executions(t)
           /\ \A t \in TerminalEvents : Logged(t)' <=> Logged(t) \/ t = type
<1> DEFINE e == [type |-> type, step |-> s, attempt |-> a, by |-> c]
<1>1. log \in Seq(Events) /\ log' = Append(log, e)
  BY DEF StoreTypeOK, AppendEvent
<1>2. /\ Len(log) \in Nat /\ DOMAIN log = 1..Len(log)
      /\ DOMAIN log' = 1..(Len(log) + 1)
      /\ \A i \in DOMAIN log : log'[i] = log[i]
      /\ log'[Len(log) + 1] = e
  <2>1. /\ Len(log) \in Nat /\ DOMAIN log = 1..Len(log)
    BY <1>1
  <2>2. /\ Len(Append(log, e)) = Len(log) + 1 /\ DOMAIN Append(log, e) = 1..(Len(log) + 1)
        /\ \A i \in 1..Len(log) : Append(log, e)[i] = log[i]
        /\ Append(log, e)[Len(log) + 1] = e
    <3> HIDE DEF e
    <3> QED BY <1>1, AppendProperties
  <2> QED BY <1>1, <2>1, <2>2
<1>3. e.type = type /\ e.step = s /\ e.attempt = a
  OBVIOUS
<1> HIDE DEF e
<1>4. \A i \in DOMAIN log' : i \in DOMAIN log \/ i = Len(log) + 1
  BY <1>2
<1>5. \A i \in DOMAIN log : i \in DOMAIN log'
  BY <1>2
<1>6. Len(log) + 1 \in DOMAIN log'
  BY <1>2
<1>7. \A t : Executions(t)' = {<<log'[i].step, log'[i].attempt>> :
                                 i \in {j \in DOMAIN log' : log'[j].type = t}}
  BY DEF Executions
<1>8. ASSUME NEW t
      PROVE  Executions(t)' = IF t = type THEN Executions(t) \union {<<s, a>>}
                                          ELSE Executions(t)
  <2>1. \A x : x \in Executions(t)' <=>
          \E i \in DOMAIN log' : log'[i].type = t /\ x = <<log'[i].step, log'[i].attempt>>
    BY <1>7
  <2>2. \A x : x \in Executions(t) <=>
          \E i \in DOMAIN log : log[i].type = t /\ x = <<log[i].step, log[i].attempt>>
    BY DEF Executions
  <2>3. \A x : x \in Executions(t)' <=> x \in Executions(t) \/ (t = type /\ x = <<s, a>>)
    BY <2>1, <2>2, <1>2, <1>3, <1>4, <1>5, <1>6
  <2> QED BY <2>3
<1>9. \A t \in TerminalEvents : Logged(t)' <=> Logged(t) \/ t = type
  BY <1>2, <1>3, <1>4, <1>5, <1>6 DEF Logged
<1> QED BY <1>8, <1>9

\* A step that leaves the log alone is none of the abstract specification.
LEMMA LogUntouched ==
    ASSUME log' = log
    PROVE  /\ \A t \in Told : Executions(t)' = Executions(t)
           /\ KeepsExecutions /\ UNCHANGED Durable!record
<1>1. \A t : Executions(t)' = Executions(t) /\ (Logged(t)' <=> Logged(t))
  BY DEF Executions, Logged
<1> QED BY <1>1 DEF KeepsExecutions, Durable!record, Durable!executions

LEMMA DueStays ==
    ASSUME KeepsExecutions, NEW s, NEW a, Due(s, a)
    PROVE  Due(s, a)'
BY DEF KeepsExecutions, Due, Told

\* append_event leaves the store backed, when a start is due (sqlite.rs:104-122).
LEMMA AppendBacked ==
    ASSUME StoreTypeOK, StoreBacked,
           NEW type, NEW s, NEW a, NEW c, AppendEvent(type, s, a, c),
           type = "StepStarted" => Due(s, a)
    PROVE  StoreBacked' /\ KeepsExecutions
<1>1. KeepsExecutions
  BY AppendAdds DEF KeepsExecutions
<1>2. type = "RetryScheduled" => Due(s, a)'
  BY AppendAdds DEF Due
<1>3. type = "StepStarted" => Due(s, a)'
  BY <1>1, DueStays
<1> DEFINE e == [type |-> type, step |-> s, attempt |-> a, by |-> c]
<1>4. /\ log \in Seq(Events) /\ log' = Append(log, e)
      /\ rows' = [t \in Steps |-> IF t = s THEN Projected(rows[t], e) ELSE rows[t]]
  BY DEF StoreTypeOK, AppendEvent
<1>5. e.type = type /\ e.step = s /\ e.attempt = a
  OBVIOUS
<1> HIDE DEF e
<1>6. ASSUME NEW t \in Steps PROVE Due(t, rows[t].attempt)'
  <2>1. \/ rows'[t].attempt = rows[t].attempt
        \/ t = s /\ type = "RetryScheduled" /\ rows'[t].attempt = a
    BY <1>4, <1>5 DEF Projected, AttemptAfter, NoRow
  <2>2. PICK b : b = rows[t].attempt /\ Due(t, b)
    BY DEF StoreBacked
  <2>3. Due(t, b)'
    BY <1>1, <2>2, DueStays
  <2> QED BY <2>1, <2>2, <2>3, <1>2 DEF Due
<1>7. ASSUME NEW i \in DOMAIN log', log'[i].type \in {"StepStarted", "RetryScheduled"}
      PROVE  Due(log[i].step, log[i].attempt)'
  <2>1. CASE i \in DOMAIN log
    <3>1. log'[i] = log[i]
      BY <2>1, <1>4
    <3>2. PICK t, b : t = log[i].step /\ b = log[i].attempt /\ Due(t, b)
      BY <3>1, <2>1, <1>7 DEF StoreBacked
    <3>3. Due(t, b)'
      BY <3>2, <1>1, DueStays
    <3> QED BY <3>1, <3>2, <3>3 DEF Due
  <2>2. CASE i \notin DOMAIN log
    <3>1. log'[i] = e
      BY <2>2, <1>4
    <3> QED BY <3>1, <1>2, <1>3, <1>5, <1>7 DEF Due
  <2> QED BY <2>1, <2>2
<1>8. StoreBacked'
  BY <1>6, <1>7 DEF StoreBacked
<1> QED BY <1>1, <1>8

\* The operations on leases change no attempt (sqlite.rs:140-193).
LEMMA LeaseBacked ==
    ASSUME StoreTypeOK, StoreBacked, log' = log, NEW s \in Steps,
           \/ \E w \in Workers : ClaimStep(s, w) \/ RenewLease(s, w)
           \/ ExpireLease(s)
    PROVE  StoreBacked' /\ KeepsExecutions
<1>1. \A t \in Steps : rows'[t].attempt = rows[t].attempt
  BY DEF StoreTypeOK, Rows, ClaimStep, RenewLease, ExpireLease
<1>2. KeepsExecutions
  BY LogUntouched
<1>3. \A t, b : Due(t, b) => Due(t, b)'
  BY <1>2, DueStays
<1>4. StoreBacked'
  BY <1>1, <1>3 DEF StoreBacked, Due
<1> QED BY <1>2, <1>4

LEMMA StoreStaysBacked ==
    ASSUME StoreBacked, UNCHANGED store
    PROVE  StoreBacked' /\ KeepsExecutions
<1>1. KeepsExecutions
  BY LogUntouched DEF store
<1>2. \A t, b : Due(t, b) => Due(t, b)'
  BY <1>1, DueStays
<1>3. StoreBacked'
  BY <1>2 DEF StoreBacked, Due, store
<1> QED BY <1>1, <1>3

(***************************************************************************)
(* Moving a call                                                           *)
(***************************************************************************)

LEMMA CallStaysBacked ==
    ASSUME KeepsExecutions, NEW c \in Calls, CallBacked(c), pc'[c] = pc[c],
           at'[c] = at[c], attempt'[c] = attempt[c], todo'[c] = todo[c]
    PROVE  CallBacked(c)'
<1>1. JobOf(c)' = JobOf(c)
  BY DEF JobOf
<1>2. Executions("StepStarted") \subseteq Executions("StepStarted")'
  BY DEF KeepsExecutions, Told
<1>3. Executions("StepFailed") \subseteq Executions("StepFailed")'
  BY DEF KeepsExecutions, Told
<1>4. Executions("RetryScheduled") \subseteq Executions("RetryScheduled")'
  BY DEF KeepsExecutions, Told
<1>5. Durable!Waited(at[c]) => Durable!Waited(at[c])'
  BY DEF KeepsExecutions, Told, Durable!Waited
<1>6. \A x \in todo[c] : Due(x.step, x.attempt)'
  BY DueStays DEF CallBacked
<1>7. pc[c] \in BeforeWork => Due(at[c], attempt[c])'
  BY DueStays DEF CallBacked
<1> QED BY <1>1, <1>2, <1>3, <1>4, <1>5, <1>6, <1>7 DEF CallBacked, Due

LEMMA OthersStayBacked ==
    ASSUME CallsBacked, KeepsExecutions, NEW c \in Calls, CallBacked(c)',
           \A d \in Calls \ {c} : /\ pc'[d] = pc[d] /\ at'[d] = at[d]
                                  /\ attempt'[d] = attempt[d] /\ todo'[d] = todo[d]
    PROVE  CallsBacked'
<1>1. \A d \in Calls \ {c} : CallBacked(d)'
  BY CallStaysBacked DEF CallsBacked
<1> QED BY <1>1 DEF CallsBacked

\* A call that only goes on to another point needs what that point relies on.
LEMMA GoesBacked ==
    ASSUME CallsInOrder, CallsBacked, KeepsExecutions, NEW c \in Calls, NEW p, Go(c, p),
           UNCHANGED <<at, attempt, todo>>,
           p \in AtWork => JobOf(c) \in Executions("StepStarted")',
           p \in BeforeWork => Due(at[c], attempt[c])',
           p = "reschedule" => JobOf(c) \in Executions("StepFailed")',
           p = "backoff" => <<at[c], attempt[c] + 1>> \in Executions("RetryScheduled")',
           p = "giveup" => Executions("StepFailed")' # {},
           p \in {"lookup", "resume"} => Durable!Waited(at[c])'
    PROVE  CallsBacked'
<1>1. pc'[c] = p /\ JobOf(c)' = JobOf(c)
  BY DEF CallsInOrder, Go, JobOf
<1>2. \A x \in todo[c] : Due(x.step, x.attempt)'
  BY DueStays DEF CallsBacked, CallBacked
<1>3. CallBacked(c)'
  BY <1>1, <1>2 DEF CallBacked, Due
<1>4. \A d \in Calls \ {c} : /\ pc'[d] = pc[d] /\ at'[d] = at[d]
                             /\ attempt'[d] = attempt[d] /\ todo'[d] = todo[d]
  BY DEF CallsInOrder, Go
<1> QED BY <1>3, <1>4, OthersStayBacked

\* A call that ends, or goes on between steps, relies on nothing.
LEMMA GoesFree ==
    ASSUME CallsInOrder, CallsBacked, KeepsExecutions, NEW c \in Calls,
           NEW p, p \notin Reliant, Go(c, p),
           UNCHANGED at \/ \E s : at' = [at EXCEPT ![c] = s],
           UNCHANGED attempt \/ \E a : attempt' = [attempt EXCEPT ![c] = a],
           UNCHANGED todo
    PROVE  CallsBacked'
<1>1. pc'[c] = p
  BY DEF CallsInOrder, Go
<1>2. \A x \in todo[c] : Due(x.step, x.attempt)'
  BY DueStays DEF CallsBacked, CallBacked
<1>3. CallBacked(c)'
  BY <1>1, <1>2 DEF CallBacked, Due, Reliant, BeforeWork
<1>4. \A d \in Calls \ {c} : /\ pc'[d] = pc[d] /\ at'[d] = at[d]
                             /\ attempt'[d] = attempt[d] /\ todo'[d] = todo[d]
  BY DEF CallsInOrder, Go
<1> QED BY <1>3, <1>4, OthersStayBacked

\* Going to the claim of a step, at a place and attempt of one's own.
LEMMA GoesToDue ==
    ASSUME CallsInOrder, CallsBacked, KeepsExecutions, NEW c \in Calls,
           NEW p, p \in BeforeWork, Go(c, p), NEW s, NEW a,
           at' = [at EXCEPT ![c] = s], attempt' = [attempt EXCEPT ![c] = a],
           NEW T, T \subseteq todo[c], todo' = [todo EXCEPT ![c] = T],
           Due(s, a)', p \in {"lookup", "resume"} => Durable!Waited(s)'
    PROVE  CallsBacked'
<1>1. pc'[c] = p /\ at'[c] = s /\ attempt'[c] = a /\ todo'[c] = T
  BY DEF CallsInOrder, Go
<1>2. \A x \in T : Due(x.step, x.attempt)'
  BY DueStays DEF CallsBacked, CallBacked
<1>3. CallBacked(c)'
  BY <1>1, <1>2 DEF CallBacked, Due, BeforeWork, AtWork, Durable!Waited
<1>4. \A d \in Calls \ {c} : /\ pc'[d] = pc[d] /\ at'[d] = at[d]
                             /\ attempt'[d] = attempt[d] /\ todo'[d] = todo[d]
  BY DEF CallsInOrder, Go
<1> QED BY <1>3, <1>4, OthersStayBacked

LEMMA LeavesFree ==
    ASSUME CallsInOrder, CallsBacked, KeepsExecutions, NEW c \in Calls,
           (Leave(c) /\ UNCHANGED at) \/ StepDone(c), UNCHANGED <<attempt, todo>>
    PROVE  CallsBacked'
<1>1. \E p \in {"next", "ok", "drive", "remount"} : Go(c, p)
  BY DEF Leave, StepDone
<1>2. UNCHANGED at \/ \E s : at' = [at EXCEPT ![c] = s]
  BY DEF StepDone
<1> QED BY <1>1, <1>2, GoesFree DEF Reliant, AtWork, BeforeWork

(***************************************************************************)
(* Appending as a step of the abstract specification                       *)
(***************************************************************************)

\* A step on record as completed is done.
LEMMA CompletedIsDone ==
    ASSUME StoreTypeOK, NEW t, LoggedFor("StepCompleted", t)
    PROVE  Durable!Done(t)
<1>1. PICK i \in DOMAIN log : log[i].type = "StepCompleted" /\ log[i].step = t
  BY DEF LoggedFor
<1>2. log[i].attempt \in Attempts
  <2>1. log[i] \in Events
    BY DEF StoreTypeOK
  <2> QED BY <2>1, Zenon DEF Events
<1>3. <<t, log[i].attempt>> \in Executions("StepCompleted")
  BY <1>1 DEF Executions
<1> QED BY <1>2, <1>3 DEF Durable!Done, Durable!Attempts, Attempts

\* append_event does to the record what the action named for the event does.
LEMMA AppendIsAbstract ==
    ASSUME StoreTypeOK,
           NEW type \in StepEvents \union TerminalEvents \union {"WorkflowStarted"},
           NEW s, NEW a \in Attempts, NEW c, AppendEvent(type, s, a, c),
           type \in Told => s \in Steps,
           type = "StepStarted" => DoneBefore(s) /\ Due(s, a),
           type \in {"StepCompleted", "StepFailed", "StepWaiting"} =>
               <<s, a>> \in Executions("StepStarted"),
           type = "StepResumed" => Durable!Waited(s),
           type = "RetryScheduled" =>
               a < MaxAttempts /\ <<s, a - 1>> \in Executions("StepFailed"),
           type = "WorkflowCompleted" => \A t \in Steps : LoggedFor("StepCompleted", t),
           type = "WorkflowFailed" => Executions("StepFailed") # {}
    PROVE  AbstractStep
<1> DEFINE ends == {t \in TerminalEvents : Logged(t)}
<1>1. /\ Executions(type)' = Executions(type) \union {<<s, a>>}
      /\ \A t \in Told : t # type => Executions(t)' = Executions(t)
      /\ \A t \in TerminalEvents : Logged(t)' <=> Logged(t) \/ t = type
  BY AppendAdds
<1>2. type \notin TerminalEvents => ends' = ends
  BY <1>1
<1>3. type \in TerminalEvents => ends' = ends \union {type}
  BY <1>1
<1> HIDE DEF ends
<1>4. Durable!Steps = Steps /\ Durable!Attempts = Attempts
  BY DEF Durable!Steps, Durable!Attempts, Steps, Attempts
<1>5. CASE type = "StepStarted"
  <2>1. \A t \in Steps : t < s => Durable!Done(t)
    BY <1>5, CompletedIsDone DEF DoneBefore
  <2>2. Durable!Start(s, a)
    BY <1>1, <1>2, <1>4, <1>5, <2>1 DEF Durable!Start, Due, Told, TerminalEvents, ends
  <2> QED BY <1>4, <1>5, <2>2 DEF AbstractStep, Durable!Next, Told
<1>6. CASE type = "StepCompleted"
  <2>1. Durable!Complete(s, a)
    BY <1>1, <1>2, <1>6 DEF Durable!Complete, Told, TerminalEvents, ends
  <2> QED BY <1>4, <1>6, <2>1 DEF AbstractStep, Durable!Next, Told
<1>7. CASE type = "StepFailed"
  <2>1. Durable!Fail(s, a)
    BY <1>1, <1>2, <1>7 DEF Durable!Fail, Told, TerminalEvents, ends
  <2> QED BY <1>4, <1>7, <2>1 DEF AbstractStep, Durable!Next, Told
<1>8. CASE type = "StepWaiting"
  <2>1. Durable!AskForInput(s, a)
    BY <1>1, <1>2, <1>8 DEF Durable!AskForInput, Told, TerminalEvents, ends
  <2> QED BY <1>4, <1>8, <2>1 DEF AbstractStep, Durable!Next, Told
<1>9. CASE type = "StepResumed"
  <2>1. Durable!Resume(s, a)
    BY <1>1, <1>2, <1>9 DEF Durable!Resume, Told, TerminalEvents, ends
  <2> QED BY <1>4, <1>9, <2>1 DEF AbstractStep, Durable!Next, Told
<1>10. CASE type = "RetryScheduled"
  <2>1. Durable!Schedule(s, a)
    BY <1>1, <1>2, <1>10 DEF Durable!Schedule, Told, TerminalEvents, ends
  <2> QED BY <1>4, <1>10, <2>1 DEF AbstractStep, Durable!Next, Told
<1>11. CASE type \in TerminalEvents
  <2>1. \A t \in Told : Executions(t)' = Executions(t)
    BY <1>1, <1>11 DEF Told, TerminalEvents
  <2>2. type = "WorkflowCompleted" => \A t \in Durable!Steps : Durable!Done(t)
    BY <1>4, CompletedIsDone
  <2>3. Durable!End(type)
    BY <1>3, <1>11, <2>1, <2>2 DEF Durable!End, Durable!executions, Told, ends
  <2> QED BY <1>11, <2>3 DEF AbstractStep, Durable!Next, TerminalEvents
<1>12. CASE type \in {"WorkflowStarted", "WorkerRecovered"}
  <2>1. \A t \in Told : Executions(t)' = Executions(t)
    BY <1>1, <1>12 DEF Told
  <2>2. UNCHANGED Durable!record
    BY <1>2, <1>12, <2>1 DEF Durable!record, Durable!executions, Told, TerminalEvents, ends
  <2> QED BY <2>2 DEF AbstractStep
<1> QED BY <1>5, <1>6, <1>7, <1>8, <1>9, <1>10, <1>11, <1>12 DEF StepEvents

(***************************************************************************)
(* The actions                                                             *)
(***************************************************************************)

Backed == StoreBacked /\ CallsBacked

LEMMA Silent ==
    ASSUME StoreBacked, UNCHANGED store
    PROVE  StoreBacked' /\ KeepsExecutions /\ AbstractStep
BY StoreStaysBacked, LogUntouched DEF AbstractStep, store

\* The actions that append an event of the workflow, and Readmit, which appends
\* WorkerRecovered (engine.rs:179-181, 215-218, 348-352, 394-403, 632-667).
LEMMA WorkflowEvents ==
    ASSUME StoreAssumption, StoreInOrder, CallsInOrder, Backed, NEW c \in Calls,
           \/ RecordStarted(c) \/ RecordCompleted(c) \/ RecordWorkflowFailed(c)
           \/ RecordCancelled(c) \/ \E x \in todo[c] : Readmit(c, x)
    PROVE  Backed' /\ AbstractStep
<1>0. StoreTypeOK /\ 0 \in Attempts
  BY DEF StoreInOrder, Attempts, StoreAssumption
<1>1. CASE \/ RecordStarted(c) \/ RecordCompleted(c) \/ RecordWorkflowFailed(c)
           \/ RecordCancelled(c)
  <2>1. PICK type \in TerminalEvents \union {"WorkflowStarted"} :
          /\ AppendEvent(type, NoStep, 0, c)
          /\ type = "WorkflowCompleted" => pc[c] = "record"
          /\ type = "WorkflowFailed" => pc[c] = "giveup"
    BY <1>1 DEF RecordStarted, RecordCompleted, RecordWorkflowFailed, RecordCancelled,
                AppendWorkflow, TerminalEvents
  <2>2. pc[c] = "record" => \A t \in Steps : LoggedFor("StepCompleted", t)
    BY DEF CallsInOrder, CallInOrder, DoneBefore, Steps, StoreAssumption
  <2>3. pc[c] = "giveup" => Executions("StepFailed") # {}
    BY DEF Backed, CallsBacked, CallBacked
  <2>4. type \notin Told
    BY DEF Told, TerminalEvents
  <2>5. AbstractStep
    BY <1>0, <2>1, <2>2, <2>3, <2>4, AppendIsAbstract DEF Told
  <2>6. StoreBacked' /\ KeepsExecutions
    BY <1>0, <2>1, <2>4, AppendBacked DEF Backed, Told
  <2>7. \E p \in {"mount", "leave", "unmount", "forget"} : Go(c, p)
    BY <1>1 DEF RecordStarted, RecordCompleted, RecordWorkflowFailed, RecordCancelled
  <2>8. UNCHANGED <<at, attempt, todo>>
    BY <1>1 DEF RecordStarted, RecordCompleted, RecordWorkflowFailed, RecordCancelled,
                OnlyPoint
  <2>9. CallsBacked'
    BY <2>6, <2>7, <2>8, GoesFree DEF Backed, Reliant, AtWork, BeforeWork
  <2> QED BY <2>5, <2>6, <2>9 DEF Backed
<1>2. ASSUME NEW x \in todo[c], Readmit(c, x) PROVE Backed' /\ AbstractStep
  <2>1. PICK s \in Steps, a \in Attempts : s = x.step /\ a = x.attempt /\ Due(s, a)
    <3>1. x.step \in Steps /\ x.attempt \in Attempts
      BY DEF CallsInOrder
    <3>2. Due(x.step, x.attempt)
      BY DEF Backed, CallsBacked, CallBacked
    <3> QED BY <3>1, <3>2
  <2>2. AppendEvent("WorkerRecovered", s, a, c)
    BY <1>2, <2>1 DEF Readmit
  <2>3. AbstractStep
    BY <1>0, <2>2, AppendIsAbstract DEF StepEvents, Told
  <2>4. StoreBacked' /\ KeepsExecutions
    BY <1>0, <2>2, AppendBacked DEF Backed
  <2>5. Due(s, a)'
    BY <2>1, <2>4, DueStays
  <2>6. /\ Go(c, "relookup") /\ at' = [at EXCEPT ![c] = s]
        /\ attempt' = [attempt EXCEPT ![c] = a]
        /\ todo' = [todo EXCEPT ![c] = todo[c] \ {x}]
    BY <1>2, <2>1 DEF Readmit, CallsInOrder
  <2>7. CallsBacked'
    BY <2>4, <2>5, <2>6, GoesToDue DEF Backed, BeforeWork
  <2> QED BY <2>3, <2>4, <2>7 DEF Backed
<1> QED BY <1>1, <1>2

\* The actions that append an event of a step (engine.rs:261-271, 577-654).
LEMMA StepEventsBacked ==
    ASSUME StoreAssumption, StoreInOrder, CallsInOrder, Backed, NEW c \in Calls,
           \/ RecordStepStarted(c) \/ RecordStepCompleted(c) \/ RecordStepWaiting(c)
           \/ RecordStepFailed(c) \/ RecordRetryScheduled(c) \/ RecordResumed(c)
    PROVE  Backed' /\ AbstractStep
<1>0. StoreTypeOK
  BY DEF StoreInOrder
<1>a. PICK s \in Steps, a \in Attempts : s = at[c] /\ a = attempt[c] /\ DoneBefore(s)
  BY InStepFacts DEF RecordStepStarted, RecordStepCompleted, RecordStepWaiting,
                     RecordStepFailed, RecordRetryScheduled, RecordResumed, InStep
<1>b. pc[c] \in AtWork => <<s, a>> \in Executions("StepStarted")
  BY <1>a DEF Backed, CallsBacked, CallBacked, JobOf
<1>c. pc[c] \in BeforeWork => Due(s, a)
  BY <1>a DEF Backed, CallsBacked, CallBacked
<1>1. CASE RecordStepStarted(c)
  <2>1. pc[c] = "begin" /\ AppendEvent("StepStarted", s, a, c)
    BY <1>1, <1>a DEF RecordStepStarted, AppendStep
  <2>2. Due(s, a)
    BY <2>1, <1>c DEF BeforeWork
  <2>3. AbstractStep
    BY <1>0, <1>a, <2>1, <2>2, AppendIsAbstract DEF StepEvents
  <2>4. StoreBacked' /\ KeepsExecutions
    BY <1>0, <2>1, <2>2, AppendBacked DEF Backed
  <2>5. JobOf(c) \in Executions("StepStarted")'
    BY <1>0, <1>a, <2>1, AppendAdds DEF JobOf
  <2>6. CallsBacked'
    BY <1>1, <2>4, <2>5, GoesBacked DEF RecordStepStarted, OnlyPoint, Backed, BeforeWork
  <2> QED BY <2>3, <2>4, <2>6 DEF Backed
<1>2. CASE RecordStepCompleted(c) \/ RecordStepWaiting(c)
  <2>1. PICK type \in {"StepCompleted", "StepWaiting"} : AppendEvent(type, s, a, c)
    BY <1>2, <1>a DEF RecordStepCompleted, RecordStepWaiting, AppendStep
  <2>2. <<s, a>> \in Executions("StepStarted")
    BY <1>2, <1>b DEF RecordStepCompleted, RecordStepWaiting, AtWork
  <2>3. AbstractStep
    BY <1>0, <2>1, <2>2, AppendIsAbstract DEF StepEvents
  <2>4. StoreBacked' /\ KeepsExecutions
    BY <1>0, <2>1, AppendBacked DEF Backed
  <2>5. /\ (Leave(c) /\ UNCHANGED at) \/ StepDone(c)
        /\ UNCHANGED <<attempt, todo>>
    BY <1>2 DEF RecordStepCompleted, RecordStepWaiting, OnlyPoint
  <2>6. CallsBacked'
    BY <2>4, <2>5, LeavesFree DEF Backed
  <2> QED BY <2>3, <2>4, <2>6 DEF Backed
<1>3. CASE RecordStepFailed(c)
  <2>1. AppendEvent("StepFailed", s, a, c)
    BY <1>3, <1>a DEF RecordStepFailed, AppendStep
  <2>2. <<s, a>> \in Executions("StepStarted")
    BY <1>3, <1>b DEF RecordStepFailed, AtWork
  <2>3. AbstractStep
    BY <1>0, <2>1, <2>2, AppendIsAbstract DEF StepEvents
  <2>4. StoreBacked' /\ KeepsExecutions
    BY <1>0, <2>1, AppendBacked DEF Backed
  <2>5. JobOf(c) \in Executions("StepFailed")'
    BY <1>0, <1>a, <2>1, AppendAdds DEF JobOf
  <2>6. PICK p \in {"reschedule", "giveup"} : Go(c, p)
    BY <1>3 DEF RecordStepFailed
  <2>7. CallsBacked'
    BY <1>3, <2>4, <2>5, <2>6, GoesBacked
       DEF RecordStepFailed, OnlyPoint, Backed, AtWork, BeforeWork
  <2> QED BY <2>3, <2>4, <2>7 DEF Backed
<1>4. CASE RecordRetryScheduled(c)
  <2>0. pc[c] = "reschedule"
    BY <1>4 DEF RecordRetryScheduled
  <2>1. a + 1 < MaxAttempts /\ <<s, a>> \in Executions("StepFailed")
    <3>1. a + 1 < MaxAttempts
      BY <2>0, <1>a DEF CallsInOrder, CallInOrder, MayRetry
    <3>2. <<s, a>> \in Executions("StepFailed")
      BY <2>0, <1>a DEF Backed, CallsBacked, CallBacked, JobOf
    <3> QED BY <3>1, <3>2
  <2>2. a + 1 \in Attempts /\ (a + 1) - 1 = a
    BY <2>1 DEF Attempts, StoreAssumption
  <2>3. AppendEvent("RetryScheduled", s, a + 1, c)
    BY <1>4, <1>a DEF RecordRetryScheduled
  <2>4. AbstractStep
    BY <1>0, <2>1, <2>2, <2>3, AppendIsAbstract DEF StepEvents
  <2>5. StoreBacked' /\ KeepsExecutions
    BY <1>0, <2>3, AppendBacked DEF Backed
  <2>6. <<at[c], attempt[c] + 1>> \in Executions("RetryScheduled")'
    BY <1>0, <1>a, <2>3, AppendAdds
  <2>7. CallsBacked'
    BY <1>4, <2>5, <2>6, GoesBacked
       DEF RecordRetryScheduled, OnlyPoint, Backed, AtWork, BeforeWork
  <2> QED BY <2>4, <2>5, <2>7 DEF Backed
<1>5. CASE RecordResumed(c)
  <2>1. pc[c] = "resume" /\ AppendEvent("StepResumed", s, a, c)
    BY <1>5, <1>a DEF RecordResumed, AppendStep
  <2>2. Due(s, a) /\ Durable!Waited(s)
    BY <2>1, <1>a, <1>c DEF BeforeWork, Backed, CallsBacked, CallBacked
  <2>3. AbstractStep
    BY <1>0, <2>1, <2>2, AppendIsAbstract DEF StepEvents
  <2>4. StoreBacked' /\ KeepsExecutions
    BY <1>0, <2>1, AppendBacked DEF Backed
  <2>5. Due(s, a)'
    BY <2>2, <2>4, DueStays
  <2>6. /\ Go(c, "claim") /\ at' = [at EXCEPT ![c] = s]
        /\ attempt' = [attempt EXCEPT ![c] = a] /\ todo' = [todo EXCEPT ![c] = todo[c]]
    BY <1>5, <1>a DEF RecordResumed, OnlyPoint, CallsInOrder
  <2>7. CallsBacked'
    BY <2>4, <2>5, <2>6, GoesToDue DEF Backed, BeforeWork
  <2> QED BY <2>3, <2>4, <2>7 DEF Backed
<1> QED BY <1>1, <1>2, <1>3, <1>4, <1>5

\* A step that waits, by the log, has asked for input, and the attempt that a resume
\* reads off the log is one that may be started (engine.rs:227-247, 707-788).
LEMMA ResumeIsBacked ==
    ASSUME StoreInOrder, StoreBacked, NEW s \in Steps, StatusFromLog(s) = "waiting"
    PROVE  Durable!Waited(s) /\ Due(s, AttemptFromLog(s))
<1>0. StoreTypeOK /\ \A i \in DOMAIN log : log[i] \in Events
  BY DEF StoreInOrder, StoreTypeOK
<1>1. Durable!Waited(s)
  <2>1. Positions(StepEvents, s) # {}
    BY DEF StatusFromLog
  <2>2. PICK i \in DOMAIN log : /\ LastEvent(StepEvents, s) = log[i] /\ log[i].step = s
                               /\ log[i].type \in StepEvents
    BY <1>0, <2>1, LastEventIsLogged DEF Positions
  <2>3. log[i].type = "StepWaiting"
    BY <2>1, <2>2 DEF StatusFromLog, StepEvents
  <2>4. <<s, log[i].attempt>> \in Executions("StepWaiting")
    BY <2>2, <2>3 DEF Executions
  <2>5. log[i].attempt \in Attempts
    BY <1>0, Zenon DEF Events
  <2> QED BY <2>4, <2>5 DEF Durable!Waited, Durable!Attempts, Attempts
<1>2. Due(s, AttemptFromLog(s))
  <2> DEFINE T == {"StepStarted", "RetryScheduled"}
  <2>1. CASE Positions(T, s) = {}
    BY <2>1 DEF AttemptFromLog, Due
  <2>2. CASE Positions(T, s) # {}
    <3>1. PICK i \in DOMAIN log : /\ LastEvent(T, s) = log[i] /\ log[i].step = s
                                 /\ log[i].type \in T
      BY <1>0, <2>2, LastEventIsLogged DEF Positions
    <3>2. AttemptFromLog(s) = log[i].attempt
      BY <2>2, <3>1 DEF AttemptFromLog
    <3> QED BY <3>1, <3>2 DEF StoreBacked
  <2> QED BY <2>1, <2>2
<1> QED BY <1>1, <1>2

\* The actions that go to the claim of a step or to a lookup before it
\* (engine.rs:227-259, 309-332, 405-421, 654-661, recovery.rs:4-7).
LEMMA BeforeWorkBacked ==
    ASSUME StoreAssumption, EngineAssumption, StoreInOrder, CallsInOrder, Backed,
           NEW c \in Calls,
           \/ DriveStep(c) \/ BackOff(c) \/ ResumeLoad(c) \/ ResumeLookup(c)
           \/ RecoverLoad(c) \/ ReadmitLookup(c)
    PROVE  Backed' /\ AbstractStep
<1>0. UNCHANGED store
  BY DEF DriveStep, BackOff, ResumeLoad, ResumeLookup, RecoverLoad, ReadmitLookup
<1>1. StoreBacked' /\ KeepsExecutions /\ AbstractStep
  BY <1>0, Silent DEF Backed
<1>a. /\ \A s, a : Due(s, a) => Due(s, a)'
      /\ \A s : Durable!Waited(s) => Durable!Waited(s)'
  BY <1>1, DueStays DEF KeepsExecutions, Durable!Waited, Told
<1>2. ASSUME \/ DriveStep(c) /\ IsCancelled
             \/ BackOff(c) /\ IsCancelled
      PROVE  CallsBacked'
  <2>1. Leave(c) /\ UNCHANGED <<at, attempt, todo>>
    BY <1>2 DEF DriveStep, BackOff
  <2> QED BY <1>1, <2>1, LeavesFree DEF Backed
<1>3. ASSUME DriveStep(c), ~ IsCancelled PROVE CallsBacked'
  <2>1. /\ Go(c, "claim") /\ attempt' = [attempt EXCEPT ![c] = 0]
        /\ at' = [at EXCEPT ![c] = at[c]] /\ todo' = [todo EXCEPT ![c] = todo[c]]
    BY <1>3 DEF DriveStep, CallsInOrder
  <2>2. PICK s : s = at[c]
    OBVIOUS
  <2>3. Due(s, 0)'
    BY DEF Due
  <2> QED BY <1>1, <2>1, <2>2, <2>3, GoesToDue DEF Backed, BeforeWork
<1>4. ASSUME BackOff(c), ~ IsCancelled PROVE CallsBacked'
  <2>1. PICK s, a : s = at[c] /\ a = attempt[c] + 1 /\ Due(s, a)
    BY <1>4 DEF BackOff, Backed, CallsBacked, CallBacked, Due
  <2>2. /\ Go(c, "claim") /\ attempt' = [attempt EXCEPT ![c] = a]
        /\ at' = [at EXCEPT ![c] = s] /\ todo' = [todo EXCEPT ![c] = todo[c]]
    BY <1>4, <2>1 DEF BackOff, CallsInOrder
  <2> QED BY <1>1, <1>a, <2>1, <2>2, GoesToDue DEF Backed, BeforeWork
<1>5. ASSUME ResumeLoad(c) PROVE CallsBacked'
  <2>1. CASE Go(c, "error") /\ UNCHANGED <<at, attempt, todo>>
    BY <1>1, <2>1, GoesFree DEF Backed, Reliant, AtWork, BeforeWork
  <2>2. CASE ~ (Go(c, "error") /\ UNCHANGED <<at, attempt, todo>>)
    <3>1. PICK s, a : /\ s = Target[c] /\ a = AttemptFromLog(s)
                      /\ s \in Steps /\ StatusFromLog(s) = "waiting"
      BY <1>5, <2>2, EngineAssumption DEF ResumeLoad, EngineAssumption
    <3>2. /\ Go(c, "lookup") /\ attempt' = [attempt EXCEPT ![c] = a]
          /\ at' = [at EXCEPT ![c] = s] /\ todo' = [todo EXCEPT ![c] = todo[c]]
      BY <1>5, <2>2, <3>1 DEF ResumeLoad, CallsInOrder
    <3>3. Due(s, a) /\ Durable!Waited(s)
      BY <3>1, ResumeIsBacked DEF Backed
    <3> QED BY <1>1, <1>a, <3>2, <3>3, GoesToDue DEF Backed, BeforeWork
  <2> QED BY <2>1, <2>2
<1>6. ASSUME ResumeLookup(c) PROVE CallsBacked'
  <2>1. Due(at[c], attempt[c]) /\ Durable!Waited(at[c])
    BY <1>6 DEF ResumeLookup, Backed, CallsBacked, CallBacked, BeforeWork
  <2>2. PICK s, a : s = at[c] /\ a = attempt[c] /\ Due(s, a) /\ Durable!Waited(s)
    BY <2>1
  <2>3. UNCHANGED <<at, attempt, todo>> /\ \E p \in {"resume", "error"} : Go(c, p)
    BY <1>6 DEF ResumeLookup, OnlyPoint
  <2>4. /\ attempt' = [attempt EXCEPT ![c] = a]
        /\ at' = [at EXCEPT ![c] = s] /\ todo' = [todo EXCEPT ![c] = todo[c]]
    BY <2>2, <2>3 DEF CallsInOrder
  <2>5. CASE Go(c, "resume")
    BY <1>1, <1>a, <2>2, <2>4, <2>5, GoesToDue DEF Backed, BeforeWork
  <2>6. CASE Go(c, "error")
    BY <1>1, <2>3, <2>6, GoesFree DEF Backed, Reliant, AtWork, BeforeWork
  <2> QED BY <2>3, <2>5, <2>6
<1>7. ASSUME RecoverLoad(c) PROVE CallsBacked'
  <2>1. \A x \in ExpiredLeases : Due(x.step, x.attempt)
    BY DEF ExpiredLeases, Backed, StoreBacked
  <2>2. \A x \in ExpiredLeases : Due(x.step, x.attempt)'
    BY <1>a, <2>1
  <2>3. /\ pc'[c] = "next" /\ at'[c] = at[c] /\ attempt'[c] = attempt[c]
        /\ todo'[c] = ExpiredLeases
    BY <1>7 DEF RecoverLoad, Go, CallsInOrder
  <2>4. CallBacked(c)'
    BY <2>2, <2>3 DEF CallBacked, Due, AtWork, BeforeWork
  <2>5. \A d \in Calls \ {c} : /\ pc'[d] = pc[d] /\ at'[d] = at[d]
                               /\ attempt'[d] = attempt[d] /\ todo'[d] = todo[d]
    BY <1>7 DEF RecoverLoad, Go, CallsInOrder
  <2> QED BY <1>1, <2>4, <2>5, OthersStayBacked DEF Backed
<1>8. ASSUME ReadmitLookup(c) PROVE CallsBacked'
  <2>1. PICK s, a : s = at[c] /\ a = attempt[c] /\ Due(s, a)
    BY <1>8 DEF ReadmitLookup, Backed, CallsBacked, CallBacked, BeforeWork
  <2>2. UNCHANGED <<at, attempt, todo>> /\ (Go(c, "claim") \/ Leave(c))
    BY <1>8 DEF ReadmitLookup, OnlyPoint
  <2>3. /\ attempt' = [attempt EXCEPT ![c] = a]
        /\ at' = [at EXCEPT ![c] = s] /\ todo' = [todo EXCEPT ![c] = todo[c]]
    BY <2>1, <2>2 DEF CallsInOrder
  <2>4. CASE Go(c, "claim")
    BY <1>1, <1>a, <2>1, <2>3, <2>4, GoesToDue DEF Backed, BeforeWork
  <2>5. CASE Leave(c)
    BY <1>1, <2>2, <2>5, LeavesFree DEF Backed
  <2> QED BY <2>2, <2>4, <2>5
<1> QED BY <1>1, <1>2, <1>3, <1>4, <1>5, <1>6, <1>7, <1>8 DEF Backed

\* The actions that change a lease (engine.rs:562-575, 595-613, sqlite.rs:140-174).
LEMMA LeasesBacked ==
    ASSUME StoreAssumption, EngineAssumption, StoreInOrder, CallsInOrder, Backed,
           \/ \E c \in Calls : Claim(c) \/ Renew(c)
           \/ \E s \in Steps : LeaseExpires(s)
    PROVE  Backed' /\ AbstractStep
<1>0. StoreTypeOK /\ log' = log
  BY DEF StoreInOrder, Claim, Renew, LeaseExpires
<1>1. AbstractStep
  BY <1>0, LogUntouched DEF AbstractStep
<1>2. StoreBacked' /\ KeepsExecutions
  <2>1. PICK s \in Steps : \/ \E w \in Workers : ClaimStep(s, w) \/ RenewLease(s, w)
                           \/ ExpireLease(s)
    BY InStepFacts DEF Claim, Renew, LeaseExpires, InStep, EngineAssumption
  <2> QED BY <1>0, <2>1, LeaseBacked DEF Backed
<1>3. ASSUME NEW c \in Calls, Claim(c) PROVE CallsBacked'
  <2>1. UNCHANGED <<attempt, todo>>
    BY <1>3 DEF Claim
  <2>2. CASE (Leave(c) /\ UNCHANGED at) \/ StepDone(c)
    BY <1>2, <2>1, <2>2, LeavesFree DEF Backed
  <2>3. CASE Go(c, "unmount") /\ UNCHANGED at
    BY <1>2, <2>1, <2>3, GoesFree DEF Backed, Reliant, AtWork, BeforeWork
  <2>4. CASE Go(c, "begin") /\ UNCHANGED at
    <3>1. PICK s, a : s = at[c] /\ a = attempt[c] /\ Due(s, a)
      BY <1>3 DEF Claim, Backed, CallsBacked, CallBacked, BeforeWork
    <3>2. Due(s, a)'
      BY <1>2, <3>1, DueStays
    <3>3. /\ attempt' = [attempt EXCEPT ![c] = a]
          /\ at' = [at EXCEPT ![c] = s] /\ todo' = [todo EXCEPT ![c] = todo[c]]
      BY <2>1, <2>4, <3>1 DEF CallsInOrder
    <3> QED BY <1>2, <2>4, <3>2, <3>3, GoesToDue DEF Backed, BeforeWork
  <2> QED BY <1>3, <2>2, <2>3, <2>4 DEF Claim
<1>4. ASSUME UNCHANGED calls PROVE CallsBacked'
  BY <1>2, <1>4, CallStaysBacked DEF Backed, CallsBacked, calls
<1> QED BY <1>1, <1>2, <1>3, <1>4 DEF Backed, Renew, LeaseExpires

\* A call stays at work on the attempt it has started while it deals with the queue
\* (engine.rs:583-645).
LEMMA QueueBacked ==
    ASSUME CallsInOrder, Backed, NEW c \in Calls,
           Push(c) \/ Send(c) \/ Resolve(c) \/ TimeOut(c)
    PROVE  Backed' /\ AbstractStep
<1>0. UNCHANGED store /\ UNCHANGED <<at, attempt, todo>>
  BY DEF Push, Send, Resolve, TimeOut, OnlyPoint
<1>1. StoreBacked' /\ KeepsExecutions /\ AbstractStep
  BY <1>0, Silent DEF Backed
<1>2. JobOf(c) \in Executions("StepStarted")'
  BY <1>1 DEF Push, Send, Resolve, TimeOut, Backed, CallsBacked, CallBacked, AtWork,
              KeepsExecutions, Told
<1>3. \/ \E p \in {"send", "await", "complete", "wait", "fail", "fatal"} : Go(c, p)
      \/ Go(c, "unmount")
  BY DEF Push, Send, Resolve, TimeOut, Verdict
<1>4. ASSUME NEW p \in {"send", "await", "complete", "wait", "fail", "fatal"}, Go(c, p)
      PROVE  CallsBacked'
  BY <1>0, <1>1, <1>2, <1>4, GoesBacked DEF Backed, BeforeWork
<1>5. ASSUME Go(c, "unmount") PROVE CallsBacked'
  BY <1>0, <1>1, <1>5, GoesFree DEF Backed, Reliant, AtWork, BeforeWork
<1> QED BY <1>1, <1>3, <1>4, <1>5 DEF Backed

\* The actions that leave a call between steps or end it
\* (engine.rs:165-226, 309-357, 421-428, 663-686).
LEMMA FreeBacked ==
    ASSUME CallsInOrder, Backed, NEW c \in Calls,
           \/ Refuse(c) \/ Register(c) \/ Run(c) \/ CancelLoad(c) \/ Mount(c) \/ Finish(c)
           \/ Unregister(c) \/ Unmount(c) \/ Remount(c) \/ Forget(c) \/ RecoverEnds(c)
           \/ StoreFails(c) \/ Abandon(c)
    PROVE  Backed' /\ AbstractStep
<1>0. UNCHANGED store /\ UNCHANGED <<attempt, todo>>
  BY DEF Refuse, Register, Run, CancelLoad, Mount, Finish, Unregister, Unmount, Remount, Forget,
         RecoverEnds, StoreFails, Abandon, OnlyPoint
<1>1. StoreBacked' /\ KeepsExecutions /\ AbstractStep
  BY <1>0, Silent DEF Backed
<1>2. UNCHANGED at \/ \E s : at' = [at EXCEPT ![c] = s]
  BY DEF Refuse, Register, Run, CancelLoad, Mount, Finish, Unregister, Unmount, Remount, Forget,
         RecoverEnds, StoreFails, Abandon, OnlyPoint
<1>3. \E p \in {"start", "cancel", "drive", "record", "leave", "unmount", "next"}
               \union Ended : Go(c, p)
  BY DEF Refuse, Register, Run, CancelLoad, Mount, Finish, Unregister, Unmount, Remount, Forget,
         RecoverEnds, StoreFails, Abandon, Leave, Ended
<1> QED BY <1>0, <1>1, <1>2, <1>3, GoesFree
        DEF Backed, Ended, Reliant, AtWork, BeforeWork

\* Engines, jobs and crashes (queue.rs:133-156).
LEMMA EnginesBacked ==
    ASSUME CallsInOrder, Backed,
           \/ \E w \in Workers, k \in Steps \X Attempts :
                 BodyStarts(w, k) \/ \E o \in Bodies : BodyEnds(w, k, o)
           \/ \E w \in Workers : Crash(w) \/ Restart(w)
           \/ UNCHANGED vars
    PROVE  Backed' /\ AbstractStep
<1>0. UNCHANGED store /\ UNCHANGED <<at, attempt, todo>>
  BY DEF BodyStarts, BodyEnds, Crash, Restart, vars, calls
<1>1. StoreBacked' /\ KeepsExecutions /\ AbstractStep
  BY <1>0, Silent DEF Backed
<1>2. \A c \in Calls : pc'[c] = pc[c] \/ pc'[c] = "dead"
  BY DEF BodyStarts, BodyEnds, Crash, Restart, vars, calls, CallsInOrder
<1>3. ASSUME NEW c \in Calls PROVE CallBacked(c)'
  <2>1. CASE pc'[c] = pc[c]
    BY <1>0, <1>1, <2>1, CallStaysBacked DEF Backed, CallsBacked
  <2>2. CASE pc'[c] = "dead"
    <3>1. \A x \in todo[c] : Due(x.step, x.attempt)'
      BY <1>1, DueStays DEF Backed, CallsBacked, CallBacked
    <3> QED BY <1>0, <2>2, <3>1 DEF CallBacked, AtWork, BeforeWork, Due
  <2> QED BY <1>2, <2>1, <2>2
<1> QED BY <1>1, <1>3 DEF Backed, CallsBacked

(***************************************************************************)
(* The refinement                                                          *)
(***************************************************************************)

LEMMA BackedInit == Init => Backed /\ Durable!Init
<1> SUFFICES ASSUME Init PROVE Backed /\ Durable!Init
  OBVIOUS
<1>1. log = <<>> /\ DOMAIN log = {}
  BY DEF Init, StoreInit
<1>2. \A t : Executions(t) = {} /\ ~ Logged(t)
  BY <1>1 DEF Executions, Logged
<1>3. StoreBacked
  BY <1>1 DEF Init, StoreInit, StoreBacked, NoRow, Due
<1>4. CallsBacked
  BY DEF Init, CallsBacked, CallBacked, AtWork, BeforeWork
<1>5. Durable!Init
  BY <1>2 DEF Durable!Init
<1> QED BY <1>3, <1>4, <1>5 DEF Backed

LEMMA BackedNext ==
    ASSUME StoreAssumption, EngineAssumption, InOrder, Backed, [Next]_vars
    PROVE  Backed' /\ AbstractStep
<1>0. StoreInOrder /\ CallsInOrder
  BY DEF InOrder
<1>1. ASSUME NEW c \in Calls, Begin(c) \/ Step(c) PROVE Backed' /\ AbstractStep
  BY <1>0, <1>1, WorkflowEvents, StepEventsBacked, BeforeWorkBacked, LeasesBacked,
     QueueBacked, FreeBacked DEF Begin, Step
<1>2. ASSUME NEW c \in Calls, Renew(c) \/ TimeOut(c) \/ StoreFails(c) \/ Abandon(c)
      PROVE  Backed' /\ AbstractStep
  BY <1>0, <1>2, LeasesBacked, QueueBacked, FreeBacked
<1>3. ASSUME NEW s \in Steps, LeaseExpires(s) PROVE Backed' /\ AbstractStep
  BY <1>0, <1>3, LeasesBacked
<1>4. ASSUME \/ \E w \in Workers, k \in Steps \X Attempts :
                   BodyStarts(w, k) \/ \E o \in Bodies : BodyEnds(w, k, o)
             \/ \E w \in Workers : Crash(w) \/ Restart(w)
             \/ UNCHANGED vars
      PROVE  Backed' /\ AbstractStep
  BY <1>0, <1>4, EnginesBacked
<1> QED BY <1>1, <1>2, <1>3, <1>4, Zenon DEF Next, Quiet

\* The engine implements the durable workflow of DurableWorkflow, whatever the number
\* of engines and calls, and with stalls, crashes, store errors and abandoned calls:
\* engine.rs:175-428, 553-688.
THEOREM EngineRefines == Spec => ImplementsWorkflow
<1>1. Init => Backed /\ Durable!Init
  BY BackedInit
<1>2. InOrder /\ Backed /\ [Next]_vars => Backed' /\ [Durable!Next]_(Durable!record)
  BY BackedNext, StoreAssumption, EngineAssumption DEF AbstractStep
<1> QED
  BY <1>1, <1>2, EngineInOrder, PTL DEF Spec, ImplementsWorkflow, Durable!Spec

(***************************************************************************)
(* What follows from the abstract specification                            *)
(***************************************************************************)

DurableExecutions ==
    /\ Executions("StepStarted") \subseteq Durable!Steps \X Durable!Attempts
    /\ Executions("StepFailed") \subseteq Executions("StepStarted")
    /\ \A s \in Durable!Steps, a \in Durable!Attempts :
          <<s, a>> \in Executions("RetryScheduled") => <<s, a - 1>> \in Executions("StepFailed")
    /\ Durable!RetriesFollowFailures

\* A durable workflow, whoever implements it, starts an attempt only after all those
\* before it have failed.
LEMMA DurableRetries == Durable!Spec => []Durable!RetriesFollowFailures
<1>1. Durable!Init => DurableExecutions
  BY DEF Durable!Init, DurableExecutions, Durable!RetriesFollowFailures
<1>2. ASSUME DurableExecutions, [Durable!Next]_(Durable!record)
      PROVE  DurableExecutions'
  <2>1. ASSUME UNCHANGED Durable!record PROVE DurableExecutions'
    BY <1>2, <2>1
       DEF Durable!record, Durable!executions, DurableExecutions, Durable!RetriesFollowFailures
  <2>2. ASSUME NEW s \in Durable!Steps, NEW a \in Durable!Attempts, Durable!Start(s, a)
        PROVE  DurableExecutions'
    <3>1. \A b \in Durable!Attempts : b < a => <<s, b>> \in Executions("StepFailed")
      <4>1. CASE a = 0
        BY <4>1 DEF Durable!Attempts
      <4>2. CASE <<s, a>> \in Executions("RetryScheduled")
        <5>1. /\ <<s, a - 1>> \in Executions("StepFailed")
              /\ <<s, a - 1>> \in Executions("StepStarted")
          BY <1>2, <4>2 DEF DurableExecutions
        <5>2. a - 1 \in Durable!Attempts
          BY <1>2, <5>1 DEF DurableExecutions
        <5>3. \A b \in Durable!Attempts : b < a - 1 => <<s, b>> \in Executions("StepFailed")
          BY <1>2, <5>1, <5>2 DEF DurableExecutions, Durable!RetriesFollowFailures
        <5>4. \A b \in Durable!Attempts : b < a => b = a - 1 \/ b < a - 1
          BY DEF Durable!Attempts
        <5> QED BY <5>1, <5>3, <5>4
      <4> QED BY <2>2, <4>1, <4>2 DEF Durable!Start
    <3> QED BY <1>2, <2>2, <3>1
            DEF Durable!Start, DurableExecutions, Durable!RetriesFollowFailures
  <2>3. ASSUME NEW s \in Durable!Steps, NEW a \in Durable!Attempts,
               Durable!Fail(s, a) \/ Durable!Schedule(s, a)
        PROVE  DurableExecutions'
    BY <1>2, <2>3
       DEF Durable!Fail, Durable!Schedule, DurableExecutions, Durable!RetriesFollowFailures
  <2>4. ASSUME NEW s \in Durable!Steps, NEW a \in Durable!Attempts,
               Durable!Complete(s, a) \/ Durable!AskForInput(s, a) \/ Durable!Resume(s, a)
        PROVE  DurableExecutions'
    BY <1>2, <2>4 DEF Durable!Complete, Durable!AskForInput, Durable!Resume,
                      DurableExecutions, Durable!RetriesFollowFailures
  <2>5. ASSUME NEW type, Durable!End(type) PROVE DurableExecutions'
    BY <1>2, <2>5
       DEF Durable!End, Durable!executions, DurableExecutions, Durable!RetriesFollowFailures
  <2> QED BY <1>2, <2>1, <2>2, <2>3, <2>4, <2>5 DEF Durable!Next
<1>3. DurableExecutions => Durable!RetriesFollowFailures
  BY DEF DurableExecutions
<1> QED
  BY <1>1, <1>2, <1>3, PTL DEF Durable!Spec

\* An attempt starts only when every attempt before it is on record as failed, across
\* crashes, recoveries, resumes and engines, because the engine implements a durable
\* workflow: engine.rs:640-661, recovery.rs:9, sqlite.rs:450-481.
THEOREM AttemptsFollowFailures == Spec => []RetriesFollowFailures
  BY EngineRefines, DurableRetries, PTL DEF ImplementsWorkflow, RetriesFollowFailures
=============================================================================
