------------------------ MODULE WorkflowEngineProofs ------------------------
(***************************************************************************)
(* Proofs about WorkflowEngine, for any number of steps, attempts, engines *)
(* and calls, and with every fault: the types, the order of the steps, the *)
(* bound on attempts, and what a recorded completion stands for.           *)
(*                                                                         *)
(* The inductive invariant InOrder has a part for the store and a part for *)
(* the calls.  The first section shows what each operation of the store    *)
(* preserves, the second what moving one call preserves, the third that    *)
(* every action is made of such moves.                                     *)
(***************************************************************************)
EXTENDS WorkflowEngine, WellFoundedInduction, FiniteSetTheorems, TLAPS

StoreInOrder ==
    /\ StoreTypeOK
    /\ EventsInOrder
    /\ RowsInOrder
    /\ AttemptsAllowed
    /\ CompletedMeansAllSteps

CallsInOrder ==
    /\ pc \in [Calls -> Points]
    /\ at \in [Calls -> 0..NumSteps]
    /\ attempt \in [Calls -> Attempts]
    /\ todo \in [Calls -> SUBSET [step : Steps, attempt : Attempts]]
    /\ \A c \in Calls : CallInOrder(c)

\* The types of the variables that neither part constrains further.
OthersTypeOK ==
    /\ up \in [Workers -> BOOLEAN]
    /\ mounted \in [Workers -> BOOLEAN]
    /\ lock \in [Workers -> Calls \union {Nobody}]
    /\ job \in [Workers -> [Steps \X Attempts -> JobStates]]
    /\ driving \in [Calls -> BOOLEAN]
    /\ answer \in [Calls -> {"none", "ok", "fail", "wait", "fatal", "lost"}]
    /\ faults \in 0..MaxFaults

InOrder == StoreInOrder /\ CallsInOrder /\ OthersTypeOK

\* What is on record as completed stays so.
KeepsCompletions ==
    \A t \in Steps : LoggedFor("StepCompleted", t) => LoggedFor("StepCompleted", t)'

(***************************************************************************)
(* The operations of the store                                             *)
(***************************************************************************)

\* A nonempty set of positions has a last one: LastEvent is well defined
\* (engine.rs:707-788 keep the last event that matches).
LEMMA HasMax ==
    ASSUME NEW n \in Nat, NEW T, T \subseteq 1..n, T # {}
    PROVE  \E i \in T : \A j \in T : j <= i
<1> DEFINE R == OpToRel(<, Nat)
           U == {n - i : i \in T}
<1>0. \A i \in T : i \in Nat /\ n - i \in Nat OBVIOUS
<1>1. U \subseteq Nat
  BY <1>0, Zenon
<1>2. U # {}
  BY T # {}, Zenon
<1>3. IsWellFoundedOn(R, Nat)
  BY NatLessThanWellFounded
<1>4. PICK x \in U : \A y \in U : ~ (<<y, x>> \in R)
  <2> HIDE DEF R, U
  <2> QED BY <1>1, <1>2, <1>3, WFMin
<1>5. \A y \in U : ~ (y < x)
  BY <1>4, <1>1 DEF OpToRel
<1>6. PICK i \in T : x = n - i
  BY <1>4, Zenon
<1>7. \A j \in T : n - j \in U
  BY Zenon
<1>8. \A j \in T : j <= i
  <2> HIDE DEF U
  <2> QED BY <1>0, <1>5, <1>6, <1>7
<1> QED BY <1>6, <1>8

\* The last event of a step of some types is an event of the log.
LEMMA LastEventIsLogged ==
    ASSUME StoreTypeOK, NEW types, NEW s, Positions(types, s) # {}
    PROVE  \E i \in Positions(types, s) : LastEvent(types, s) = log[i]
<1>1. Len(log) \in Nat /\ DOMAIN log = 1..Len(log)
  BY DEF StoreTypeOK
<1>2. \E i \in Positions(types, s) : \A j \in Positions(types, s) : j <= i
  BY <1>1, HasMax DEF Positions
<1> QED BY <1>2 DEF LastEvent

\* append_event, with the projection on the row, keeps the store in order when
\* the event's step has its turn, its attempt is allowed and, if it records the
\* completion of the workflow, all steps are done (sqlite.rs:104-122, 332-448).
LEMMA AppendInOrder ==
    ASSUME StoreAssumption, StoreInOrder,
           NEW type \in StepEvents \union TerminalEvents \union {"WorkflowStarted"},
           NEW s \in Steps \union {NoStep}, NEW a \in Attempts, NEW c \in Calls,
           Allowed(a),
           s # NoStep => DoneBefore(s),
           type = "WorkflowCompleted" => \A t \in Steps : LoggedFor("StepCompleted", t),
           AppendEvent(type, s, a, c)
    PROVE  /\ StoreInOrder'
           /\ KeepsCompletions
           /\ type = "StepCompleted" => LoggedFor("StepCompleted", s)'
<1> DEFINE e == [type |-> type, step |-> s, attempt |-> a, by |-> c]
<1>0. /\ log' = Append(log, e)
      /\ rows' = [t \in Steps |-> IF t = s THEN Projected(rows[t], e) ELSE rows[t]]
  BY DEF AppendEvent
<1>1. e \in Events
  BY DEF Events
<1>2. /\ log' \in Seq(Events)
      /\ Len(log) \in Nat /\ DOMAIN log = 1..Len(log)
      /\ Len(log') = Len(log) + 1 /\ DOMAIN log' = 1..(Len(log) + 1)
      /\ \A i \in DOMAIN log : log'[i] = log[i]
      /\ log'[Len(log) + 1] = e
  BY <1>0, <1>1 DEF StoreInOrder, StoreTypeOK
<1> HIDE DEF e
<1>e. e.type = type /\ e.step = s /\ e.attempt = a
  BY DEF e
<1>3. KeepsCompletions
  BY <1>2 DEF KeepsCompletions, LoggedFor
<1>4. type = "StepCompleted" => LoggedFor("StepCompleted", s)'
  BY <1>2, <1>e DEF LoggedFor
<1>5. \A t \in Steps : DoneBefore(t) => DoneBefore(t)'
  BY <1>3 DEF KeepsCompletions, DoneBefore
<1>6. StoreTypeOK'
  <2>1. \A t \in Steps : Projected(rows[t], e) \in Rows
    BY <1>e DEF StoreInOrder, StoreTypeOK, Projected, Projects, Rows, NoRow,
                StatusAfter, AttemptAfter, Attempts, StoreAssumption
  <2> QED BY <1>0, <1>2, <2>1 DEF StoreInOrder, StoreTypeOK
<1>7. EventsInOrder'
  <2> SUFFICES ASSUME NEW i \in DOMAIN log', NEW t \in Steps, t < log'[i].step
               PROVE  \E j \in 1..(i - 1) : /\ log'[j].type = "StepCompleted"
                                            /\ log'[j].step = t
    BY DEF EventsInOrder
  <2>1. CASE i \in DOMAIN log
    BY <2>1, <1>2 DEF StoreInOrder, EventsInOrder
  <2>2. CASE i = Len(log) + 1
    <3>1. s # NoStep
      BY <2>2, <1>2, <1>e, StoreAssumption DEF NoStep, Steps, StoreAssumption
    <3>2. LoggedFor("StepCompleted", t)
      BY <2>2, <3>1, <1>2, <1>e DEF DoneBefore
    <3> QED BY <3>2, <2>2, <1>2 DEF LoggedFor
  <2> QED BY <2>1, <2>2, <1>2
<1>8. RowsInOrder'
  <2> SUFFICES ASSUME NEW t \in Steps
               PROVE  /\ rows'[t].status # "absent" => DoneBefore(t)'
                      /\ rows'[t].status = "completed" => LoggedFor("StepCompleted", t)'
    BY DEF RowsInOrder
  <2>1. CASE rows'[t] = rows[t]
    BY <2>1, <1>3, <1>5 DEF StoreInOrder, RowsInOrder, KeepsCompletions
  <2>2. CASE rows'[t] # rows[t]
    <3>1. t = s /\ Projects(e) /\ rows'[t].status = StatusAfter(type)
      BY <2>2, <1>0, <1>e DEF Projected, NoRow
    <3>2. StatusAfter(type) = "completed" => type = "StepCompleted"
      BY DEF StatusAfter
    <3>3. s # NoStep
      BY <3>1 DEF NoStep, Steps, StoreAssumption
    <3> QED BY <3>1, <3>2, <3>3, <1>4, <1>5
  <2> QED BY <2>1, <2>2
<1>9. AttemptsAllowed'
  <2>1. \A i \in DOMAIN log' : Allowed(log'[i].attempt)
    BY <1>2, <1>e DEF StoreInOrder, AttemptsAllowed
  <2>2. \A t \in Steps : Allowed(rows'[t].attempt)
    BY <1>0, <1>e DEF StoreInOrder, AttemptsAllowed, Projected, AttemptAfter, NoRow
  <2> QED BY <2>1, <2>2 DEF AttemptsAllowed, Allowed
<1>10. CompletedMeansAllSteps'
  <2>1. Logged("WorkflowCompleted")' => Logged("WorkflowCompleted") \/ type = "WorkflowCompleted"
    BY <1>2, <1>e DEF Logged
  <2> QED BY <2>1, <1>3 DEF StoreInOrder, CompletedMeansAllSteps, KeepsCompletions
<1> QED BY <1>3, <1>4, <1>6, <1>7, <1>8, <1>9, <1>10 DEF StoreInOrder

\* The operations that write only the lease of a row: claim_step of a step whose
\* turn has come, renew_lease, and the passing of time (sqlite.rs:140-193).
LEMMA LeaseInOrder ==
    ASSUME StoreAssumption, StoreInOrder, log' = log, NEW s \in Steps,
           \/ \E w \in Workers : DoneBefore(s) /\ ClaimStep(s, w)
           \/ \E w \in Workers : RenewLease(s, w)
           \/ ExpireLease(s)
    PROVE  StoreInOrder' /\ KeepsCompletions
<1>1. rows \in [Steps -> Rows]
  BY DEF StoreInOrder, StoreTypeOK
<1>2. /\ rows' \in [Steps -> Rows]
      /\ \A t \in Steps : /\ rows'[t].attempt = rows[t].attempt
                          /\ \/ rows'[t].status = rows[t].status
                             \/ rows'[t].status = "leased" /\ t = s /\ DoneBefore(s)
  <2>1. CASE \E w \in Workers : DoneBefore(s) /\ ClaimStep(s, w)
    BY <2>1, <1>1 DEF ClaimStep, Rows
  <2>2. CASE (\E w \in Workers : RenewLease(s, w)) \/ ExpireLease(s)
    <3>1. \E b \in BOOLEAN : rows' = [rows EXCEPT ![s] = [rows[s] EXCEPT !.fresh = b]]
      BY <2>2, <1>1 DEF RenewLease, ExpireLease
    <3>2. \A b \in BOOLEAN : LET r == [rows[s] EXCEPT !.fresh = b]
                            IN  r \in Rows /\ r.status = rows[s].status
                                /\ r.attempt = rows[s].attempt
      BY <1>1 DEF Rows
    <3> QED BY <3>1, <3>2, <1>1
  <2> QED BY <2>1, <2>2
<1>3. \A t \in Steps : /\ DoneBefore(t)' <=> DoneBefore(t)
                       /\ LoggedFor("StepCompleted", t)' <=> LoggedFor("StepCompleted", t)
  BY DEF DoneBefore, LoggedFor
<1>4. RowsInOrder'
  BY <1>2, <1>3 DEF StoreInOrder, RowsInOrder
<1>5. AttemptsAllowed'
  BY <1>2 DEF StoreInOrder, AttemptsAllowed, Allowed
<1>6. EventsInOrder' /\ CompletedMeansAllSteps' /\ StoreTypeOK'
  BY <1>2 DEF StoreInOrder, EventsInOrder, CompletedMeansAllSteps, StoreTypeOK, Logged,
              LoggedFor
<1> QED BY <1>3, <1>4, <1>5, <1>6 DEF StoreInOrder, KeepsCompletions

\* A step of the system that leaves the store alone.
LEMMA StoreUntouched ==
    ASSUME StoreInOrder, UNCHANGED store
    PROVE  StoreInOrder' /\ KeepsCompletions
BY DEF StoreInOrder, StoreTypeOK, EventsInOrder, RowsInOrder, AttemptsAllowed,
       CompletedMeansAllSteps, KeepsCompletions, DoneBefore, LoggedFor, Logged,
       Allowed, store

(***************************************************************************)
(* Moving a call                                                           *)
(***************************************************************************)

\* A call that a step leaves alone stays in order.
LEMMA CallUntouched ==
    ASSUME NEW c \in Calls, CallInOrder(c), KeepsCompletions, StoreAssumption,
           at[c] \in 0..NumSteps, pc'[c] = pc[c], at'[c] = at[c],
           attempt'[c] = attempt[c], todo'[c] = todo[c]
    PROVE  CallInOrder(c)'
<1>1. \A s : DoneBefore(s) => DoneBefore(s)'
  BY DEF KeepsCompletions, DoneBefore
<1>2. pc[c] = "remount" => LoggedFor("StepCompleted", at[c])'
  BY DEF CallInOrder, KeepsCompletions, Steps, StoreAssumption, InStep
<1> QED BY <1>1, <1>2 DEF CallInOrder, Allowed, MayRetry

LEMMA CallsUntouched ==
    ASSUME StoreAssumption, CallsInOrder, KeepsCompletions,
           UNCHANGED <<pc, at, attempt, todo>>
    PROVE  CallsInOrder'
<1>1. \A c \in Calls : CallInOrder(c)'
  BY CallUntouched DEF CallsInOrder
<1> QED BY <1>1 DEF CallsInOrder

\* One call moves, to a point that its new place and attempt allow.
LEMMA CallMoves ==
    ASSUME StoreAssumption, CallsInOrder, KeepsCompletions, NEW c \in Calls,
           NEW p \in Points, NEW s \in 0..NumSteps, NEW a \in Attempts,
           NEW T, T \subseteq todo[c],
           Go(c, p),
           at' = [at EXCEPT ![c] = s],
           attempt' = [attempt EXCEPT ![c] = a],
           todo' = [todo EXCEPT ![c] = T],
           DoneBefore(s)', Allowed(a),
           p \in InStep => s < NumSteps,
           p = "remount" => LoggedFor("StepCompleted", s)',
           p = "record" => s = NumSteps,
           p \in {"reschedule", "backoff"} => a + 1 < MaxAttempts
    PROVE  CallsInOrder'
<1>1. /\ pc' \in [Calls -> Points]
      /\ at' \in [Calls -> 0..NumSteps]
      /\ attempt' \in [Calls -> Attempts]
      /\ todo' \in [Calls -> SUBSET [step : Steps, attempt : Attempts]]
  BY DEF CallsInOrder, Go
<1>2. \A d \in Calls \ {c} : CallInOrder(d)'
  <2> SUFFICES ASSUME NEW d \in Calls \ {c} PROVE CallInOrder(d)'
    OBVIOUS
  <2>1. /\ pc'[d] = pc[d] /\ at'[d] = at[d]
        /\ attempt'[d] = attempt[d] /\ todo'[d] = todo[d]
    BY DEF CallsInOrder, Go
  <2> QED BY <2>1, CallUntouched DEF CallsInOrder
<1>3. CallInOrder(c)'
  <2>1. pc'[c] = p /\ at'[c] = s /\ attempt'[c] = a /\ todo'[c] = T
    BY DEF CallsInOrder, Go
  <2>2. \A x \in T : DoneBefore(x.step)' /\ Allowed(x.attempt)
    BY DEF CallsInOrder, CallInOrder, KeepsCompletions, DoneBefore
  <2> QED BY <2>1, <2>2 DEF CallInOrder, Allowed, MayRetry
<1> QED BY <1>1, <1>2, <1>3 DEF CallsInOrder

\* The case in which nothing of the call changes but its point.
LEMMA CallGoes ==
    ASSUME StoreAssumption, CallsInOrder, KeepsCompletions, NEW c \in Calls,
           NEW p \in Points, Go(c, p), UNCHANGED <<at, attempt, todo>>,
           p \in InStep => at[c] < NumSteps,
           p = "remount" => LoggedFor("StepCompleted", at[c])',
           p = "record" => at[c] = NumSteps,
           p \in {"reschedule", "backoff"} => MayRetry(c)
    PROVE  CallsInOrder'
<1>1. /\ at[c] \in 0..NumSteps /\ attempt[c] \in Attempts
      /\ DoneBefore(at[c])' /\ Allowed(attempt[c])
  BY DEF CallsInOrder, CallInOrder, KeepsCompletions, DoneBefore
<1>2. /\ at' = [at EXCEPT ![c] = at[c]]
      /\ attempt' = [attempt EXCEPT ![c] = attempt[c]]
      /\ todo' = [todo EXCEPT ![c] = todo[c]]
  BY DEF CallsInOrder
<1> QED BY <1>1, <1>2, CallMoves DEF MayRetry

\* StepDone: the call goes on to the next step, or to the lookup before it.
LEMMA StepDoneInOrder ==
    ASSUME StoreAssumption, CallsInOrder, KeepsCompletions, NEW c \in Calls,
           NEW s \in Steps, s = at[c], LoggedFor("StepCompleted", s)', StepDone(c),
           UNCHANGED <<attempt, todo>>
    PROVE  CallsInOrder'
<1>1. /\ attempt[c] \in Attempts /\ Allowed(attempt[c]) /\ DoneBefore(s)
      /\ s \in Nat /\ s < NumSteps /\ NumSteps \in Nat
  BY DEF CallsInOrder, CallInOrder, Steps, StoreAssumption
<1>2. CASE driving[c]
  <2>1. s + 1 \in 0..NumSteps
    BY <1>1
  <2>2. \A t \in Steps : t < s + 1 => LoggedFor("StepCompleted", t)'
    <3>1. \A t \in Steps : t < s + 1 => t < s \/ t = s
      BY <1>1 DEF Steps
    <3> QED BY <3>1, <1>1 DEF KeepsCompletions, DoneBefore
  <2>3. DoneBefore(s + 1)'
    BY <2>2 DEF DoneBefore
  <2>4. /\ Go(c, "drive")
        /\ at' = [at EXCEPT ![c] = s + 1]
        /\ attempt' = [attempt EXCEPT ![c] = attempt[c]]
        /\ todo' = [todo EXCEPT ![c] = todo[c]]
    BY <1>2 DEF StepDone, CallsInOrder
  <2> QED BY <1>1, <2>1, <2>3, <2>4, CallMoves DEF Points, InStep
<1>3. CASE ~ driving[c]
  <2>1. Go(c, "remount") /\ UNCHANGED at
    BY <1>3 DEF StepDone
  <2> QED BY <2>1, <1>1, CallGoes DEF Points
<1> QED BY <1>2, <1>3

\* Leave: every point it may lead to lies outside the steps.
LEMMA LeaveInOrder ==
    ASSUME StoreAssumption, CallsInOrder, KeepsCompletions, NEW c \in Calls,
           Leave(c), UNCHANGED <<at, attempt, todo>>
    PROVE  CallsInOrder'
BY CallGoes DEF Leave, Points, Ended, InStep

(***************************************************************************)
(* The actions                                                             *)
(***************************************************************************)

\* Where a call in the middle of a step is.
LEMMA InStepFacts ==
    ASSUME StoreAssumption, CallsInOrder, NEW c \in Calls, pc[c] \in InStep
    PROVE  /\ at[c] \in Steps /\ at[c] # NoStep
           /\ attempt[c] \in Attempts /\ Allowed(attempt[c]) /\ DoneBefore(at[c])
BY DEF CallsInOrder, CallInOrder, Steps, NoStep, StoreAssumption

LEMMA StepIsAppended ==
    ASSUME StoreAssumption, StoreInOrder, CallsInOrder, NEW c \in Calls,
           pc[c] \in InStep, NEW type \in StepEvents, AppendStep(c, type),
           NEW s, s = at[c]
    PROVE  /\ StoreInOrder' /\ KeepsCompletions /\ s \in Steps
           /\ type = "StepCompleted" => LoggedFor("StepCompleted", s)'
<1>1. AppendEvent(type, s, attempt[c], c)
  BY DEF AppendStep
<1>2. type # "WorkflowCompleted"
  BY DEF StepEvents
<1>3. /\ s \in Steps /\ attempt[c] \in Attempts
      /\ Allowed(attempt[c]) /\ DoneBefore(s)
  BY InStepFacts
<1> QED BY <1>1, <1>2, <1>3, AppendInOrder

LEMMA WorkflowIsAppended ==
    ASSUME StoreAssumption, StoreInOrder, NEW c \in Calls,
           NEW type \in TerminalEvents \union {"WorkflowStarted"},
           type = "WorkflowCompleted" => \A t \in Steps : LoggedFor("StepCompleted", t),
           AppendWorkflow(c, type)
    PROVE  StoreInOrder' /\ KeepsCompletions
<1>1. AppendEvent(type, NoStep, 0, c)
  BY DEF AppendWorkflow
<1>2. 0 \in Attempts /\ Allowed(0)
  BY DEF Attempts, Allowed, StoreAssumption
<1> QED BY <1>1, <1>2, AppendInOrder

\* The actions of run, drive_from and cancel that stand between the steps
\* (engine.rs:175-225, 309-358).
LEMMA BetweenSteps ==
    ASSUME StoreAssumption, StoreInOrder, CallsInOrder, NEW c \in Calls,
           \/ RecordStarted(c) \/ Mount(c) \/ DriveStep(c) \/ Finish(c)
           \/ RecordCompleted(c) \/ Unregister(c) \/ RecordWorkflowFailed(c)
           \/ Unmount(c) \/ RecordCancelled(c) \/ Forget(c) \/ RecoverEnds(c)
    PROVE  StoreInOrder' /\ CallsInOrder'
<1>1. CASE RecordStarted(c)
  <2>1. StoreInOrder' /\ KeepsCompletions
    BY <1>1, WorkflowIsAppended DEF RecordStarted
  <2> QED BY <1>1, <2>1, CallGoes DEF RecordStarted, OnlyPoint, Points, InStep
<1>2. CASE Mount(c)
  <2>1. StoreInOrder' /\ KeepsCompletions
    BY <1>2, StoreUntouched DEF Mount
  <2>2. \E p \in {"drive", "error"} : Go(c, p)
    BY <1>2 DEF Mount
  <2> QED BY <1>2, <2>1, <2>2, CallGoes DEF Mount, Points, Ended, InStep
<1>3. CASE DriveStep(c)
  <2>1. StoreInOrder' /\ KeepsCompletions
    BY <1>3, StoreUntouched DEF DriveStep
  <2>2. CASE IsCancelled
    BY <1>3, <2>1, <2>2, LeaveInOrder DEF DriveStep
  <2>3. CASE ~ IsCancelled
    <3>0. PICK s \in 0..NumSteps : s = at[c]
      BY DEF CallsInOrder
    <3>1. /\ s < NumSteps /\ DoneBefore(s)'
          /\ 0 \in Attempts /\ Allowed(0)
      BY <1>3, <2>1, <3>0 DEF DriveStep, CallsInOrder, CallInOrder, Attempts, Allowed,
                              StoreAssumption, DoneBefore, KeepsCompletions
    <3>2. /\ Go(c, "claim") /\ at' = [at EXCEPT ![c] = s]
          /\ attempt' = [attempt EXCEPT ![c] = 0]
          /\ todo' = [todo EXCEPT ![c] = todo[c]]
      BY <1>3, <2>3, <3>0 DEF DriveStep, CallsInOrder
    <3> QED BY <2>1, <3>1, <3>2, CallMoves DEF Points, InStep
  <2> QED BY <2>2, <2>3
<1>4. CASE Finish(c)
  <2>1. StoreInOrder' /\ KeepsCompletions
    BY <1>4, StoreUntouched DEF Finish
  <2>2. \E p \in {"leave", "record"} : Go(c, p)
    BY <1>4 DEF Finish
  <2> QED BY <1>4, <2>1, <2>2, CallGoes DEF Finish, OnlyPoint, Points, InStep
<1>5. CASE RecordCompleted(c)
  <2>1. \A t \in Steps : LoggedFor("StepCompleted", t)
    BY <1>5 DEF RecordCompleted, CallsInOrder, CallInOrder, DoneBefore, Steps,
                StoreAssumption
  <2>2. StoreInOrder' /\ KeepsCompletions
    BY <1>5, <2>1, WorkflowIsAppended DEF RecordCompleted, TerminalEvents
  <2> QED BY <1>5, <2>2, CallGoes DEF RecordCompleted, OnlyPoint, Points, InStep
<1>6. CASE Unregister(c)
  <2>1. StoreInOrder' /\ KeepsCompletions
    BY <1>6, StoreUntouched DEF Unregister
  <2> QED BY <1>6, <2>1, LeaveInOrder DEF Unregister, OnlyPoint
<1>7. CASE RecordWorkflowFailed(c)
  <2>1. StoreInOrder' /\ KeepsCompletions
    BY <1>7, WorkflowIsAppended DEF RecordWorkflowFailed, TerminalEvents
  <2> QED BY <1>7, <2>1, CallGoes DEF RecordWorkflowFailed, OnlyPoint, Points, InStep
<1>8. CASE RecordCancelled(c)
  <2>1. StoreInOrder' /\ KeepsCompletions
    BY <1>8, WorkflowIsAppended DEF RecordCancelled, TerminalEvents
  <2> QED BY <1>8, <2>1, CallGoes DEF RecordCancelled, OnlyPoint, Points, InStep
<1>9. CASE Unmount(c) \/ Forget(c) \/ RecoverEnds(c)
  <2>1. StoreInOrder' /\ KeepsCompletions
    BY <1>9, StoreUntouched DEF Unmount, Forget, RecoverEnds
  <2>2. \E p \in {"error", "ok"} : Go(c, p)
    BY <1>9 DEF Unmount, Forget, RecoverEnds
  <2>3. UNCHANGED <<at, attempt, todo>>
    BY <1>9 DEF Unmount, Forget, RecoverEnds, OnlyPoint
  <2> QED BY <2>1, <2>2, <2>3, CallGoes DEF Points, Ended, InStep
<1> QED BY <1>1, <1>2, <1>3, <1>4, <1>5, <1>6, <1>7, <1>8, <1>9

\* The actions of run_step (engine.rs:553-667).
LEMMA WithinStep ==
    ASSUME StoreAssumption, EngineAssumption, StoreInOrder, CallsInOrder, OthersTypeOK,
           NEW c \in Calls,
           \/ Claim(c) \/ RecordStepStarted(c) \/ Push(c) \/ Send(c) \/ Resolve(c)
           \/ RecordStepCompleted(c) \/ RecordStepWaiting(c) \/ RecordStepFailed(c)
           \/ RecordRetryScheduled(c) \/ BackOff(c) \/ Remount(c)
    PROVE  StoreInOrder' /\ CallsInOrder'
<1>0. PICK s \in Steps : s = at[c]
  BY InStepFacts DEF Claim, RecordStepStarted, Push, Send, Resolve, RecordStepCompleted,
                     RecordStepWaiting, RecordStepFailed, RecordRetryScheduled, BackOff,
                     Remount, InStep
<1>a. /\ s \in 0..NumSteps /\ s < NumSteps /\ s # NoStep /\ DoneBefore(s)
      /\ attempt[c] \in Attempts /\ Allowed(attempt[c])
      /\ Engine[c] \in Workers
  BY <1>0, EngineAssumption DEF CallsInOrder, CallInOrder, Steps, NoStep, StoreAssumption,
                                EngineAssumption
<1>1. CASE Claim(c)
  <2>1. ClaimStep(s, Engine[c]) /\ log' = log
    BY <1>1, <1>0 DEF Claim
  <2>2. StoreInOrder' /\ KeepsCompletions
    BY <2>1, <1>a, LeaseInOrder
  <2>3. CASE ClaimResult(rows[s], Engine[c]) = "Claimed"
    <3>1. Go(c, "begin") /\ UNCHANGED <<at, attempt, todo>>
      BY <1>1, <1>0, <2>3 DEF Claim
    <3> QED BY <2>2, <3>1, <1>0, <1>a, CallGoes DEF Points
  <2>4. CASE ClaimResult(rows[s], Engine[c]) = "AlreadyCompleted"
    <3>1. LoggedFor("StepCompleted", s)'
      BY <2>2, <2>4 DEF ClaimResult, StoreInOrder, RowsInOrder, KeepsCompletions
    <3> QED BY <1>1, <1>0, <2>2, <2>4, <3>1, StepDoneInOrder DEF Claim
  <2>5. CASE ClaimResult(rows[s], Engine[c]) = "AlreadyWaiting"
    BY <1>1, <1>0, <2>2, <2>5, LeaveInOrder DEF Claim
  <2>6. CASE ClaimResult(rows[s], Engine[c]) = "HeldByOther"
    <3>1. Go(c, "unmount") /\ UNCHANGED <<at, attempt, todo>>
      BY <1>1, <1>0, <2>6 DEF Claim
    <3> QED BY <2>2, <3>1, CallGoes DEF Points, InStep
  <2> QED BY <1>1, <1>0, <2>3, <2>4, <2>5, <2>6 DEF Claim
<1>2. CASE RecordStepStarted(c)
  <2>1. StoreInOrder' /\ KeepsCompletions
    BY <1>2, StepIsAppended DEF RecordStepStarted, StepEvents, InStep
  <2> QED BY <1>2, <1>0, <1>a, <2>1, CallGoes DEF RecordStepStarted, OnlyPoint, Points
<1>3. CASE Push(c) \/ Send(c)
  <2>1. StoreInOrder' /\ KeepsCompletions
    BY <1>3, StoreUntouched DEF Push, Send
  <2>2. (\E p \in {"complete", "send", "await"} : Go(c, p)) /\ UNCHANGED <<at, attempt, todo>>
    BY <1>3 DEF Push, Send, OnlyPoint
  <2> QED BY <1>0, <1>a, <2>1, <2>2, CallGoes DEF Points
<1>4. CASE Resolve(c)
  <2>1. StoreInOrder' /\ KeepsCompletions
    BY <1>4, StoreUntouched DEF Resolve
  <2>2. \E p \in {"complete", "wait", "fatal", "fail", "unmount"} : Go(c, p)
    BY <1>4 DEF Resolve, Verdict
  <2>3. UNCHANGED <<at, attempt, todo>>
    BY <1>4 DEF Resolve
  <2> QED BY <1>0, <1>a, <2>1, <2>2, <2>3, CallGoes DEF Points
<1>5. CASE RecordStepCompleted(c)
  <2>1. StoreInOrder' /\ KeepsCompletions /\ LoggedFor("StepCompleted", s)'
    BY <1>5, <1>0, StepIsAppended DEF RecordStepCompleted, StepEvents, InStep
  <2> QED BY <1>5, <1>0, <2>1, StepDoneInOrder DEF RecordStepCompleted
<1>6. CASE RecordStepWaiting(c)
  <2>1. StoreInOrder' /\ KeepsCompletions
    BY <1>6, StepIsAppended DEF RecordStepWaiting, StepEvents, InStep
  <2> QED BY <1>6, <2>1, LeaveInOrder DEF RecordStepWaiting, OnlyPoint
<1>7. CASE RecordStepFailed(c)
  <2>1. StoreInOrder' /\ KeepsCompletions
    BY <1>7, StepIsAppended DEF RecordStepFailed, StepEvents, InStep
  <2>2. CASE MayRetry(c)
    <3>1. (\E p \in {"reschedule", "giveup"} : Go(c, p)) /\ UNCHANGED <<at, attempt, todo>>
      BY <1>7 DEF RecordStepFailed, OnlyPoint
    <3> QED BY <1>0, <1>a, <2>1, <2>2, <3>1, CallGoes DEF Points
  <2>3. CASE ~ MayRetry(c)
    <3>1. Go(c, "giveup") /\ UNCHANGED <<at, attempt, todo>>
      BY <1>7, <2>3 DEF RecordStepFailed, OnlyPoint
    <3> QED BY <2>1, <3>1, CallGoes DEF Points, InStep
  <2> QED BY <2>2, <2>3
<1>8. CASE RecordRetryScheduled(c)
  <2>0. attempt[c] + 1 < MaxAttempts
    BY <1>8 DEF RecordRetryScheduled, CallsInOrder, CallInOrder, MayRetry
  <2>1. attempt[c] + 1 \in Attempts /\ Allowed(attempt[c] + 1)
    BY <2>0, <1>a DEF Attempts, Allowed, StoreAssumption
  <2>2. StoreInOrder' /\ KeepsCompletions
    BY <1>8, <1>0, <1>a, <2>1, AppendInOrder DEF RecordRetryScheduled, StepEvents
  <2> QED BY <1>8, <1>0, <1>a, <2>0, <2>2, CallGoes
             DEF RecordRetryScheduled, OnlyPoint, Points, MayRetry
<1>9. CASE BackOff(c)
  <2>1. StoreInOrder' /\ KeepsCompletions
    BY <1>9, StoreUntouched DEF BackOff
  <2>2. CASE IsCancelled
    BY <1>9, <2>1, <2>2, LeaveInOrder DEF BackOff
  <2>3. CASE ~ IsCancelled
    <3>0. attempt[c] + 1 < MaxAttempts
      BY <1>9 DEF BackOff, CallsInOrder, CallInOrder, MayRetry
    <3>1. attempt[c] + 1 \in Attempts /\ Allowed(attempt[c] + 1) /\ DoneBefore(s)'
      BY <3>0, <1>a, <2>1 DEF Attempts, Allowed, StoreAssumption, DoneBefore,
                              KeepsCompletions
    <3>2. /\ Go(c, "claim") /\ at' = [at EXCEPT ![c] = s]
          /\ attempt' = [attempt EXCEPT ![c] = attempt[c] + 1]
          /\ todo' = [todo EXCEPT ![c] = todo[c]]
      BY <1>9, <1>0, <2>3 DEF BackOff, CallsInOrder
    <3> QED BY <2>1, <3>1, <3>2, <1>a, CallMoves DEF Points
  <2> QED BY <2>2, <2>3
<1>10. CASE Remount(c)
  <2>1. StoreInOrder' /\ KeepsCompletions
    BY <1>10, StoreUntouched DEF Remount
  <2>2. CASE mounted[Engine[c]]
    <3>1. LoggedFor("StepCompleted", s)
      BY <1>10, <1>0 DEF Remount, CallsInOrder, CallInOrder
    <3>2. s + 1 \in 0..NumSteps
      BY <1>a, StoreAssumption DEF StoreAssumption
    <3>3. \A t \in Steps : t < s + 1 => LoggedFor("StepCompleted", t)'
      <4>1. \A t \in Steps : t < s + 1 => t < s \/ t = s
        BY <1>a DEF Steps
      <4> QED BY <4>1, <3>1, <1>a, <2>1 DEF KeepsCompletions, DoneBefore
    <3>4. DoneBefore(s + 1)'
      BY <3>3 DEF DoneBefore
    <3>5. /\ Go(c, "drive") /\ at' = [at EXCEPT ![c] = s + 1]
          /\ attempt' = [attempt EXCEPT ![c] = attempt[c]]
          /\ todo' = [todo EXCEPT ![c] = todo[c]]
      BY <1>10, <1>0, <2>2 DEF Remount, CallsInOrder
    <3> QED BY <2>1, <3>2, <3>4, <3>5, <1>a, CallMoves DEF Points, InStep
  <2>3. CASE ~ mounted[Engine[c]]
    <3>1. Go(c, "error") /\ UNCHANGED <<at, attempt, todo>>
      BY <1>10, <2>3 DEF Remount
    <3> QED BY <2>1, <3>1, CallGoes DEF Points, Ended, InStep
  <2> QED BY <2>2, <2>3
<1> QED BY <1>1, <1>2, <1>3, <1>4, <1>5, <1>6, <1>7, <1>8, <1>9, <1>10

\* Where a resume begins is read off the log, and the log is in order
\* (engine.rs:227-247, 707-788).
LEMMA ResumePoint ==
    ASSUME StoreAssumption, StoreInOrder, NEW s \in Steps, StatusFromLog(s) = "waiting"
    PROVE  /\ DoneBefore(s)
           /\ AttemptFromLog(s) \in Attempts /\ Allowed(AttemptFromLog(s))
<1>0. DOMAIN log = 1..Len(log) /\ \A i \in DOMAIN log : log[i] \in Events
  BY DEF StoreInOrder, StoreTypeOK
<1>1. Positions(StepEvents, s) # {}
  BY DEF StatusFromLog
<1>2. PICK i \in DOMAIN log : log[i].step = s
  BY <1>1 DEF Positions
<1>3. DoneBefore(s)
  BY <1>0, <1>2 DEF StoreInOrder, EventsInOrder, DoneBefore, LoggedFor
<1>4. CASE Positions({"StepStarted", "RetryScheduled"}, s) = {}
  BY <1>3, <1>4 DEF AttemptFromLog, Attempts, Allowed, StoreAssumption
<1>5. CASE Positions({"StepStarted", "RetryScheduled"}, s) # {}
  <2>1. \E j \in DOMAIN log : AttemptFromLog(s) = log[j].attempt
    BY <1>5, LastEventIsLogged DEF AttemptFromLog, StoreInOrder, Positions
  <2> QED BY <1>0, <1>3, <2>1 DEF Events, StoreInOrder, AttemptsAllowed
<1> QED BY <1>4, <1>5

\* Making a call, and the actions of resume and recover up to the step
\* (engine.rs:141-186, 204-271, 394-421, recovery.rs:4-15).
LEMMA OtherCalls ==
    ASSUME StoreAssumption, EngineAssumption, StoreInOrder, CallsInOrder, NEW c \in Calls,
           \/ Begin(c) \/ ResumeLookup(c) \/ RecordResumed(c)
           \/ (\E x \in todo[c] : Readmit(c, x)) \/ ReadmitLookup(c)
    PROVE  StoreInOrder' /\ CallsInOrder'
<1>1. CASE Refuse(c) \/ Register(c) \/ Run(c) \/ CancelLoad(c)
  <2>1. StoreInOrder' /\ KeepsCompletions
    BY <1>1, StoreUntouched DEF Refuse, Register, Run, CancelLoad
  <2>2. \E p \in {"ok", "start", "cancel", "error"} : Go(c, p)
    BY <1>1 DEF Refuse, Register, Run, CancelLoad
  <2>3. UNCHANGED <<at, attempt, todo>>
    BY <1>1 DEF Refuse, Register, Run, CancelLoad, OnlyPoint
  <2> QED BY <2>1, <2>2, <2>3, CallGoes DEF Points, Ended, InStep
<1>2. CASE ResumeLoad(c)
  <2>1. StoreInOrder' /\ KeepsCompletions
    BY <1>2, StoreUntouched DEF ResumeLoad
  <2>2. CASE IsCancelled \/ StatusFromLog(Target[c]) # "waiting"
    <3>1. Go(c, "error") /\ UNCHANGED <<at, attempt, todo>>
      BY <1>2, <2>2 DEF ResumeLoad
    <3> QED BY <2>1, <3>1, CallGoes DEF Points, Ended, InStep
  <2>3. CASE ~ (IsCancelled \/ StatusFromLog(Target[c]) # "waiting")
    <3>0. PICK s \in Steps, a \in Attempts :
            /\ s = Target[c] /\ a = AttemptFromLog(s) /\ Allowed(a) /\ DoneBefore(s)
      BY <2>3, ResumePoint, EngineAssumption DEF EngineAssumption
    <3>1. s \in 0..NumSteps /\ s < NumSteps /\ DoneBefore(s)'
      BY <3>0, <2>1 DEF Steps, StoreAssumption, DoneBefore, KeepsCompletions
    <3>2. /\ Go(c, "lookup") /\ at' = [at EXCEPT ![c] = s]
          /\ attempt' = [attempt EXCEPT ![c] = a]
          /\ todo' = [todo EXCEPT ![c] = todo[c]]
      BY <1>2, <2>3, <3>0 DEF ResumeLoad, CallsInOrder
    <3> QED BY <2>1, <3>0, <3>1, <3>2, CallMoves DEF Points
  <2> QED BY <2>2, <2>3
<1>3. CASE RecoverLoad(c)
  <2>1. StoreInOrder' /\ KeepsCompletions
    BY <1>3, StoreUntouched DEF RecoverLoad
  <2>2. ExpiredLeases \in SUBSET [step : Steps, attempt : Attempts]
    BY DEF ExpiredLeases, StoreInOrder, StoreTypeOK, Rows
  <2>3. \A x \in ExpiredLeases : DoneBefore(x.step)' /\ Allowed(x.attempt)
    BY <2>1 DEF ExpiredLeases, StoreInOrder, RowsInOrder, AttemptsAllowed, DoneBefore,
                KeepsCompletions
  <2>4. \A d \in Calls : CallInOrder(d)'
    <3>1. ASSUME NEW d \in Calls, d # c PROVE CallInOrder(d)'
      <4>1. /\ pc'[d] = pc[d] /\ at'[d] = at[d]
            /\ attempt'[d] = attempt[d] /\ todo'[d] = todo[d]
        BY <1>3, <3>1 DEF RecoverLoad, Go, CallsInOrder
      <4> QED BY <2>1, <4>1, CallUntouched DEF CallsInOrder
    <3>2. CallInOrder(c)'
      <4>1. /\ pc'[c] = "next" /\ at'[c] = at[c] /\ attempt'[c] = attempt[c]
            /\ todo'[c] = ExpiredLeases
        BY <1>3 DEF RecoverLoad, Go, CallsInOrder
      <4>2. DoneBefore(at[c]) /\ Allowed(attempt[c])
        BY DEF CallsInOrder, CallInOrder
      <4>3. \A s : DoneBefore(s) => DoneBefore(s)'
        BY <2>1 DEF DoneBefore, KeepsCompletions
      <4> QED BY <2>3, <4>1, <4>2, <4>3 DEF CallInOrder, InStep, Allowed
    <3> QED BY <3>1, <3>2
  <2> QED BY <1>3, <2>1, <2>2, <2>4 DEF RecoverLoad, Go, CallsInOrder, Points
<1>4. CASE ResumeLookup(c)
  <2>1. StoreInOrder' /\ KeepsCompletions
    BY <1>4, StoreUntouched DEF ResumeLookup
  <2>2. (\E p \in {"resume", "error"} : Go(c, p)) /\ UNCHANGED <<at, attempt, todo>>
    BY <1>4 DEF ResumeLookup, OnlyPoint
  <2>3. at[c] < NumSteps
    BY <1>4 DEF ResumeLookup, CallsInOrder, CallInOrder, InStep
  <2> QED BY <2>1, <2>2, <2>3, CallGoes DEF Points, Ended
<1>5. CASE RecordResumed(c)
  <2>1. StoreInOrder' /\ KeepsCompletions
    BY <1>5, StepIsAppended DEF RecordResumed, StepEvents, InStep
  <2>2. at[c] < NumSteps
    BY <1>5 DEF RecordResumed, CallsInOrder, CallInOrder, InStep
  <2> QED BY <1>5, <2>1, <2>2, CallGoes DEF RecordResumed, OnlyPoint, Points
<1>6. CASE \E x \in todo[c] : Readmit(c, x)
  <2>0. PICK x \in todo[c] : Readmit(c, x)
    BY <1>6
  <2>1. PICK s \in Steps, a \in Attempts :
          /\ s = x.step /\ a = x.attempt /\ Allowed(a) /\ DoneBefore(s)
    BY DEF CallsInOrder, CallInOrder
  <2>2. StoreInOrder' /\ KeepsCompletions
    BY <2>0, <2>1, AppendInOrder DEF Readmit, StepEvents
  <2>3. s \in 0..NumSteps /\ s < NumSteps /\ DoneBefore(s)'
    BY <2>1, <2>2 DEF Steps, StoreAssumption, DoneBefore, KeepsCompletions
  <2>4. /\ Go(c, "relookup") /\ at' = [at EXCEPT ![c] = s]
        /\ attempt' = [attempt EXCEPT ![c] = a]
        /\ todo' = [todo EXCEPT ![c] = todo[c] \ {x}]
    BY <2>0, <2>1 DEF Readmit, CallsInOrder
  <2>5. "relookup" \in Points /\ todo[c] \ {x} \subseteq todo[c]
    BY DEF Points
  <2> QED BY <2>1, <2>2, <2>3, <2>4, <2>5, CallMoves
<1>7. CASE ReadmitLookup(c)
  <2>1. StoreInOrder' /\ KeepsCompletions
    BY <1>7, StoreUntouched DEF ReadmitLookup
  <2>2. UNCHANGED <<at, attempt, todo>> /\ (Go(c, "claim") \/ Leave(c))
    BY <1>7 DEF ReadmitLookup, OnlyPoint
  <2>3. at[c] < NumSteps
    BY <1>7 DEF ReadmitLookup, CallsInOrder, CallInOrder, InStep
  <2> QED BY <2>1, <2>2, <2>3, CallGoes, LeaveInOrder DEF Points
<1> QED BY <1>1, <1>2, <1>3, <1>4, <1>5, <1>6, <1>7 DEF Begin

\* The deadline, the renewal tick, the jobs and the faults (engine.rs:466-516,
\* worker.rs:17-43).
LEMMA TimeJobsAndFaults ==
    ASSUME StoreAssumption, EngineAssumption, StoreInOrder, CallsInOrder,
           \/ \E c \in Calls : Renew(c) \/ TimeOut(c) \/ StoreFails(c) \/ Abandon(c)
           \/ \E w \in Workers, k \in Steps \X Attempts :
                 BodyStarts(w, k) \/ \E o \in Bodies : BodyEnds(w, k, o)
           \/ \E s \in Steps : LeaseExpires(s)
           \/ \E w \in Workers : Crash(w) \/ Restart(w)
           \/ UNCHANGED vars
    PROVE  StoreInOrder' /\ CallsInOrder'
<1>1. ASSUME NEW c \in Calls, Renew(c) PROVE StoreInOrder' /\ CallsInOrder'
  <2>1. at[c] \in Steps /\ Engine[c] \in Workers
    BY <1>1, InStepFacts, EngineAssumption DEF Renew, InStep, EngineAssumption
  <2>2. StoreInOrder' /\ KeepsCompletions
    BY <1>1, <2>1, LeaseInOrder DEF Renew
  <2> QED BY <1>1, <2>2, CallsUntouched DEF Renew, calls
<1>2. ASSUME NEW c \in Calls, TimeOut(c) PROVE StoreInOrder' /\ CallsInOrder'
  <2>1. StoreInOrder' /\ KeepsCompletions
    BY <1>2, StoreUntouched DEF TimeOut
  <2>2. at[c] < NumSteps
    BY <1>2 DEF TimeOut, CallsInOrder, CallInOrder, InStep
  <2> QED BY <1>2, <2>1, <2>2, CallGoes DEF TimeOut, OnlyPoint, Points
<1>3. ASSUME NEW c \in Calls, StoreFails(c) PROVE StoreInOrder' /\ CallsInOrder'
  <2>1. StoreInOrder' /\ KeepsCompletions
    BY <1>3, StoreUntouched DEF StoreFails
  <2>2. (\E p \in {"unmount", "error"} : Go(c, p)) /\ UNCHANGED <<at, attempt, todo>>
    BY <1>3 DEF StoreFails
  <2> QED BY <2>1, <2>2, CallGoes DEF Points, Ended, InStep
<1>4. CASE \E w \in Workers, k \in Steps \X Attempts :
             BodyStarts(w, k) \/ \E o \in Bodies : BodyEnds(w, k, o)
  BY <1>4, StoreUntouched, CallsUntouched DEF BodyStarts, BodyEnds, calls
<1>5. ASSUME NEW s \in Steps, LeaseExpires(s) PROVE StoreInOrder' /\ CallsInOrder'
  BY <1>5, LeaseInOrder, CallsUntouched DEF LeaseExpires, calls
<1>6. ASSUME NEW w \in Workers, Crash(w) PROVE StoreInOrder' /\ CallsInOrder'
  <2>1. StoreInOrder' /\ KeepsCompletions
    BY <1>6, StoreUntouched DEF Crash
  <2>2. /\ UNCHANGED <<at, attempt, todo>>
        /\ pc' \in [Calls -> Points]
        /\ \A d \in Calls : pc'[d] = pc[d] \/ pc'[d] = "dead"
    BY <1>6 DEF Crash, CallsInOrder, Points, Ended
  <2>3. ASSUME NEW d \in Calls PROVE CallInOrder(d)'
    <3>1. CASE pc'[d] = pc[d]
      BY <2>1, <2>2, <3>1, CallUntouched DEF CallsInOrder
    <3>2. CASE pc'[d] = "dead"
      BY <2>1, <2>2, <3>2 DEF CallsInOrder, CallInOrder, InStep, DoneBefore,
                              KeepsCompletions, Allowed
    <3> QED BY <2>2, <3>1, <3>2
  <2> QED BY <2>1, <2>2, <2>3 DEF CallsInOrder
<1>7. ASSUME NEW w \in Workers, Restart(w) PROVE StoreInOrder' /\ CallsInOrder'
  BY <1>7, StoreUntouched, CallsUntouched DEF Restart, calls
<1>8. CASE UNCHANGED vars
  BY <1>8, StoreUntouched, CallsUntouched DEF vars, calls
<1>9. ASSUME NEW c \in Calls, Abandon(c) PROVE StoreInOrder' /\ CallsInOrder'
  <2>1. StoreInOrder' /\ KeepsCompletions
    BY <1>9, StoreUntouched DEF Abandon
  <2>2. Go(c, "dead") /\ UNCHANGED <<at, attempt, todo>>
    BY <1>9 DEF Abandon
  <2> QED BY <2>1, <2>2, CallGoes DEF Points, Ended, InStep
<1> QED BY <1>1, <1>2, <1>3, <1>4, <1>5, <1>6, <1>7, <1>8, <1>9

\* No action leaves the types of locks, registrations, jobs and answers.
LEMMA OthersKeepTypes ==
    ASSUME StoreAssumption, EngineAssumption, OthersTypeOK, CallsInOrder, [Next]_vars
    PROVE  OthersTypeOK'
<1>0. \A c \in Calls : Engine[c] \in Workers
  BY EngineAssumption DEF EngineAssumption
<1>1. CASE \E c \in Calls : \/ RecordStarted(c) \/ DriveStep(c) \/ RecordCompleted(c)
                             \/ Claim(c) \/ RecordStepStarted(c)
                             \/ RecordStepCompleted(c) \/ RecordStepWaiting(c)
                             \/ RecordStepFailed(c) \/ RecordRetryScheduled(c)
                             \/ BackOff(c) \/ RecordWorkflowFailed(c)
                             \/ RecordCancelled(c) \/ ResumeLookup(c)
                             \/ RecordResumed(c) \/ RecoverEnds(c)
                             \/ ReadmitLookup(c) \/ ResumeLoad(c) \/ RecoverLoad(c)
                             \/ Refuse(c) \/ Renew(c) \/ TimeOut(c)
  <2>1. UNCHANGED <<engines, driving, answer, faults>>
    BY <1>1 DEF RecordStarted, DriveStep, RecordCompleted, Claim, RecordStepStarted,
                RecordStepCompleted, RecordStepWaiting, RecordStepFailed,
                RecordRetryScheduled, BackOff, RecordWorkflowFailed, RecordCancelled,
                ResumeLookup, RecordResumed, RecoverEnds, ReadmitLookup, ResumeLoad,
                RecoverLoad, Refuse, Renew, TimeOut, OnlyPoint, calls
  <2> QED BY <2>1 DEF OthersTypeOK, engines
<1>2. ASSUME NEW c \in Calls, Register(c) \/ Run(c) \/ Unregister(c) \/ Unmount(c) \/ Forget(c)
                              \/ Finish(c) \/ CancelLoad(c)
      PROVE  OthersTypeOK'
  <2>1. UNCHANGED <<up, job, driving, answer, faults>>
    BY <1>2 DEF Register, Run, Unregister, Unmount, Forget, Finish, CancelLoad, OnlyPoint
  <2>2. mounted' \in [Workers -> BOOLEAN]
    BY <1>2 DEF Register, Run, Unregister, Unmount, Forget, Finish, CancelLoad, OthersTypeOK
  <2>3. lock' \in [Workers -> Calls \union {Nobody}]
    BY <1>2 DEF Register, Run, Unregister, Unmount, Forget, Finish, CancelLoad, OthersTypeOK
  <2> QED BY <2>1, <2>2, <2>3 DEF OthersTypeOK
<1>3. ASSUME NEW c \in Calls,
             Mount(c) \/ Remount(c) \/ Resolve(c) \/ (\E x \in todo[c] : Readmit(c, x))
      PROVE  OthersTypeOK'
  <2>1. UNCHANGED <<engines, faults>>
    BY <1>3 DEF Mount, Remount, Resolve, Readmit
  <2>2. \E b \in BOOLEAN :
          /\ driving' = driving \/ driving' = [driving EXCEPT ![c] = b]
          /\ answer' = answer \/ answer' = [answer EXCEPT ![c] = "none"]
    BY <1>3 DEF Mount, Remount, Resolve, Readmit
  <2> QED BY <2>1, <2>2 DEF OthersTypeOK, engines
<1>a. ASSUME NEW c \in Calls, pc[c] \in InStep, NEW st \in JobStates,
             job' = job \/ SetJob(Engine[c], JobOf(c), st)
      PROVE  job' \in [Workers -> [Steps \X Attempts -> JobStates]]
  <2>1. JobOf(c) \in Steps \X Attempts
    BY <1>a, InStepFacts DEF JobOf
  <2>2. PICK w \in Workers, k \in Steps \X Attempts : w = Engine[c] /\ k = JobOf(c)
    BY <1>0, <2>1
  <2>3. job' = job \/ job' = [job EXCEPT ![w][k] = st]
    BY <1>a, <2>2 DEF SetJob
  <2>4. CASE job' = job
    BY <2>4 DEF OthersTypeOK
  <2>5. CASE job' = [job EXCEPT ![w][k] = st]
    BY <2>5 DEF OthersTypeOK
  <2> QED BY <2>3, <2>4, <2>5
<1>4. ASSUME NEW c \in Calls, Push(c) \/ Send(c) PROVE OthersTypeOK'
  <2>1. /\ pc[c] \in InStep /\ UNCHANGED <<up, mounted, lock, driving, answer, faults>>
        /\ \E st \in JobStates : job' = job \/ SetJob(Engine[c], JobOf(c), st)
    BY <1>4 DEF Push, Send, OnlyPoint, InStep, JobStates
  <2>2. job' \in [Workers -> [Steps \X Attempts -> JobStates]]
    BY <1>a, <2>1
  <2> QED BY <2>1, <2>2 DEF OthersTypeOK
<1>5. ASSUME NEW w \in Workers, NEW k \in Steps \X Attempts, BodyStarts(w, k)
      PROVE  OthersTypeOK'
  BY <1>5 DEF BodyStarts, SetJob, OthersTypeOK, JobStates, calls
<1>6. ASSUME NEW w \in Workers, NEW k \in Steps \X Attempts, NEW o \in Bodies, BodyEnds(w, k, o)
      PROVE  OthersTypeOK'
  <2>1. o \in {"ok", "fail", "wait", "fatal"}
    BY EngineAssumption DEF EngineAssumption
  <2>2. answer' \in [Calls -> {"none", "ok", "fail", "wait", "fatal", "lost"}]
    BY <1>6, <2>1 DEF BodyEnds, OthersTypeOK
  <2>3. job' \in [Workers -> [Steps \X Attempts -> JobStates]]
    BY <1>6, <2>1 DEF BodyEnds, SetJob, OthersTypeOK, JobStates
  <2> QED BY <1>6, <2>2, <2>3 DEF BodyEnds, OthersTypeOK
<1>7. ASSUME NEW c \in Calls, StoreFails(c) PROVE OthersTypeOK'
  <2>1. faults' \in 0..MaxFaults
    BY <1>7, EngineAssumption DEF StoreFails, OthersTypeOK, EngineAssumption
  <2>2. lock' = lock \/ lock' = [lock EXCEPT ![Engine[c]] = Nobody]
    BY <1>7 DEF StoreFails
  <2> QED BY <1>7, <1>0, <2>1, <2>2 DEF StoreFails, OthersTypeOK
<1>8. ASSUME NEW w \in Workers, Crash(w) PROVE OthersTypeOK'
  <2>1. faults' \in 0..MaxFaults
    BY <1>8, EngineAssumption DEF Crash, OthersTypeOK, EngineAssumption
  <2>2. NoJobs \in [Steps \X Attempts -> JobStates]
    BY DEF NoJobs, JobStates
  <2> QED BY <1>8, <2>1, <2>2 DEF Crash, OthersTypeOK
<1>9. CASE \E w \in Workers : Restart(w)
  BY <1>9 DEF Restart, OthersTypeOK, calls
<1>10. CASE \E s \in Steps : LeaseExpires(s)
  BY <1>10 DEF LeaseExpires, OthersTypeOK, engines, calls
<1>11. CASE UNCHANGED vars
  BY <1>11 DEF vars, OthersTypeOK, engines, calls
<1>12. ASSUME NEW c \in Calls, Abandon(c) PROVE OthersTypeOK'
  <2>1. faults' \in 0..MaxFaults
    BY <1>12, EngineAssumption DEF Abandon, OthersTypeOK, EngineAssumption
  <2>2. /\ pc[c] \in InStep /\ UNCHANGED <<up, mounted, lock, driving>>
        /\ job' = job \/ SetJob(Engine[c], JobOf(c), "none")
        /\ \A d \in Calls : answer'[d] \in {answer[d], "lost"}
        /\ answer' = [d \in Calls |-> answer'[d]]
    BY <1>12 DEF Abandon, InStep, OthersTypeOK
  <2>3. job' \in [Workers -> [Steps \X Attempts -> JobStates]]
    BY <1>a, <2>2 DEF JobStates
  <2>4. answer' \in [Calls -> {"none", "ok", "fail", "wait", "fatal", "lost"}]
    BY <2>2 DEF OthersTypeOK
  <2> QED BY <2>1, <2>2, <2>3, <2>4 DEF OthersTypeOK
<1> QED
  BY <1>1, <1>2, <1>3, <1>4, <1>5, <1>6, <1>7, <1>8, <1>9, <1>10, <1>11, <1>12
     DEF Next, Begin, Step, Quiet

(***************************************************************************)
(* The theorems                                                            *)
(***************************************************************************)

LEMMA InOrderInit == StoreAssumption /\ EngineAssumption /\ Init => InOrder
<1> SUFFICES ASSUME StoreAssumption, EngineAssumption, Init PROVE InOrder
  OBVIOUS
<1>1. 0 \in Attempts /\ Allowed(0) /\ 0 \in 0..NumSteps /\ DoneBefore(0)
  BY DEF Attempts, Allowed, DoneBefore, Steps, StoreAssumption
<1>2. StoreInOrder
  BY <1>1 DEF Init, StoreInit, StoreInOrder, StoreTypeOK, EventsInOrder, RowsInOrder,
              AttemptsAllowed, CompletedMeansAllSteps, Logged, Rows, NoRow
<1>3. CallsInOrder
  BY <1>1 DEF Init, CallsInOrder, CallInOrder, Points, InStep
<1>4. OthersTypeOK
  BY EngineAssumption DEF Init, OthersTypeOK, NoJobs, JobStates, EngineAssumption
<1> QED BY <1>2, <1>3, <1>4 DEF InOrder

LEMMA InOrderNext ==
    ASSUME StoreAssumption, EngineAssumption, InOrder, [Next]_vars
    PROVE  InOrder'
<1>0. StoreInOrder /\ CallsInOrder /\ OthersTypeOK
  BY DEF InOrder
<1>1. ASSUME NEW c \in Calls, Begin(c) \/ Step(c) PROVE StoreInOrder' /\ CallsInOrder'
  BY <1>0, <1>1, BetweenSteps, WithinStep, OtherCalls DEF Step
<1>2. ASSUME ~ \E c \in Calls : Begin(c) \/ Step(c) PROVE StoreInOrder' /\ CallsInOrder'
  <2>1. \/ \E c \in Calls : Renew(c) \/ TimeOut(c) \/ StoreFails(c) \/ Abandon(c)
        \/ \E w \in Workers, k \in Steps \X Attempts :
              BodyStarts(w, k) \/ \E o \in Bodies : BodyEnds(w, k, o)
        \/ \E s \in Steps : LeaseExpires(s)
        \/ \E w \in Workers : Crash(w) \/ Restart(w)
        \/ UNCHANGED vars
    BY <1>2, Zenon DEF Next, Quiet
  <2> QED BY <1>0, <2>1, TimeJobsAndFaults
<1>3. OthersTypeOK'
  BY <1>0, OthersKeepTypes
<1> QED BY <1>1, <1>2, <1>3 DEF InOrder

\* Steps, attempts and completions are in order in every reachable state, whatever
\* the number of engines and calls and whichever faults there are
\* (engine.rs:309-352, 562-661, recovery.rs:4-15).
THEOREM EngineInOrder == Spec => []InOrder
<1>1. Init => InOrder
  BY InOrderInit, StoreAssumption, EngineAssumption
<1>2. InOrder /\ [Next]_vars => InOrder'
  BY InOrderNext, StoreAssumption, EngineAssumption
<1> QED BY <1>1, <1>2, PTL DEF Spec

\* Types hold, and no attempt number leaves the policy's range.
THEOREM EngineTypeCorrect == Spec => []EngineTypeOK
<1>1. InOrder => EngineTypeOK
  BY DEF InOrder, StoreInOrder, CallsInOrder, OthersTypeOK, EngineTypeOK
<1> QED BY <1>1, EngineInOrder, PTL

\* The log, the rows and the calls agree on how far the workflow has come.
THEOREM ProgressIsInOrder == Spec => []ProgressInOrder
<1>1. InOrder => ProgressInOrder
  BY DEF InOrder, StoreInOrder, CallsInOrder, ProgressInOrder
<1> QED BY <1>1, EngineInOrder, PTL

\* No step is started before the step before it is completed, across overlapping
\* runs and resumes, stalled engines, crashes and recoveries.
THEOREM StepsStartInOrder == Spec => []StepsInOrder
<1>1. InOrder => StepsInOrder
  <2> SUFFICES ASSUME InOrder, NEW i \in DOMAIN log,
                      log[i].type = "StepStarted", log[i].step > 0
               PROVE  \E j \in 1..(i - 1) : /\ log[j].type = "StepCompleted"
                                            /\ log[j].step = log[i].step - 1
    BY DEF StepsInOrder
  <2>0. log[i] \in Events
    BY DEF InOrder, StoreInOrder, StoreTypeOK
  <2>1. log[i].step \in Steps \union {NoStep}
    BY <2>0, Zenon DEF Events
  <2>2. log[i].step \in Nat /\ log[i].step < NumSteps /\ NumSteps \in Nat
    BY <2>1, StoreAssumption DEF Steps, NoStep, StoreAssumption
  <2>3. log[i].step - 1 \in Steps /\ log[i].step - 1 < log[i].step
    BY <2>2 DEF Steps
  <2> QED BY <2>3 DEF InOrder, StoreInOrder, EventsInOrder
<1> QED BY <1>1, EngineInOrder, PTL

\* A workflow on record as completed has every step on record as completed.
THEOREM CompletedWorkflowsAreDone == Spec => []CompletedMeansAllSteps
<1>1. InOrder => CompletedMeansAllSteps
  BY DEF InOrder, StoreInOrder
<1> QED BY <1>1, EngineInOrder, PTL

\* No attempt beyond the retry policy is ever started.
THEOREM RetriesAreBounded == Spec => []AttemptsBounded
<1>1. InOrder => AttemptsBounded
  BY DEF InOrder, StoreInOrder, AttemptsAllowed, Allowed, AttemptsBounded
<1> QED BY <1>1, EngineInOrder, PTL

(***************************************************************************)
(* terminal_write: of completion and cancellation one, once, for the calls *)
(* of one engine                                                           *)
(***************************************************************************)

OneEngine == \A c, d \in Calls : Engine[c] = Engine[d]

Ends == {"WorkflowCompleted", "WorkflowCancelled"}

\* The points at which a call holds terminal_write.
Guarded == {"record", "leave", "cancel", "forget"}

EndsOnce ==
    /\ \A c \in Calls : pc[c] \in Guarded => lock[Engine[c]] = c
    /\ \A c \in Calls : pc[c] \in {"record", "cancel"} =>
                           \A i \in DOMAIN log : log[i].type \notin Ends
    /\ \A i, j \in DOMAIN log : log[i].type \in Ends /\ log[j].type \in Ends => i = j

\* One event more, or none.
LogGrowsBy(types) ==
    \/ log' = log
    \/ \E e \in [type : types, step : Steps \union {NoStep}, attempt : Attempts, by : Calls] :
          log' = Append(log, e)

LEMMA AppendGrows ==
    ASSUME StoreAssumption, StoreInOrder, CallsInOrder, NEW c \in Calls,
           NEW types, NEW type \in types,
           (AppendStep(c, type) /\ pc[c] \in InStep) \/ AppendWorkflow(c, type)
    PROVE  LogGrowsBy(types)
<1>1. CASE AppendStep(c, type) /\ pc[c] \in InStep
  <2>1. at[c] \in Steps /\ attempt[c] \in Attempts
    BY <1>1, InStepFacts
  <2> QED BY <1>1, <2>1 DEF AppendStep, AppendEvent, LogGrowsBy
<1>2. CASE AppendWorkflow(c, type)
  <2>1. 0 \in Attempts
    BY DEF Attempts, StoreAssumption
  <2> QED BY <1>2, <2>1 DEF AppendWorkflow, AppendEvent, LogGrowsBy
<1> QED BY <1>1, <1>2

\* Steps that neither touch the lock nor come to hold it, and record no end.
LEMMA OutsideLock ==
    ASSUME StoreInOrder, EndsOnce, UNCHANGED lock,
           \A c \in Calls : pc'[c] = pc[c] \/ pc'[c] \notin Guarded,
           LogGrowsBy(StepEvents \union {"WorkflowStarted", "WorkflowFailed"})
    PROVE  EndsOnce'
<1>1. \A i \in DOMAIN log' : log'[i].type \in Ends => i \in DOMAIN log /\ log'[i] = log[i]
  BY DEF LogGrowsBy, StoreInOrder, StoreTypeOK, StepEvents, Ends
<1>2. \A c \in Calls : pc'[c] \in {"record", "cancel"} => pc[c] \in {"record", "cancel"}
  BY DEF Guarded
<1>3. \A c \in Calls : pc'[c] \in Guarded => lock'[Engine[c]] = c
  BY DEF EndsOnce
<1> QED BY <1>1, <1>2, <1>3 DEF EndsOnce

\* The actions of a call that have nothing to do with terminal_write.
LEMMA FreeActionsEndOnce ==
    ASSUME StoreAssumption, StoreInOrder, CallsInOrder, EndsOnce, NEW c \in Calls,
           \/ RecordStarted(c) \/ Mount(c) \/ DriveStep(c) \/ Claim(c)
           \/ RecordStepStarted(c) \/ Push(c) \/ Send(c) \/ Resolve(c) \/ Abandon(c)
           \/ RecordStepCompleted(c) \/ RecordStepWaiting(c) \/ RecordStepFailed(c)
           \/ RecordRetryScheduled(c) \/ BackOff(c) \/ RecordWorkflowFailed(c)
           \/ Unmount(c) \/ Remount(c) \/ ResumeLookup(c) \/ RecordResumed(c)
           \/ RecoverEnds(c) \/ (\E x \in todo[c] : Readmit(c, x)) \/ ReadmitLookup(c)
           \/ Refuse(c) \/ Register(c) \/ Run(c) \/ ResumeLoad(c) \/ RecoverLoad(c)
           \/ Renew(c) \/ TimeOut(c)
    PROVE  EndsOnce'
<1> DEFINE types == StepEvents \union {"WorkflowStarted", "WorkflowFailed"}
<1>1. \A p \in Points \ Guarded : Go(c, p) =>
          \A d \in Calls : pc'[d] = pc[d] \/ pc'[d] \notin Guarded
  BY DEF Go, CallsInOrder
<1>2. /\ Leave(c) => \E p \in Points \ Guarded : Go(c, p)
      /\ StepDone(c) => \E p \in Points \ Guarded : Go(c, p)
  BY DEF Leave, StepDone, Points, Ended, Guarded
<1>3. CASE \/ Mount(c) \/ DriveStep(c) \/ Claim(c) \/ Push(c) \/ Send(c) \/ Resolve(c)
           \/ Abandon(c) \/ BackOff(c)
           \/ Unmount(c) \/ Remount(c) \/ ResumeLookup(c) \/ RecoverEnds(c)
           \/ ReadmitLookup(c) \/ Refuse(c) \/ Register(c) \/ Run(c) \/ ResumeLoad(c)
           \/ RecoverLoad(c) \/ TimeOut(c)
  <2>1. UNCHANGED <<lock, log>>
    BY <1>3 DEF Mount, DriveStep, Claim, Push, Send, Resolve, Abandon, BackOff, Unmount, Remount,
                ResumeLookup, RecoverEnds, ReadmitLookup, Refuse, Register, Run, ResumeLoad,
                RecoverLoad, TimeOut, store, engines
  <2>2. \E p \in Points \ Guarded : Go(c, p)
    <3>1. CASE Mount(c) \/ DriveStep(c) \/ Claim(c) \/ BackOff(c) \/ Remount(c) \/ ReadmitLookup(c)
      BY <3>1, <1>2 DEF Mount, DriveStep, Claim, BackOff, Remount, ReadmitLookup, Points,
                        Ended, Guarded
    <3>2. CASE \/ Push(c) \/ Send(c) \/ Resolve(c) \/ Abandon(c) \/ Unmount(c)
               \/ ResumeLookup(c) \/ TimeOut(c)
      BY <3>2 DEF Push, Send, Resolve, Verdict, Abandon, Unmount, ResumeLookup, TimeOut,
                  Points, Ended, Guarded
    <3>3. CASE \/ RecoverEnds(c) \/ Refuse(c) \/ Register(c) \/ Run(c)
               \/ ResumeLoad(c) \/ RecoverLoad(c)
      BY <3>3 DEF RecoverEnds, Refuse, Register, Run, ResumeLoad, RecoverLoad, Points,
                  Ended, Guarded
    <3> QED BY <1>3, <3>1, <3>2, <3>3
  <2> QED BY <1>1, <2>1, <2>2, OutsideLock DEF LogGrowsBy
<1>4. CASE Renew(c)
  BY <1>4, OutsideLock DEF Renew, engines, calls, LogGrowsBy
<1>5. CASE \/ RecordStepStarted(c) \/ RecordStepCompleted(c) \/ RecordStepWaiting(c)
           \/ RecordStepFailed(c) \/ RecordResumed(c)
  <2>1. UNCHANGED lock
    BY <1>5 DEF RecordStepStarted, RecordStepCompleted, RecordStepWaiting, RecordStepFailed,
                RecordResumed, engines
  <2>2. \E p \in Points \ Guarded : Go(c, p)
    BY <1>5, <1>2 DEF RecordStepStarted, RecordStepCompleted, RecordStepWaiting,
                      RecordStepFailed, RecordResumed, Points, Ended, Guarded
  <2>3. pc[c] \in InStep /\ \E type \in types : AppendStep(c, type)
    BY <1>5 DEF RecordStepStarted, RecordStepCompleted, RecordStepWaiting, RecordStepFailed,
                RecordResumed, InStep, StepEvents
  <2>4. LogGrowsBy(types)
    BY <2>3, AppendGrows
  <2> QED BY <1>1, <2>1, <2>2, <2>4, OutsideLock
<1>6. CASE RecordStarted(c) \/ RecordWorkflowFailed(c)
  <2>1. UNCHANGED lock /\ \E type \in types : AppendWorkflow(c, type)
    BY <1>6 DEF RecordStarted, RecordWorkflowFailed, engines
  <2>2. \E p \in Points \ Guarded : Go(c, p)
    BY <1>6 DEF RecordStarted, RecordWorkflowFailed, Points, Guarded
  <2>3. LogGrowsBy(types)
    BY <2>1, AppendGrows
  <2> QED BY <1>1, <2>1, <2>2, <2>3, OutsideLock
<1>7. CASE RecordRetryScheduled(c)
  <2>1. UNCHANGED lock /\ \E p \in Points \ Guarded : Go(c, p)
    BY <1>7 DEF RecordRetryScheduled, engines, Points, Guarded
  <2>2. at[c] \in Steps /\ attempt[c] + 1 \in Attempts
    BY <1>7, InStepFacts DEF RecordRetryScheduled, InStep, CallsInOrder, CallInOrder,
                             MayRetry, Attempts, StoreAssumption
  <2>3. LogGrowsBy(types)
    BY <1>7, <2>2 DEF RecordRetryScheduled, AppendEvent, LogGrowsBy, StepEvents
  <2> QED BY <1>1, <2>1, <2>3, OutsideLock
<1>8. CASE \E x \in todo[c] : Readmit(c, x)
  <2>0. PICK x \in todo[c] : Readmit(c, x)
    BY <1>8
  <2>1. UNCHANGED lock /\ \E p \in Points \ Guarded : Go(c, p)
    BY <2>0 DEF Readmit, engines, Points, Guarded
  <2>2. x.step \in Steps /\ x.attempt \in Attempts
    BY DEF CallsInOrder
  <2>3. LogGrowsBy(types)
    BY <2>0, <2>2 DEF Readmit, AppendEvent, LogGrowsBy, StepEvents
  <2> QED BY <1>1, <2>1, <2>3, OutsideLock
<1> QED BY <1>3, <1>4, <1>5, <1>6, <1>7, <1>8

\* The actions that take, use and release terminal_write.
LEMMA LockActionsEndOnce ==
    ASSUME StoreAssumption, EngineAssumption, InOrder, EndsOnce, OneEngine, NEW c \in Calls,
           \/ Finish(c) \/ RecordCompleted(c) \/ Unregister(c) \/ CancelLoad(c)
           \/ RecordCancelled(c) \/ Forget(c) \/ StoreFails(c)
    PROVE  EndsOnce'
<1>0. /\ Engine[c] \in Workers /\ Nobody \notin Calls
      /\ \A d \in Calls : Engine[d] = Engine[c]
      /\ pc \in [Calls -> Points] /\ lock \in [Workers -> Calls \union {Nobody}]
      /\ log \in Seq(Events)
  BY EngineAssumption DEF EngineAssumption, OneEngine, InOrder, CallsInOrder, OthersTypeOK,
                          StoreInOrder, StoreTypeOK
<1>1. pc[c] \in Guarded => \A d \in Calls : pc[d] \in Guarded => d = c
  BY <1>0 DEF EndsOnce
<1>2. lock[Engine[c]] = Nobody => \A d \in Calls : pc[d] \notin Guarded
  BY <1>0 DEF EndsOnce
<1>3. CASE Finish(c) \/ CancelLoad(c)
  <2>1. /\ lock[Engine[c]] = Nobody /\ log' = log
        /\ \/ lock' = lock /\ Go(c, "ok")
           \/ /\ lock' = [lock EXCEPT ![Engine[c]] = c]
              /\ \/ Go(c, "leave")
                 \/ (Go(c, "record") \/ Go(c, "cancel")) /\ ~ HasTerminalEvent
    BY <1>3 DEF Finish, CancelLoad, store
  <2>2. ~ HasTerminalEvent => \A i \in DOMAIN log : log[i].type \notin Ends
    BY DEF HasTerminalEvent, Logged, TerminalEvents, Ends
  <2>3. \A d \in Calls : d # c => pc'[d] = pc[d] /\ pc[d] \notin Guarded
    BY <1>0, <1>2, <2>1 DEF Go
  <2>4. /\ pc'[c] \in Guarded => lock'[Engine[c]] = c
        /\ pc'[c] \in {"record", "cancel"} => ~ HasTerminalEvent
    BY <1>0, <2>1 DEF Go, Guarded
  <2>5. \A d \in Calls : pc'[d] \in Guarded => d = c
    BY <2>3
  <2>6. \A d \in Calls : pc'[d] \in {"record", "cancel"} => d = c
    BY <2>5 DEF Guarded
  <2> QED BY <2>1, <2>2, <2>4, <2>5, <2>6 DEF EndsOnce
<1>4. CASE RecordCompleted(c) \/ RecordCancelled(c)
  <2>1. PICK e \in Events : log' = Append(log, e)
    <3>1. \E type \in Ends : AppendWorkflow(c, type)
      BY <1>4 DEF RecordCompleted, RecordCancelled, Ends
    <3>2. 0 \in Attempts
      BY DEF Attempts, StoreAssumption
    <3> QED BY <3>1, <3>2 DEF AppendWorkflow, AppendEvent, Events, Ends, TerminalEvents
  <2>2. /\ pc[c] \in {"record", "cancel"} /\ lock' = lock
        /\ \E p \in {"leave", "forget"} : Go(c, p)
    BY <1>4 DEF RecordCompleted, RecordCancelled, engines
  <2>3. \A i \in DOMAIN log : log[i].type \notin Ends
    BY <2>2 DEF EndsOnce
  <2>4. \A i \in DOMAIN log' : log'[i].type \in Ends => i = Len(log) + 1
    BY <1>0, <2>1, <2>3
  <2>5. \A d \in Calls : pc'[d] \in Guarded => d = c
    BY <1>0, <1>1, <2>2 DEF Go, Guarded
  <2>6. lock'[Engine[c]] = c /\ pc'[c] \notin {"record", "cancel"}
    BY <1>0, <2>2 DEF EndsOnce, Guarded, Go
  <2>7. \A d \in Calls : pc'[d] \notin {"record", "cancel"}
    BY <2>5, <2>6 DEF Guarded
  <2> QED BY <2>4, <2>5, <2>6, <2>7 DEF EndsOnce
<1>5. CASE Unregister(c) \/ Forget(c) \/ StoreFails(c)
  <2>1. /\ log' = log
        /\ \E p \in {"next", "ok", "error", "unmount"} : Go(c, p)
        /\ lock' = lock \/ pc[c] \in Guarded
    BY <1>5 DEF Unregister, Leave, Forget, StoreFails, store, Guarded
  <2>2. \A d \in Calls : pc'[d] \in Guarded => d # c /\ pc'[d] = pc[d]
    BY <1>0, <2>1 DEF Go, Guarded
  <2>3. \A d \in Calls : pc'[d] \in Guarded => lock' = lock
    BY <1>1, <2>1, <2>2
  <2>4. \A d \in Calls : pc'[d] \in {"record", "cancel"} => pc[d] \in {"record", "cancel"}
    BY <2>2 DEF Guarded
  <2> QED BY <2>1, <2>2, <2>3, <2>4 DEF EndsOnce
<1> QED BY <1>3, <1>4, <1>5

LEMMA EndsOnceNext ==
    ASSUME StoreAssumption, EngineAssumption, OneEngine, InOrder, EndsOnce, [Next]_vars
    PROVE  EndsOnce'
<1>0. StoreInOrder /\ CallsInOrder
  BY DEF InOrder
<1>1. ASSUME NEW c \in Calls, \/ Begin(c) \/ Step(c) \/ Renew(c) \/ TimeOut(c) \/ StoreFails(c)
                              \/ Abandon(c)
      PROVE  EndsOnce'
  BY <1>0, <1>1, FreeActionsEndOnce, LockActionsEndOnce DEF Begin, Step
<1>2. CASE \/ \E w \in Workers, k \in Steps \X Attempts :
                 BodyStarts(w, k) \/ \E o \in Bodies : BodyEnds(w, k, o)
           \/ \E s \in Steps : LeaseExpires(s)
           \/ \E w \in Workers : Restart(w)
           \/ UNCHANGED vars
  <2>1. UNCHANGED <<lock, log, pc>>
    BY <1>2 DEF BodyStarts, BodyEnds, LeaseExpires, Restart, vars, calls, engines, store
  <2> QED BY <1>0, <2>1, OutsideLock DEF LogGrowsBy
<1>3. ASSUME NEW w \in Workers, Crash(w) PROVE EndsOnce'
  <2>1. /\ log' = log /\ lock' = [lock EXCEPT ![w] = Nobody]
        /\ \A d \in Calls : pc'[d] = IF Engine[d] = w /\ d \in InProgress
                                    THEN "dead" ELSE pc[d]
    BY <1>3 DEF Crash, store
  <2>2. \A d \in Calls : pc[d] \in Guarded => d \in InProgress
    BY DEF InProgress, Guarded, Ended
  <2>3. \A d \in Calls : pc'[d] \in Guarded => Engine[d] # w /\ pc'[d] = pc[d]
    BY <2>1, <2>2 DEF Guarded
  <2>4. \A d \in Calls : pc'[d] \in Guarded => lock'[Engine[d]] = d
    BY <2>1, <2>3, EngineAssumption DEF EndsOnce, EngineAssumption, InOrder, OthersTypeOK
  <2>5. \A d \in Calls : pc'[d] \in {"record", "cancel"} => pc[d] \in {"record", "cancel"}
    BY <2>3 DEF Guarded
  <2> QED BY <2>1, <2>4, <2>5 DEF EndsOnce
<1> QED BY <1>1, <1>2, <1>3, Zenon DEF Next, Quiet

\* A workflow that only one engine works on is recorded as completed or as
\* cancelled, never both and never twice, through crashes and store errors
\* between the look and the append: this is what terminal_write is for
\* (engine.rs:61-69, 204-225, 341-352).
THEOREM OneEngineEndsOnce ==
    ASSUME OneEngine PROVE Spec => []OneOfCompletedAndCancelled
<1>1. Init => EndsOnce
  BY DEF Init, StoreInit, EndsOnce, Guarded
<1>2. EndsOnce /\ InOrder /\ [Next]_vars => EndsOnce'
  BY EndsOnceNext, StoreAssumption, EngineAssumption
<1>3. EndsOnce => OneOfCompletedAndCancelled
  <2> DEFINE I == {i \in DOMAIN log : log[i].type \in {"WorkflowCompleted", "WorkflowCancelled"}}
  <2> SUFFICES ASSUME EndsOnce PROVE Cardinality(I) <= 1
    BY DEF OneOfCompletedAndCancelled
  <2>1. \A i, j \in I : i = j
    BY DEF EndsOnce, Ends
  <2>2. CASE I = {}
    BY <2>2, FS_EmptySet
  <2>3. CASE I # {}
    <3>1. PICK i \in I : I = {i}
      BY <2>1, <2>3
    <3>2. Cardinality(I) = 1
      <4> HIDE DEF I
      <4> QED BY <3>1, FS_Singleton, Zenon
    <3> QED BY <3>2
  <2> QED BY <2>2, <2>3
<1> QED BY <1>1, <1>2, <1>3, EngineInOrder, PTL DEF Spec
=============================================================================
