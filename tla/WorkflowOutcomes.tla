-------------------------- MODULE WorkflowOutcomes --------------------------
(***************************************************************************)
(* More proofs about WorkflowEngine, for all constants and with every      *)
(* fault: how far a call gets after a cancellation, what a run that        *)
(* returns Ok leaves behind, and that nobody waits for what cannot come.   *)
(***************************************************************************)
EXTENDS WorkflowEngineProofs

\* Where a call may be once it has started an attempt after the cancellation: it
\* has no claim and no start of a step before it but one that looks at the log first.
Late == {"push", "send", "await", "complete", "wait", "fail", "fatal", "reschedule",
         "backoff", "giveup", "unmount", "remount", "drive", "record", "leave"}
        \union Ended

StartedLate(c) ==
    \E i, j \in DOMAIN log : /\ log[i].type = "WorkflowCancelled" /\ i < j
                             /\ log[j].type = "StepStarted" /\ log[j].by = c

\* The points that only one kind of call comes to.
OwnPoint(c) ==
    /\ pc[c] \in {"next", "relookup"} => Kind[c] = "recover"
    /\ pc[c] \in {"cancel", "forget"} => Kind[c] = "cancel"

WaitsAreLogged == \A s \in Steps : rows[s].status = "waiting" => Logged("StepWaiting")

Accounted ==
    /\ \A c \in Calls : OwnPoint(c)
    /\ \A c \in Calls : StartedLate(c) /\ Kind[c] # "recover" => pc[c] \in Late
    /\ \A c \in Calls : pc[c] = "leave" => HasTerminalEvent
    /\ WaitsAreLogged
    /\ CancelStopsAtBoundary
    /\ RunAccountsForItself

\* What a step does to the call that takes it.
GoesRight(c) ==
    /\ \A d \in Calls \ {c} : pc'[d] = pc[d]
    /\ OwnPoint(c)'
    /\ pc[c] \in Late /\ Kind[c] # "recover" /\ IsCancelled => pc'[c] \in Late
    /\ pc'[c] = "leave" => pc[c] = "leave" \/ HasTerminalEvent'
    /\ pc'[c] = "ok" /\ Kind[c] = "run" =>
          pc[c] = "ok" \/ HasTerminalEvent' \/ Logged("StepWaiting")'

\* The types of event that start no attempt.
OtherTypes == (StepEvents \union TerminalEvents \union {"WorkflowStarted"}) \ {"StepStarted"}

\* What is in the log stays there, and at most one event comes after it.
LEMMA LogGrows ==
    ASSUME StoreTypeOK, NEW types, LogGrowsBy(types)
    PROVE  /\ \A i \in DOMAIN log : i \in DOMAIN log' /\ log'[i] = log[i]
           /\ \A i \in DOMAIN log' :
                 i \in DOMAIN log \/ (i = Len(log) + 1 /\ log'[i].type \in types)
           /\ Len(log) \in Nat /\ DOMAIN log = 1..Len(log)
           /\ \A type : Logged(type) => Logged(type)'
<1>1. /\ \A i \in DOMAIN log : i \in DOMAIN log' /\ log'[i] = log[i]
      /\ \A i \in DOMAIN log' :
            i \in DOMAIN log \/ (i = Len(log) + 1 /\ log'[i].type \in types)
      /\ Len(log) \in Nat /\ DOMAIN log = 1..Len(log)
  BY DEF LogGrowsBy, StoreTypeOK
<1> QED BY <1>1 DEF Logged

\* A step that starts no attempt and goes right.
LEMMA GoesOn ==
    ASSUME StoreTypeOK, Accounted, LogGrowsBy(OtherTypes), WaitsAreLogged',
           NEW c \in Calls, GoesRight(c)
    PROVE  Accounted'
<1>1. /\ \A i \in DOMAIN log : i \in DOMAIN log' /\ log'[i] = log[i]
      /\ \A i \in DOMAIN log' :
            i \in DOMAIN log \/ (i = Len(log) + 1 /\ log'[i].type # "StepStarted")
      /\ Len(log) \in Nat /\ DOMAIN log = 1..Len(log)
      /\ \A type : Logged(type) => Logged(type)'
  BY LogGrows DEF OtherTypes
<1>2. HasTerminalEvent => HasTerminalEvent'
  BY <1>1 DEF HasTerminalEvent
<1>3. \A d \in Calls : StartedLate(d)' => StartedLate(d) /\ IsCancelled
  BY <1>1 DEF StartedLate, IsCancelled, Logged
<1>4. ASSUME NEW d \in Calls, StartedLate(d)', Kind[d] # "recover" PROVE pc'[d] \in Late
  BY <1>3, <1>4 DEF Accounted, GoesRight
<1>5. \A d \in Calls : OwnPoint(d)'
  BY DEF Accounted, GoesRight, OwnPoint
<1>6. \A d \in Calls : pc'[d] = "leave" => HasTerminalEvent'
  BY <1>2 DEF Accounted, GoesRight
<1>7. RunAccountsForItself'
  BY <1>1, <1>2 DEF Accounted, GoesRight, RunAccountsForItself
<1>8. CancelStopsAtBoundary'
  BY <1>1 DEF Accounted, CancelStopsAtBoundary
<1> QED BY <1>4, <1>5, <1>6, <1>7, <1>8 DEF Accounted

\* A row waits only after StepWaiting is on record.
LEMMA WaitsStayLogged ==
    ASSUME StoreTypeOK, WaitsAreLogged,
           \/ \E s \in Steps, w \in Workers : ClaimStep(s, w) /\ log' = log
           \/ \E s \in Steps, w \in Workers : RenewLease(s, w) /\ log' = log
           \/ \E s \in Steps : ExpireLease(s) /\ log' = log
           \/ \E type, s, a, c : AppendEvent(type, s, a, c)
           \/ UNCHANGED store
    PROVE  WaitsAreLogged'
<1>1. ASSUME log' = log, \A s \in Steps : rows'[s].status = "waiting" =>
                                             rows[s].status = "waiting"
      PROVE  WaitsAreLogged'
  BY <1>1 DEF WaitsAreLogged, Logged
<1>2. CASE \/ \E s \in Steps, w \in Workers : ClaimStep(s, w) /\ log' = log
           \/ \E s \in Steps, w \in Workers : RenewLease(s, w) /\ log' = log
           \/ \E s \in Steps : ExpireLease(s) /\ log' = log
           \/ UNCHANGED store
  <2>1. \A s \in Steps : rows'[s].status = "waiting" => rows[s].status = "waiting"
    BY <1>2 DEF StoreTypeOK, Rows, ClaimStep, RenewLease, ExpireLease, store
  <2> QED BY <1>1, <1>2, <2>1 DEF store
<1>3. ASSUME NEW type, NEW s, NEW a, NEW c, AppendEvent(type, s, a, c)
      PROVE  WaitsAreLogged'
  <2> DEFINE e == [type |-> type, step |-> s, attempt |-> a, by |-> c]
  <2>1. /\ log \in Seq(Events) /\ log' = Append(log, e)
        /\ rows' = [t \in Steps |-> IF t = s THEN Projected(rows[t], e) ELSE rows[t]]
    BY <1>3 DEF StoreTypeOK, AppendEvent
  <2>2. \A t \in Steps : rows'[t].status = "waiting" =>
                            rows[t].status = "waiting" \/ type = "StepWaiting"
    BY <2>1 DEF Projected, NoRow, StatusAfter
  <2>3. \A t : Logged(t) \/ t = type => Logged(t)'
    BY <2>1 DEF Logged
  <2> QED BY <2>2, <2>3 DEF WaitsAreLogged
<1> QED BY <1>2, <1>3

(***************************************************************************)
(* The actions                                                             *)
(***************************************************************************)

\* The actions of a call that leave the store alone.
LEMMA SilentActionsGoRight ==
    ASSUME CallsInOrder, Accounted, NEW c \in Calls,
           \/ Refuse(c) \/ Register(c) \/ Run(c)
           \/ CancelLoad(c) \/ ResumeLoad(c) \/ RecoverLoad(c)
           \/ Mount(c) \/ DriveStep(c) \/ Finish(c) \/ Unregister(c) \/ Push(c) \/ Send(c)
           \/ Resolve(c) \/ BackOff(c) \/ Unmount(c) \/ Remount(c) \/ Forget(c)
           \/ ResumeLookup(c) \/ RecoverEnds(c) \/ ReadmitLookup(c)
           \/ TimeOut(c) \/ StoreFails(c) \/ Abandon(c)
    PROVE  UNCHANGED store /\ GoesRight(c)
<1>0. UNCHANGED store
  BY DEF Refuse, Register, Run, CancelLoad, ResumeLoad, RecoverLoad, Mount, DriveStep, Finish,
         Unregister, Push, Send, Resolve, BackOff, Unmount, Remount, Forget, ResumeLookup,
         RecoverEnds, ReadmitLookup, TimeOut, StoreFails, Abandon
<1>1. /\ HasTerminalEvent' <=> HasTerminalEvent
      /\ IsCancelled => HasTerminalEvent
  BY <1>0 DEF HasTerminalEvent, IsCancelled, Logged, TerminalEvents, store
<1>2. OwnPoint(c) /\ (pc[c] = "leave" => HasTerminalEvent)
  BY DEF Accounted
<1>3. \A p : Go(c, p) => pc'[c] = p /\ \A d \in Calls \ {c} : pc'[d] = pc[d]
  BY DEF CallsInOrder, Go
<1>4. CASE \/ Refuse(c) \/ Register(c) \/ Run(c)
           \/ CancelLoad(c) \/ ResumeLoad(c) \/ RecoverLoad(c)
  <2>1. PICK p \in {"ok", "start", "cancel", "error", "lookup", "next"} :
          /\ Go(c, p) /\ pc[c] = "idle"
          /\ p = "ok" => Kind[c] \in {"register", "cancel"}
          /\ p = "cancel" => Kind[c] = "cancel"
          /\ p = "next" => Kind[c] = "recover"
    BY <1>4 DEF Refuse, Register, Run, CancelLoad, ResumeLoad, RecoverLoad, Called
  <2> QED BY <1>0, <1>3, <2>1 DEF GoesRight, OwnPoint, Late, Ended
<1>5. CASE Mount(c) \/ ResumeLookup(c) \/ RecoverEnds(c) \/ ReadmitLookup(c) \/ Forget(c)
  <2>1. PICK p \in {"drive", "error", "resume", "ok", "claim", "next"} :
          /\ Go(c, p) /\ pc[c] \in {"mount", "lookup", "next", "relookup", "forget"}
          /\ p \in {"ok", "next"} => pc[c] \in {"next", "relookup", "forget"}
          /\ p = "next" => Kind[c] = "recover"
    BY <1>5 DEF Mount, ResumeLookup, RecoverEnds, ReadmitLookup, Forget, Leave
  <2> QED BY <1>0, <1>2, <1>3, <2>1 DEF GoesRight, OwnPoint, Late, Ended
<1>6. CASE DriveStep(c) \/ BackOff(c) \/ Finish(c) \/ Unregister(c)
  <2>1. PICK p \in {"ok", "next", "claim", "leave", "record"} :
          /\ Go(c, p)
          /\ p = "next" => Kind[c] = "recover"
          /\ p \in {"ok", "leave"} => HasTerminalEvent
          /\ p = "claim" => ~ IsCancelled
    BY <1>1, <1>2, <1>6 DEF DriveStep, BackOff, Finish, Unregister, Leave
  <2> QED BY <1>0, <1>1, <1>3, <2>1 DEF GoesRight, OwnPoint, Late, Ended
<1>7. CASE \/ Push(c) \/ Send(c) \/ Resolve(c) \/ Unmount(c) \/ Remount(c)
           \/ TimeOut(c) \/ StoreFails(c) \/ Abandon(c)
  <2>1. PICK p \in {"complete", "await", "send", "wait", "fatal", "unmount", "fail",
                    "error", "drive", "dead"} : Go(c, p)
    BY <1>7 DEF Push, Send, Resolve, Verdict, Unmount, Remount, TimeOut, StoreFails, Abandon
  <2> QED BY <1>0, <1>3, <2>1 DEF GoesRight, OwnPoint, Late, Ended
<1> QED BY <1>0, <1>4, <1>5, <1>6, <1>7

\* The actions that write to the store, but for the start of an attempt.
LEMMA WritingActionsGoRight ==
    ASSUME StoreAssumption, EngineAssumption, StoreInOrder, CallsInOrder, Accounted,
           NEW c \in Calls,
           \/ RecordStarted(c) \/ RecordCompleted(c) \/ RecordWorkflowFailed(c)
           \/ RecordCancelled(c) \/ RecordStepCompleted(c) \/ RecordStepWaiting(c)
           \/ RecordStepFailed(c) \/ RecordRetryScheduled(c) \/ RecordResumed(c)
           \/ (\E x \in todo[c] : Readmit(c, x)) \/ Claim(c)
    PROVE  Accounted'
<1>0. StoreTypeOK /\ WaitsAreLogged /\ OwnPoint(c)
  BY DEF StoreInOrder, Accounted
<1>1. \A p : Go(c, p) => pc'[c] = p /\ \A d \in Calls \ {c} : pc'[d] = pc[d]
  BY DEF CallsInOrder, Go
<1>2. ASSUME NEW type, NEW s, NEW a, AppendEvent(type, s, a, c)
      PROVE  Logged(type)' /\ WaitsAreLogged'
  <2>1. Logged(type)'
    BY <1>0, <1>2 DEF AppendEvent, Logged, StoreTypeOK
  <2> QED BY <1>0, <1>2, <2>1, WaitsStayLogged
<1>3. CASE \/ RecordStarted(c) \/ RecordCompleted(c) \/ RecordWorkflowFailed(c)
           \/ RecordCancelled(c)
  <2>1. PICK type \in OtherTypes, p \in {"mount", "leave", "unmount", "forget"} :
          /\ AppendWorkflow(c, type) /\ Go(c, p)
          /\ p = "leave" => type = "WorkflowCompleted"
          /\ p = "forget" => pc[c] = "cancel"
          /\ p = "mount" => pc[c] = "start"
    BY <1>3 DEF RecordStarted, RecordCompleted, RecordWorkflowFailed, RecordCancelled,
                OtherTypes, TerminalEvents, StepEvents
  <2>2. LogGrowsBy(OtherTypes)
    BY <2>1, AppendGrows
  <2>3. Logged(type)' /\ WaitsAreLogged'
    BY <1>2, <2>1 DEF AppendWorkflow
  <2>4. p = "leave" => HasTerminalEvent'
    BY <2>1, <2>3 DEF HasTerminalEvent, TerminalEvents
  <2>5. GoesRight(c)
    BY <1>0, <1>1, <2>1, <2>4 DEF GoesRight, OwnPoint, Late, Ended
  <2> QED BY <1>0, <2>2, <2>3, <2>5, GoesOn
<1>4. CASE \/ RecordStepCompleted(c) \/ RecordStepWaiting(c) \/ RecordStepFailed(c)
           \/ RecordResumed(c)
  <2>1. PICK type \in OtherTypes,
             p \in {"drive", "remount", "ok", "next", "reschedule", "giveup", "claim"} :
          /\ AppendStep(c, type) /\ pc[c] \in InStep /\ Go(c, p)
          /\ p = "next" => Kind[c] = "recover"
          /\ p = "ok" => type = "StepWaiting"
          /\ p = "claim" => pc[c] = "resume"
    BY <1>4 DEF RecordStepCompleted, RecordStepWaiting, RecordStepFailed, RecordResumed,
                StepDone, Leave, OtherTypes, StepEvents, TerminalEvents, InStep
  <2>2. LogGrowsBy(OtherTypes)
    BY <2>1, AppendGrows
  <2>3. Logged(type)' /\ WaitsAreLogged'
    BY <1>2, <2>1 DEF AppendStep
  <2>4. GoesRight(c)
    BY <1>1, <2>1, <2>3 DEF GoesRight, OwnPoint, Late, Ended
  <2> QED BY <1>0, <2>2, <2>3, <2>4, GoesOn
<1>5. CASE RecordRetryScheduled(c)
  <2>1. at[c] \in Steps /\ attempt[c] + 1 \in Attempts
    BY <1>5, InStepFacts DEF RecordRetryScheduled, InStep, CallsInOrder, CallInOrder,
                             MayRetry, Attempts, StoreAssumption
  <2>2. LogGrowsBy(OtherTypes)
    BY <1>5, <2>1 DEF RecordRetryScheduled, AppendEvent, LogGrowsBy, OtherTypes, StepEvents,
                      TerminalEvents
  <2>3. WaitsAreLogged'
    BY <1>2, <1>5 DEF RecordRetryScheduled
  <2>4. GoesRight(c)
    BY <1>1, <1>5 DEF RecordRetryScheduled, GoesRight, OwnPoint, Late, Ended
  <2> QED BY <1>0, <2>2, <2>3, <2>4, GoesOn
<1>6. ASSUME NEW x \in todo[c], Readmit(c, x) PROVE Accounted'
  <2>1. x.step \in Steps /\ x.attempt \in Attempts
    BY DEF CallsInOrder
  <2>2. LogGrowsBy(OtherTypes)
    BY <1>6, <2>1 DEF Readmit, AppendEvent, LogGrowsBy, OtherTypes, StepEvents, TerminalEvents
  <2>3. WaitsAreLogged'
    BY <1>2, <1>6 DEF Readmit
  <2>4. GoesRight(c)
    BY <1>0, <1>1, <1>6 DEF Readmit, GoesRight, OwnPoint, Late, Ended
  <2> QED BY <1>0, <2>2, <2>3, <2>4, GoesOn
<1>7. CASE Claim(c)
  <2>1. PICK s \in Steps, w \in Workers : s = at[c] /\ w = Engine[c]
    BY <1>7, InStepFacts DEF Claim, InStep, EngineAssumption
  <2>2. log' = log /\ ClaimStep(s, w)
    BY <1>7, <2>1 DEF Claim
  <2>3. WaitsAreLogged'
    BY <1>0, <2>2, WaitsStayLogged
  <2>4. \/ \E p \in {"begin", "unmount", "drive", "remount"} : Go(c, p)
        \/ Leave(c) /\ rows[s].status = "waiting"
    BY <1>7, <2>1 DEF Claim, StepDone, ClaimResult
  <2>5. rows[s].status = "waiting" => Logged("StepWaiting")'
    BY <1>0, <2>2 DEF WaitsAreLogged, Logged
  <2>6. pc[c] = "claim"
    BY <1>7 DEF Claim
  <2>7. GoesRight(c)
    BY <1>1, <2>4, <2>5, <2>6 DEF GoesRight, OwnPoint, Leave, Late, Ended
  <2>8. LogGrowsBy(OtherTypes)
    BY <2>2 DEF LogGrowsBy
  <2> QED BY <1>0, <2>3, <2>7, <2>8, GoesOn
<1> QED BY <1>3, <1>4, <1>5, <1>6, <1>7

\* The start of an attempt: the call has started none since the cancellation.
LEMMA StartGoesRight ==
    ASSUME StoreAssumption, StoreInOrder, CallsInOrder, Accounted, NEW c \in Calls,
           RecordStepStarted(c)
    PROVE  Accounted'
<1>0. StoreTypeOK /\ WaitsAreLogged
  BY DEF StoreInOrder, Accounted
<1>1. pc[c] = "begin" /\ pc' = [pc EXCEPT ![c] = "push"] /\ AppendStep(c, "StepStarted")
  BY DEF RecordStepStarted, Go
<1>2. pc'[c] = "push" /\ \A d \in Calls \ {c} : pc'[d] = pc[d]
  BY <1>1 DEF CallsInOrder
<1>3. StartedLate(c) => Kind[c] = "recover"
  BY <1>1 DEF Accounted, Late, Ended
<1> DEFINE e == [type |-> "StepStarted", step |-> at[c], attempt |-> attempt[c], by |-> c]
<1>4. /\ log \in Seq(Events) /\ log' = Append(log, e)
      /\ e.type = "StepStarted" /\ e.by = c
  BY <1>0, <1>1 DEF AppendStep, AppendEvent, StoreTypeOK
<1> HIDE DEF e
<1>5. /\ Len(log) \in Nat /\ DOMAIN log = 1..Len(log) /\ DOMAIN log' = 1..(Len(log) + 1)
      /\ \A i \in DOMAIN log : log'[i] = log[i]
      /\ log'[Len(log) + 1] = e
  BY <1>4
<1>6. WaitsAreLogged'
  BY <1>0, <1>1, WaitsStayLogged DEF AppendStep
<1>7. \A type : Logged(type) => Logged(type)'
  BY <1>5 DEF Logged
<1>8. HasTerminalEvent => HasTerminalEvent'
  BY <1>7 DEF HasTerminalEvent
<1>9. \A d \in Calls \ {c} : StartedLate(d)' => StartedLate(d)
  BY <1>4, <1>5 DEF StartedLate
<1>10. \A d \in Calls : StartedLate(d)' /\ Kind[d] # "recover" => pc'[d] \in Late
  BY <1>2, <1>9 DEF Accounted, Late
<1>11. CancelStopsAtBoundary'
  <2> SUFFICES ASSUME NEW i \in DOMAIN log', NEW j \in DOMAIN log', NEW k \in DOMAIN log',
                      log'[i].type = "WorkflowCancelled", i < j, j < k,
                      log'[j].type = "StepStarted", log'[k].type = "StepStarted"
               PROVE  log'[j].by # log'[k].by \/ Kind[log'[j].by] = "recover"
    BY DEF CancelStopsAtBoundary
  <2>1. i \in DOMAIN log /\ j \in DOMAIN log
    BY <1>5
  <2>2. CASE k \in DOMAIN log
    BY <1>5, <2>1, <2>2 DEF Accounted, CancelStopsAtBoundary
  <2>3. CASE k \notin DOMAIN log
    <3>1. log'[k].by = c
      BY <1>4, <1>5, <2>3
    <3>2. log'[j].by = c => StartedLate(c)
      BY <1>5, <2>1 DEF StartedLate
    <3> QED BY <1>3, <3>1, <3>2
  <2> QED BY <2>2, <2>3
<1>12. \A d \in Calls : OwnPoint(d)' /\ (pc'[d] = "leave" => HasTerminalEvent')
  BY <1>2, <1>8 DEF Accounted, OwnPoint
<1>13. RunAccountsForItself'
  BY <1>2, <1>7, <1>8 DEF Accounted, RunAccountsForItself
<1> QED BY <1>6, <1>10, <1>11, <1>12, <1>13 DEF Accounted

LEMMA AccountedNext ==
    ASSUME StoreAssumption, EngineAssumption, InOrder, Accounted, [Next]_vars
    PROVE  Accounted'
<1>0. StoreInOrder /\ CallsInOrder /\ StoreTypeOK /\ WaitsAreLogged
  BY DEF InOrder, StoreInOrder, Accounted
<1>1. ASSUME NEW c \in Calls, UNCHANGED store, GoesRight(c) PROVE Accounted'
  <2>1. LogGrowsBy(OtherTypes) /\ WaitsAreLogged'
    BY <1>0, <1>1, WaitsStayLogged DEF LogGrowsBy, store
  <2> QED BY <1>0, <1>1, <2>1, GoesOn
<1>2. ASSUME NEW c \in Calls, \/ Begin(c) \/ Step(c) \/ TimeOut(c) \/ StoreFails(c)
                              \/ Abandon(c)
      PROVE  Accounted'
  BY <1>0, <1>1, <1>2, SilentActionsGoRight, WritingActionsGoRight, StartGoesRight
     DEF Begin, Step
<1>3. ASSUME log' = log, WaitsAreLogged', \A c \in Calls : pc'[c] = pc[c] \/ pc'[c] = "dead"
      PROVE  Accounted'
  <2>1. /\ \A type : Logged(type)' <=> Logged(type)
        /\ \A c : StartedLate(c)' <=> StartedLate(c)
        /\ CancelStopsAtBoundary'
    BY <1>3 DEF Logged, StartedLate, Accounted, CancelStopsAtBoundary
  <2>2. HasTerminalEvent' <=> HasTerminalEvent
    BY <2>1 DEF HasTerminalEvent
  <2>3. RunAccountsForItself'
    BY <1>3, <2>1, <2>2 DEF Accounted, RunAccountsForItself
  <2> QED BY <1>3, <2>1, <2>2, <2>3 DEF Accounted, OwnPoint, Late, Ended
<1>4. ASSUME (\E c \in Calls : Renew(c)) \/ (\E s \in Steps : LeaseExpires(s))
      PROVE  Accounted'
  <2>1. log' = log /\ pc' = pc
    BY <1>4 DEF Renew, LeaseExpires, calls
  <2>2. \/ \E s \in Steps, w \in Workers : RenewLease(s, w)
        \/ \E s \in Steps : ExpireLease(s)
    BY <1>0, <1>4, InStepFacts, EngineAssumption
       DEF Renew, LeaseExpires, InStep, EngineAssumption
  <2>3. WaitsAreLogged'
    BY <1>0, <2>1, <2>2, WaitsStayLogged
  <2> QED BY <1>3, <2>1, <2>3
<1>5. CASE \/ \E w \in Workers, k \in Steps \X Attempts :
                 BodyStarts(w, k) \/ \E o \in Bodies : BodyEnds(w, k, o)
           \/ \E w \in Workers : Crash(w) \/ Restart(w)
           \/ UNCHANGED vars
  <2>1. UNCHANGED store /\ \A c \in Calls : pc'[c] = pc[c] \/ pc'[c] = "dead"
    BY <1>0, <1>5 DEF BodyStarts, BodyEnds, Crash, Restart, vars, calls, CallsInOrder
  <2>2. WaitsAreLogged'
    BY <1>0, <2>1, WaitsStayLogged
  <2> QED BY <1>3, <2>1, <2>2 DEF store
<1> QED BY <1>2, <1>4, <1>5, Zenon DEF Next, Quiet

LEMMA AccountedAlways == Spec => []Accounted
<1>1. Init => Accounted
  <2> SUFFICES ASSUME Init PROVE Accounted
    OBVIOUS
  <2>1. DOMAIN log = {} /\ \A c \in Calls : pc[c] = "idle"
    BY DEF Init, StoreInit
  <2>2. \A c \in Calls : OwnPoint(c) /\ ~ StartedLate(c) /\ pc[c] # "leave" /\ pc[c] # "ok"
    BY <2>1 DEF OwnPoint, StartedLate
  <2>3. WaitsAreLogged
    BY DEF Init, StoreInit, WaitsAreLogged, NoRow
  <2> QED BY <2>1, <2>2, <2>3 DEF Accounted, CancelStopsAtBoundary, RunAccountsForItself
<1>2. InOrder /\ Accounted /\ [Next]_vars => Accounted'
  BY AccountedNext, StoreAssumption, EngineAssumption
<1> QED BY <1>1, <1>2, EngineInOrder, PTL DEF Spec

\* Once a workflow is on record as cancelled, a call that was under way starts at
\* most the one attempt it had decided on, for any number of calls, engines, steps and
\* retries (engine.rs:316-320, 656-658).
THEOREM CancelIsSeenAtBoundaries == Spec => []CancelStopsAtBoundary
<1>1. Accounted => CancelStopsAtBoundary
  BY DEF Accounted
<1> QED BY <1>1, AccountedAlways, PTL

\* A run that returns Ok leaves an end or a request for input on record, through every
\* interleaving and fault (engine.rs:303-357, 563-575).
THEOREM RunsAreAccountedFor == Spec => []RunAccountsForItself
<1>1. Accounted => RunAccountsForItself
  BY DEF Accounted
<1> QED BY <1>1, AccountedAlways, PTL
(***************************************************************************)
(* Nobody waits for what cannot come                                       *)
(***************************************************************************)

\* Of the calls at the push of a key, one has the claim; those that join wait at
\* "await".
OneSender ==
    \A c, d \in Calls :
        (pc[c] = "send" /\ pc[d] = "send" /\ Engine[c] = Engine[d] /\ JobOf(c) = JobOf(d)) => c = d

WaitsBacked == EveryWaitIsBacked /\ OneSender

\* What a step of call c leaves alone.
OthersStay(c) ==
    \A d \in Calls \ {c} : pc'[d] = pc[d] /\ JobOf(d)' = JobOf(d) /\ answer'[d] = answer[d]

\* Steps of a call that neither push nor come to wait, and hold terminal_write
\* afterwards only at the points that release it.
LEMMA AsideBacked ==
    ASSUME EngineAssumption, pc \in [Calls -> Points], WaitsBacked, NEW c \in Calls,
           UNCHANGED <<up, job>>, OthersStay(c), up[Engine[c]],
           pc[c] # "send", pc'[c] \notin {"send", "await"},
           \/ lock' = lock /\ (pc[c] \in Guarded => pc'[c] \in Guarded)
           \/ lock' = [lock EXCEPT ![Engine[c]] = Nobody]
           \/ lock' = [lock EXCEPT ![Engine[c]] = c] /\ pc'[c] \in Guarded,
           lock \in [Workers -> Calls \union {Nobody}]
    PROVE  WaitsBacked'
<1>1. \A d \in Calls : d \in InProgress' /\ d # c => d \in InProgress
  BY DEF InProgress, OthersStay
<1>2. \A d \in InProgress' :
          /\ up'[Engine[d]]
          /\ pc'[d] = "send" => job'[Engine[d]][JobOf(d)'] = "claimed"
          /\ pc'[d] = "await" /\ answer'[d] = "none" =>
                job'[Engine[d]][JobOf(d)'] \in {"claimed", "pending", "running"}
  <2>1. SUFFICES ASSUME NEW d \in InProgress'
                 PROVE  /\ up'[Engine[d]]
                        /\ pc'[d] = "send" => job'[Engine[d]][JobOf(d)'] = "claimed"
                        /\ pc'[d] = "await" /\ answer'[d] = "none" =>
                              job'[Engine[d]][JobOf(d)'] \in {"claimed", "pending", "running"}
    OBVIOUS
  <2>2. CASE d = c
    BY <2>2
  <2>3. CASE d # c
    <3>1. d \in InProgress /\ d \in Calls
      BY <1>1, <2>1, <2>3 DEF InProgress
    <3> QED BY <2>3, <3>1 DEF OthersStay, WaitsBacked, EveryWaitIsBacked
  <2> QED BY <2>2, <2>3
<1>3. \A w \in Workers, k \in Steps \X Attempts :
          job'[w][k] = "claimed" =>
              \E d \in Calls : pc'[d] = "send" /\ Engine[d] = w /\ JobOf(d)' = k
  <2> SUFFICES ASSUME NEW w \in Workers, NEW k \in Steps \X Attempts, job'[w][k] = "claimed"
               PROVE  \E d \in Calls : pc'[d] = "send" /\ Engine[d] = w /\ JobOf(d)' = k
    OBVIOUS
  <2>1. PICK d \in Calls : pc[d] = "send" /\ Engine[d] = w /\ JobOf(d) = k
    BY DEF WaitsBacked, EveryWaitIsBacked
  <2>2. d # c
    BY <2>1
  <2> QED BY <2>1, <2>2 DEF OthersStay
<1>4. \A w \in Workers :
          lock'[w] # Nobody => Engine[lock'[w]] = w /\ pc'[lock'[w]] \in Guarded
  <2> SUFFICES ASSUME NEW w \in Workers, lock'[w] # Nobody
               PROVE  Engine[lock'[w]] = w /\ pc'[lock'[w]] \in Guarded
    OBVIOUS
  <2>1. CASE lock'[w] = lock[w]
    <3>1. lock[w] \in Calls /\ Engine[lock[w]] = w /\ pc[lock[w]] \in Guarded
      BY <2>1 DEF WaitsBacked, EveryWaitIsBacked, Guarded
    <3>2. CASE lock[w] # c
      BY <2>1, <3>1, <3>2 DEF OthersStay
    <3>3. CASE lock[w] = c
      BY <2>1, <3>1, <3>3
    <3> QED BY <3>2, <3>3
  <2>2. CASE lock'[w] = c /\ w = Engine[c] /\ pc'[c] \in Guarded
    BY <2>2
  <2> QED BY <2>1, <2>2
<1>5. OneSender'
  BY DEF WaitsBacked, OneSender, OthersStay
<1> QED BY <1>2, <1>3, <1>4, <1>5 DEF WaitsBacked, EveryWaitIsBacked, Guarded
\* The actions of a call outside the queue.
LEMMA AsideActionsBacked ==
    ASSUME EngineAssumption, InOrder, WaitsBacked, NEW c \in Calls,
           \/ Begin(c) \/ TimeOut(c) \/ StoreFails(c)
           \/ RecordStarted(c) \/ Mount(c)
           \/ DriveStep(c) \/ Finish(c) \/ RecordCompleted(c) \/ Unregister(c)
           \/ Claim(c) \/ RecordStepStarted(c) \/ Resolve(c)
           \/ RecordStepCompleted(c) \/ RecordStepWaiting(c) \/ RecordStepFailed(c)
           \/ RecordRetryScheduled(c) \/ BackOff(c) \/ RecordWorkflowFailed(c)
           \/ Unmount(c) \/ Remount(c)
           \/ RecordCancelled(c) \/ Forget(c)
           \/ ResumeLookup(c) \/ RecordResumed(c)
           \/ RecoverEnds(c) \/ (\E x \in todo[c] : Readmit(c, x)) \/ ReadmitLookup(c)
    PROVE  WaitsBacked'
<1> DEFINE Quietly == Points \ ({"send", "await"} \union Guarded)
<1>0. /\ pc \in [Calls -> Points] /\ lock \in [Workers -> Calls \union {Nobody}]
      /\ Engine[c] \in Workers
      /\ at \in [Calls -> 0..NumSteps] /\ attempt \in [Calls -> Attempts]
      /\ DOMAIN answer = Calls
  BY EngineAssumption DEF InOrder, CallsInOrder, OthersTypeOK, EngineAssumption
<1>1. /\ \A p \in Points : Go(c, p) => pc'[c] = p /\ \A d \in Calls \ {c} : pc'[d] = pc[d]
      /\ Leave(c) => \E p \in Quietly : Go(c, p)
      /\ StepDone(c) => \E p \in Quietly : Go(c, p)
      /\ c \in InProgress => up[Engine[c]]
  <2>1. \A p \in Points : Go(c, p) => pc'[c] = p /\ \A d \in Calls \ {c} : pc'[d] = pc[d]
    BY <1>0 DEF Go
  <2>2. /\ Leave(c) => \E p \in Quietly : Go(c, p)
        /\ StepDone(c) => \E p \in Quietly : Go(c, p)
    BY DEF Leave, StepDone, Points, Ended, Guarded
  <2>3. c \in InProgress => up[Engine[c]]
    BY DEF WaitsBacked, EveryWaitIsBacked
  <2> QED BY <2>1, <2>2, <2>3
<1>2. CASE \/ Refuse(c) \/ Register(c) \/ Run(c) \/ ResumeLoad(c) \/ RecoverLoad(c)
           \/ RecordStarted(c) \/ Mount(c) \/ DriveStep(c) \/ Claim(c) \/ RecordStepStarted(c)
           \/ Resolve(c) \/ TimeOut(c) \/ RecordStepCompleted(c) \/ RecordStepWaiting(c)
           \/ RecordStepFailed(c) \/ RecordRetryScheduled(c) \/ BackOff(c)
           \/ RecordWorkflowFailed(c) \/ Unmount(c) \/ Remount(c)
           \/ ResumeLookup(c) \/ RecordResumed(c)
           \/ RecoverEnds(c) \/ (\E x \in todo[c] : Readmit(c, x)) \/ ReadmitLookup(c)
  <2>1. UNCHANGED <<up, job, lock>> /\ pc[c] \notin {"send"} \union Guarded
    BY <1>2 DEF Refuse, Register, Run, ResumeLoad, RecoverLoad, RecordStarted, Mount,
                DriveStep, Claim, RecordStepStarted, Resolve, TimeOut, RecordStepCompleted, RecordStepWaiting,
                RecordStepFailed, RecordRetryScheduled, BackOff, RecordWorkflowFailed, Unmount,
                Remount, ResumeLookup, RecordResumed, RecoverEnds, Readmit, ReadmitLookup,
                engines, Called, Guarded
  <2>2. up[Engine[c]]
    BY <1>1, <1>2 DEF Refuse, Register, Run, ResumeLoad, RecoverLoad, RecordStarted, Mount,
                DriveStep, Claim, RecordStepStarted, Resolve, TimeOut, RecordStepCompleted,
                RecordStepWaiting, RecordStepFailed, RecordRetryScheduled, BackOff,
                RecordWorkflowFailed, Unmount, Remount, ResumeLookup, RecordResumed,
                RecoverEnds, Readmit, ReadmitLookup, Called, InProgress, Ended
  <2>3. \E p \in Quietly : Go(c, p)
    <3>1. CASE \/ Refuse(c) \/ Register(c) \/ Run(c) \/ ResumeLoad(c) \/ RecoverLoad(c)
               \/ RecordStarted(c) \/ Mount(c) \/ RecordStepStarted(c) \/ TimeOut(c)
               \/ RecordStepFailed(c) \/ RecordRetryScheduled(c)
      BY <3>1 DEF Refuse, Register, Run, ResumeLoad, RecoverLoad, RecordStarted, Mount,
                  RecordStepStarted, TimeOut, RecordStepFailed, RecordRetryScheduled,
                  Points, Ended, Guarded
    <3>2. CASE \/ Resolve(c) \/ RecordWorkflowFailed(c) \/ Unmount(c) \/ Remount(c)
               \/ ResumeLookup(c) \/ RecordResumed(c) \/ RecoverEnds(c)
               \/ (\E x \in todo[c] : Readmit(c, x))
      BY <3>2 DEF Resolve, RecordWorkflowFailed, Unmount, Remount, ResumeLookup,
                  RecordResumed, RecoverEnds, Readmit, Points, Ended, Guarded, Verdict
    <3>3. CASE \/ DriveStep(c) \/ Claim(c) \/ RecordStepCompleted(c) \/ RecordStepWaiting(c)
               \/ BackOff(c) \/ ReadmitLookup(c)
      BY <3>3, <1>1 DEF DriveStep, Claim, RecordStepCompleted, RecordStepWaiting, BackOff,
                  ReadmitLookup, Points, Ended, Guarded
    <3> QED BY <1>2, <3>1, <3>2, <3>3
  <2>4. \A d \in Calls \ {c} : at'[d] = at[d] /\ attempt'[d] = attempt[d] /\ answer'[d] = answer[d]
    <3>1. CASE \/ Refuse(c) \/ Register(c) \/ Run(c) \/ ResumeLoad(c) \/ RecoverLoad(c)
               \/ RecordStarted(c) \/ Mount(c) \/ RecordStepStarted(c) \/ TimeOut(c)
               \/ RecordStepFailed(c) \/ RecordRetryScheduled(c)
      BY <1>0, <3>1 DEF Refuse, Register, Run, ResumeLoad, RecoverLoad, RecordStarted, Mount,
                  RecordStepStarted, TimeOut, RecordStepFailed, RecordRetryScheduled, OnlyPoint
    <3>2. CASE \/ Resolve(c) \/ RecordWorkflowFailed(c) \/ Unmount(c) \/ Remount(c)
               \/ ResumeLookup(c) \/ RecordResumed(c) \/ RecoverEnds(c)
               \/ (\E x \in todo[c] : Readmit(c, x))
      BY <1>0, <3>2 DEF Resolve, RecordWorkflowFailed, Unmount, Remount, ResumeLookup,
                  RecordResumed, RecoverEnds, Readmit, OnlyPoint
    <3>3. CASE \/ DriveStep(c) \/ Claim(c) \/ RecordStepCompleted(c) \/ RecordStepWaiting(c)
               \/ BackOff(c) \/ ReadmitLookup(c)
      BY <1>0, <3>3 DEF DriveStep, Claim, RecordStepCompleted, RecordStepWaiting, BackOff,
                  ReadmitLookup, StepDone, OnlyPoint
    <3> QED BY <1>2, <3>1, <3>2, <3>3
  <2>5. OthersStay(c) /\ pc'[c] \notin {"send", "await"}
    BY <1>1, <2>3, <2>4 DEF OthersStay, JobOf
  <2> QED BY EngineAssumption, <1>0, <2>1, <2>2, <2>5, AsideBacked
<1>3. CASE \/ Finish(c) \/ RecordCompleted(c) \/ Unregister(c) \/ CancelLoad(c)
           \/ RecordCancelled(c) \/ Forget(c)
  <2>1. UNCHANGED <<up, job, at, attempt, answer>>
    BY <1>3 DEF Finish, RecordCompleted, Unregister, CancelLoad, RecordCancelled, Forget,
                engines, OnlyPoint
  <2>2. up[Engine[c]] /\ pc[c] # "send"
    BY <1>1, <1>3 DEF Finish, RecordCompleted, Unregister, CancelLoad, RecordCancelled, Forget,
                      Called, InProgress, Ended
  <2>3. OthersStay(c) /\ pc'[c] \notin {"send", "await"}
    <3>1. \E p \in Points \ {"send", "await"} : Go(c, p)
      BY <1>1, <1>3 DEF Finish, RecordCompleted, Unregister, CancelLoad, RecordCancelled, Forget,
                        Ended, Points
    <3> QED BY <1>1, <2>1, <3>1 DEF OthersStay, JobOf
  <2>4. \/ lock' = lock /\ (pc[c] \in Guarded => pc'[c] \in Guarded)
        \/ lock' = [lock EXCEPT ![Engine[c]] = Nobody]
        \/ lock' = [lock EXCEPT ![Engine[c]] = c] /\ pc'[c] \in Guarded
    <3>1. CASE Unregister(c) \/ Forget(c)
      BY <3>1 DEF Unregister, Forget
    <3>2. CASE Finish(c) \/ CancelLoad(c)
      <4>1. \A p \in {"leave", "record", "cancel"} : Go(c, p) => pc'[c] \in Guarded
        BY <1>1 DEF Points, Guarded
      <4> QED BY <3>2, <4>1 DEF Finish, CancelLoad, Called, Guarded
    <3>3. CASE RecordCompleted(c) \/ RecordCancelled(c)
      <4>1. \A p \in {"leave", "forget"} : Go(c, p) => pc'[c] \in Guarded
        BY <1>1 DEF Points, Guarded
      <4> QED BY <3>3, <4>1 DEF RecordCompleted, RecordCancelled, engines
    <3> QED BY <1>3, <3>1, <3>2, <3>3
  <2> QED BY EngineAssumption, <1>0, <2>1, <2>2, <2>3, <2>4, AsideBacked
<1>4. CASE StoreFails(c)
  <2>1. /\ UNCHANGED <<up, job, at, attempt, answer>> /\ up[Engine[c]] /\ pc[c] # "send"
        /\ \E p \in {"unmount", "error"} : Go(c, p)
        /\ \/ lock' = lock /\ pc[c] \notin Guarded
           \/ lock' = [lock EXCEPT ![Engine[c]] = Nobody]
    BY <1>1, <1>4 DEF StoreFails, InProgress, Ended, Guarded
  <2>2. OthersStay(c) /\ pc'[c] \notin {"send", "await"}
    BY <1>1, <2>1 DEF OthersStay, JobOf, Points, Ended
  <2> QED BY EngineAssumption, <1>0, <2>1, <2>2, AsideBacked
<1> QED BY <1>2, <1>3, <1>4 DEF Begin
\* The parts of WaitsBacked.
CallWaits(c) ==
    c \in InProgress =>
        /\ up[Engine[c]]
        /\ pc[c] = "send" => job[Engine[c]][JobOf(c)] = "claimed"
        /\ pc[c] = "await" /\ answer[c] = "none" =>
              job[Engine[c]][JobOf(c)] \in {"claimed", "pending", "running"}

ClaimsHaveSender ==
    \A w \in Workers, k \in Steps \X Attempts :
        job[w][k] = "claimed" => \E c \in Calls : pc[c] = "send" /\ Engine[c] = w /\ JobOf(c) = k

LocksAreReleased ==
    \A w \in Workers : lock[w] # Nobody => Engine[lock[w]] = w /\ pc[lock[w]] \in Guarded

LEMMA Parts ==
    /\ WaitsBacked <=> /\ \A c \in Calls : CallWaits(c)
                       /\ ClaimsHaveSender /\ LocksAreReleased /\ OneSender
    /\ WaitsBacked' <=> /\ \A c \in Calls : CallWaits(c)'
                        /\ ClaimsHaveSender' /\ LocksAreReleased' /\ OneSender'
  BY DEF WaitsBacked, EveryWaitIsBacked, CallWaits, ClaimsHaveSender, LocksAreReleased,
         Guarded, InProgress

\* A call that leaves no point at which it would have to release the lock.
LEMMA LocksStay ==
    ASSUME LocksAreReleased, lock' = lock, lock \in [Workers -> Calls \union {Nobody}],
           \A d \in Calls : pc[d] \in Guarded => pc'[d] = pc[d]
    PROVE  LocksAreReleased'
  BY DEF LocksAreReleased

\* push, the send it waits for, and the drop of a call.
LEMMA PushActionsBacked ==
    ASSUME EngineAssumption, InOrder, WaitsBacked, NEW c \in Calls,
           Push(c) \/ Send(c) \/ Abandon(c)
    PROVE  WaitsBacked'
<1>0. /\ pc \in [Calls -> Points] /\ lock \in [Workers -> Calls \union {Nobody}]
      /\ job \in [Workers -> [Steps \X Attempts -> JobStates]]
      /\ Engine[c] \in Workers /\ \A d \in Calls : Engine[d] \in Workers
      /\ DOMAIN answer = Calls
  BY EngineAssumption DEF InOrder, CallsInOrder, OthersTypeOK, EngineAssumption
<1>1. pc[c] \in InStep => JobOf(c) \in Steps \X Attempts
  BY StoreAssumption, InStepFacts DEF InOrder, JobOf
<1>2. /\ \A d \in Calls : CallWaits(d)
      /\ ClaimsHaveSender /\ LocksAreReleased /\ OneSender
  BY Parts
<1>3. CASE Push(c)
  <2> DEFINE k == JobOf(c)
             st == job[Engine[c]][k]
  <2>1. /\ pc[c] = "push" /\ k \in Steps \X Attempts
        /\ UNCHANGED <<up, lock, answer, at, attempt>> /\ up[Engine[c]]
        /\ \A d \in Calls : JobOf(d)' = JobOf(d)
    BY <1>1, <1>2, <1>3 DEF Push, OnlyPoint, InStep, JobOf, CallWaits, InProgress, Ended
  <2>2. LocksAreReleased'
    BY <1>0, <1>2, <1>3, <2>1, LocksStay DEF Push, Go, Guarded
  <2>3. CASE st = "ok" \/ st \in {"claimed", "pending", "running"}
    <3>1. job' = job /\ pc' = [pc EXCEPT ![c] = IF st = "ok" THEN "complete" ELSE "await"]
      BY <1>3, <2>3 DEF Push, Go
    <3>2. \A d \in Calls : CallWaits(d)'
      BY <1>0, <1>2, <2>1, <2>3, <3>1 DEF CallWaits, InProgress, Ended
    <3>3. ClaimsHaveSender'
      BY <1>0, <1>2, <2>1, <3>1 DEF ClaimsHaveSender
    <3>4. OneSender'
      BY <1>0, <1>2, <2>1, <3>1 DEF OneSender
    <3> QED BY <2>2, <3>2, <3>3, <3>4, Parts
  <2>4. CASE st \notin {"ok", "claimed", "pending", "running"}
    <3>1. /\ pc' = [pc EXCEPT ![c] = "send"]
          /\ job' = [job EXCEPT ![Engine[c]][k] = "claimed"]
      BY <1>3, <2>4 DEF Push, Go, SetJob
    <3>2. \A w \in Workers, m \in Steps \X Attempts :
              job'[w][m] = IF w = Engine[c] /\ m = k THEN "claimed" ELSE job[w][m]
      BY <1>0, <2>1, <3>1
    <3>3. \A d \in Calls : pc[d] \in {"send", "await"} => JobOf(d) \in Steps \X Attempts
      BY StoreAssumption, InStepFacts DEF InOrder, JobOf, InStep
    <3>4. \A d \in Calls \ {c} : ~ (pc[d] = "send" /\ Engine[d] = Engine[c] /\ JobOf(d) = k)
      BY <1>2, <2>4 DEF CallWaits, InProgress, Ended
    <3>5. \A d \in Calls : CallWaits(d)'
      <4> SUFFICES ASSUME NEW d \in Calls PROVE CallWaits(d)'
        OBVIOUS
      <4>1. CASE d = c
        BY <1>0, <2>1, <3>1, <3>2, <4>1 DEF CallWaits
      <4>2. CASE d # c
        <5>1. pc'[d] = pc[d] /\ (d \in InProgress' => d \in InProgress)
          BY <1>0, <3>1, <4>2 DEF InProgress
        <5> QED BY <1>0, <1>2, <2>1, <3>2, <3>3, <5>1 DEF CallWaits
      <4> QED BY <4>1, <4>2
    <3>6. ClaimsHaveSender'
      <4> SUFFICES ASSUME NEW w \in Workers, NEW m \in Steps \X Attempts, job'[w][m] = "claimed"
                   PROVE  \E d \in Calls : pc'[d] = "send" /\ Engine[d] = w /\ JobOf(d)' = m
        BY DEF ClaimsHaveSender
      <4>1. CASE w = Engine[c] /\ m = k
        BY <1>0, <2>1, <3>1, <4>1
      <4>2. CASE ~ (w = Engine[c] /\ m = k)
        <5>1. PICK d \in Calls : pc[d] = "send" /\ Engine[d] = w /\ JobOf(d) = m
          BY <1>2, <3>2, <4>2 DEF ClaimsHaveSender
        <5>2. pc'[d] = "send"
          BY <1>0, <3>1, <5>1
        <5> QED BY <2>1, <5>1, <5>2
      <4> QED BY <4>1, <4>2
    <3>7. OneSender'
      BY <1>0, <1>2, <2>1, <3>1, <3>4 DEF OneSender
    <3> QED BY <2>2, <3>5, <3>6, <3>7, Parts
  <2> QED BY <2>3, <2>4
<1>4. CASE Send(c)
  <2> DEFINE k == JobOf(c)
  <2>1. /\ pc[c] = "send" /\ k \in Steps \X Attempts
        /\ UNCHANGED <<up, lock, answer, at, attempt>> /\ up[Engine[c]]
        /\ \A d \in Calls : JobOf(d)' = JobOf(d)
        /\ pc' = [pc EXCEPT ![c] = "await"]
        /\ job' = [job EXCEPT ![Engine[c]][k] = "pending"]
    BY <1>1, <1>2, <1>4
       DEF Send, OnlyPoint, InStep, JobOf, CallWaits, InProgress, Ended, Go, SetJob
  <2>2. LocksAreReleased'
    BY <1>0, <1>2, <2>1, LocksStay DEF Guarded
  <2>3. \A w \in Workers, m \in Steps \X Attempts :
            job'[w][m] = IF w = Engine[c] /\ m = k THEN "pending" ELSE job[w][m]
    BY <1>0, <2>1
  <2>4. \A d \in Calls : pc[d] \in {"send", "await"} => JobOf(d) \in Steps \X Attempts
    BY StoreAssumption, InStepFacts DEF InOrder, JobOf, InStep
  <2>5. \A d \in Calls \ {c} : ~ (pc[d] = "send" /\ Engine[d] = Engine[c] /\ JobOf(d) = k)
    BY <1>2, <2>1 DEF OneSender
  <2>6. \A d \in Calls : CallWaits(d)'
    <3> SUFFICES ASSUME NEW d \in Calls PROVE CallWaits(d)'
      OBVIOUS
    <3>1. CASE d = c
      BY <1>0, <2>1, <2>3, <3>1 DEF CallWaits
    <3>2. CASE d # c
      <4>1. pc'[d] = pc[d] /\ (d \in InProgress' => d \in InProgress)
        BY <1>0, <2>1, <3>2 DEF InProgress
      <4> QED BY <1>0, <1>2, <2>1, <2>3, <2>4, <2>5, <3>2, <4>1 DEF CallWaits
    <3> QED BY <3>1, <3>2
  <2>7. ClaimsHaveSender'
    <3> SUFFICES ASSUME NEW w \in Workers, NEW m \in Steps \X Attempts, job'[w][m] = "claimed"
                 PROVE  \E d \in Calls : pc'[d] = "send" /\ Engine[d] = w /\ JobOf(d)' = m
      BY DEF ClaimsHaveSender
    <3>1. ~ (w = Engine[c] /\ m = k) /\ job[w][m] = "claimed"
      BY <2>3
    <3>2. PICK d \in Calls : pc[d] = "send" /\ Engine[d] = w /\ JobOf(d) = m
      BY <1>2, <3>1 DEF ClaimsHaveSender
    <3> QED BY <1>0, <2>1, <3>1, <3>2
  <2>8. OneSender'
    BY <1>0, <1>2, <2>1 DEF OneSender
  <2> QED BY <2>2, <2>6, <2>7, <2>8, Parts
<1>5. CASE Abandon(c)
  <2> DEFINE k == JobOf(c)
  <2>1. /\ pc[c] \in {"send", "await", "backoff"} /\ k \in Steps \X Attempts
        /\ UNCHANGED <<up, lock, at, attempt>>
        /\ \A d \in Calls : JobOf(d)' = JobOf(d)
        /\ pc' = [pc EXCEPT ![c] = "dead"]
    BY <1>1, <1>5 DEF Abandon, InStep, JobOf, Go
  <2>2. LocksAreReleased'
    BY <1>0, <1>2, <2>1, LocksStay DEF Guarded
  <2>3. /\ c \notin InProgress'
        /\ \A d \in Calls \ {c} : pc'[d] = pc[d] /\ (d \in InProgress' => d \in InProgress)
    BY <1>0, <2>1 DEF InProgress, Ended
  <2>4. OneSender'
    BY <1>0, <1>2, <2>1 DEF OneSender
  <2>5. CASE pc[c] # "send"
    <3>1. UNCHANGED <<job, answer>>
      BY <1>5, <2>5 DEF Abandon
    <3>2. \A d \in Calls : CallWaits(d)'
      BY <1>2, <2>1, <2>3, <3>1 DEF CallWaits
    <3>3. ClaimsHaveSender'
      BY <1>0, <1>2, <2>1, <2>5, <3>1 DEF ClaimsHaveSender
    <3> QED BY <2>2, <2>4, <3>2, <3>3, Parts
  <2>6. CASE pc[c] = "send"
    <3>1. /\ job' = [job EXCEPT ![Engine[c]][k] = "none"]
          /\ \A d \in Calls : answer'[d] =
                 IF Awaits(d, Engine[c], k) THEN "lost" ELSE answer[d]
      BY <1>5, <2>6 DEF Abandon, SetJob
    <3>2. \A w \in Workers, m \in Steps \X Attempts :
              job'[w][m] = IF w = Engine[c] /\ m = k THEN "none" ELSE job[w][m]
      BY <1>0, <2>1, <3>1
    <3>3. \A d \in Calls : pc[d] \in {"send", "await"} => JobOf(d) \in Steps \X Attempts
      BY StoreAssumption, InStepFacts DEF InOrder, JobOf, InStep
    <3>4. \A d \in Calls \ {c} : ~ (pc[d] = "send" /\ Engine[d] = Engine[c] /\ JobOf(d) = k)
      BY <1>2, <2>6 DEF OneSender
    <3>5. \A d \in Calls : CallWaits(d)'
      <4> SUFFICES ASSUME NEW d \in Calls, d # c, d \in InProgress' PROVE CallWaits(d)'
        BY <2>3 DEF CallWaits
      <4>1. CASE Awaits(d, Engine[c], k)
        BY <1>2, <2>1, <2>3, <3>1, <4>1 DEF CallWaits, Awaits
      <4>2. CASE ~ Awaits(d, Engine[c], k)
        <5>1. /\ answer'[d] = answer[d] /\ pc'[d] = pc[d] /\ d \in InProgress
              /\ pc[d] = "send" \/ (pc[d] = "await" /\ answer[d] = "none") =>
                    job'[Engine[d]][JobOf(d)] = job[Engine[d]][JobOf(d)]
          BY <1>0, <2>3, <3>1, <3>2, <3>3, <3>4, <4>2 DEF Awaits
        <5> QED BY <1>2, <2>1, <5>1 DEF CallWaits
      <4> QED BY <4>1, <4>2
    <3>6. ClaimsHaveSender'
      <4> SUFFICES ASSUME NEW w \in Workers, NEW m \in Steps \X Attempts, job'[w][m] = "claimed"
                   PROVE  \E d \in Calls : pc'[d] = "send" /\ Engine[d] = w /\ JobOf(d)' = m
        BY DEF ClaimsHaveSender
      <4>1. ~ (w = Engine[c] /\ m = k) /\ job[w][m] = "claimed"
        BY <3>2
      <4>2. PICK d \in Calls : pc[d] = "send" /\ Engine[d] = w /\ JobOf(d) = m
        BY <1>2, <4>1 DEF ClaimsHaveSender
      <4> QED BY <1>0, <2>1, <4>1, <4>2
    <3> QED BY <2>2, <2>4, <3>5, <3>6, Parts
  <2> QED BY <2>5, <2>6
<1> QED BY <1>3, <1>4, <1>5
\* The bodies, and the end and the beginning of a process.
LEMMA EngineActionsBacked ==
    ASSUME EngineAssumption, InOrder, WaitsBacked, NEW w \in Workers,
           \/ \E k \in Steps \X Attempts :
                 BodyStarts(w, k) \/ \E o \in Bodies : BodyEnds(w, k, o)
           \/ Crash(w) \/ Restart(w)
    PROVE  WaitsBacked'
<1>0. /\ pc \in [Calls -> Points] /\ lock \in [Workers -> Calls \union {Nobody}]
      /\ job \in [Workers -> [Steps \X Attempts -> JobStates]]
      /\ up \in [Workers -> BOOLEAN] /\ \A d \in Calls : Engine[d] \in Workers
      /\ Nobody \notin Calls
  BY EngineAssumption DEF InOrder, CallsInOrder, OthersTypeOK, EngineAssumption
<1>1. \A d \in Calls : pc[d] \in {"send", "await"} => JobOf(d) \in Steps \X Attempts
  BY StoreAssumption, InStepFacts DEF InOrder, JobOf, InStep
<1>2. /\ \A d \in Calls : CallWaits(d)
      /\ ClaimsHaveSender /\ LocksAreReleased /\ OneSender
  BY Parts
<1> DEFINE Moves(k, st) ==
             /\ job[w][k] \in {"pending", "running"} /\ job' = [job EXCEPT ![w][k] = st]
             /\ st # "claimed" /\ UNCHANGED <<up, lock, pc, at, attempt>>
             /\ \A d \in Calls :
                   \/ answer'[d] = answer[d]
                      /\ (Engine[d] = w /\ pc[d] = "await" /\ JobOf(d) = k => st = "running")
                   \/ answer'[d] # "none"
<1>3. ASSUME NEW k \in Steps \X Attempts, NEW st, Moves(k, st) PROVE WaitsBacked'
  <2>1. \A v \in Workers, m \in Steps \X Attempts :
            job'[v][m] = IF v = w /\ m = k THEN st ELSE job[v][m]
    BY <1>0, <1>3
  <2>2. \A d \in Calls : JobOf(d)' = JobOf(d) /\ (d \in InProgress' <=> d \in InProgress)
    BY <1>3 DEF JobOf, InProgress
  <2>3. \A d \in Calls : CallWaits(d)'
    <3> SUFFICES ASSUME NEW d \in Calls, d \in InProgress PROVE CallWaits(d)'
      BY <2>2 DEF CallWaits
    <3>1. up'[Engine[d]]
      BY <1>2, <1>3 DEF CallWaits
    <3>2. pc'[d] = "send" => job'[Engine[d]][JobOf(d)'] = "claimed"
      BY <1>0, <1>1, <1>2, <1>3, <2>1, <2>2 DEF CallWaits
    <3>3. pc'[d] = "await" /\ answer'[d] = "none" =>
              job'[Engine[d]][JobOf(d)'] \in {"claimed", "pending", "running"}
      <4> SUFFICES ASSUME pc'[d] = "await", answer'[d] = "none"
                   PROVE  job'[Engine[d]][JobOf(d)] \in {"claimed", "pending", "running"}
        BY <2>2
      <4>1. pc[d] = "await" /\ answer[d] = "none" /\ JobOf(d) \in Steps \X Attempts
        BY <1>1, <1>3
      <4>2. job[Engine[d]][JobOf(d)] \in {"claimed", "pending", "running"}
        BY <1>2, <4>1 DEF CallWaits
      <4> QED BY <1>0, <1>3, <2>1, <4>1, <4>2
    <3> QED BY <3>1, <3>2, <3>3 DEF CallWaits
  <2>4. ClaimsHaveSender'
    BY <1>2, <1>3, <2>1, <2>2 DEF ClaimsHaveSender
  <2>5. LocksAreReleased' /\ OneSender'
    BY <1>2, <1>3, <2>2 DEF LocksAreReleased, OneSender
  <2> QED BY <2>3, <2>4, <2>5, Parts
<1>4. ASSUME NEW k \in Steps \X Attempts, BodyStarts(w, k) PROVE WaitsBacked'
  <2>1. Moves(k, "running")
    BY <1>4 DEF BodyStarts, SetJob, calls
  <2> HIDE DEF Moves
  <2> QED BY <1>3, <2>1
<1>5. ASSUME NEW k \in Steps \X Attempts, NEW o \in Bodies, BodyEnds(w, k, o) PROVE WaitsBacked'
  <2>1. o # "claimed" /\ o # "none"
    BY EngineAssumption DEF EngineAssumption
  <2>2. Moves(k, o)
    BY <1>5, <2>1 DEF BodyEnds, SetJob, Awaits
  <2> HIDE DEF Moves
  <2> QED BY <1>3, <2>2
<1>6. CASE Crash(w)
  <2>1. /\ up' = [up EXCEPT ![w] = FALSE] /\ lock' = [lock EXCEPT ![w] = Nobody]
        /\ job' = [job EXCEPT ![w] = NoJobs] /\ UNCHANGED <<at, attempt, answer>>
        /\ \A d \in Calls : pc'[d] = IF Engine[d] = w /\ d \in InProgress THEN "dead" ELSE pc[d]
    BY <1>6 DEF Crash
  <2>2. \A d \in Calls : /\ JobOf(d)' = JobOf(d)
                         /\ d \in InProgress' => d \in InProgress /\ Engine[d] # w
                         /\ Engine[d] # w => pc'[d] = pc[d]
    BY <2>1 DEF JobOf, InProgress, Ended
  <2>3. \A v \in Workers, m \in Steps \X Attempts :
            job'[v][m] = IF v = w THEN "none" ELSE job[v][m]
    BY <1>0, <2>1 DEF NoJobs
  <2>4. \A d \in Calls : CallWaits(d)'
    BY <1>0, <1>1, <1>2, <2>1, <2>2, <2>3 DEF CallWaits
  <2>5. ClaimsHaveSender'
    BY <1>2, <2>2, <2>3 DEF ClaimsHaveSender
  <2>6. LocksAreReleased'
    <3> SUFFICES ASSUME NEW v \in Workers, lock'[v] # Nobody
                 PROVE  Engine[lock'[v]] = v /\ pc'[lock'[v]] \in Guarded
      BY DEF LocksAreReleased
    <3>1. v # w /\ lock'[v] = lock[v] /\ lock[v] \in Calls
      BY <1>0, <2>1
    <3> QED BY <1>2, <2>2, <3>1 DEF LocksAreReleased
  <2>7. OneSender'
    BY <1>2, <2>1, <2>2 DEF OneSender
  <2> QED BY <2>4, <2>5, <2>6, <2>7, Parts
<1>7. CASE Restart(w)
  <2>1. /\ up' = [up EXCEPT ![w] = TRUE] /\ UNCHANGED <<lock, job, pc, at, attempt, answer>>
    BY <1>7 DEF Restart, calls
  <2>2. \A d \in Calls : JobOf(d)' = JobOf(d) /\ (d \in InProgress' <=> d \in InProgress)
    BY <2>1 DEF JobOf, InProgress
  <2>3. \A d \in Calls : CallWaits(d)'
    BY <1>0, <1>2, <2>1, <2>2 DEF CallWaits
  <2> QED BY <1>2, <2>1, <2>2, <2>3, Parts DEF ClaimsHaveSender, LocksAreReleased, OneSender
<1> QED BY <1>4, <1>5, <1>6, <1>7

LEMMA WaitsBackedNext ==
    ASSUME StoreAssumption, EngineAssumption, InOrder, WaitsBacked, [Next]_vars
    PROVE  WaitsBacked'
<1>1. ASSUME NEW c \in Calls, \/ Begin(c) \/ Step(c) \/ TimeOut(c) \/ StoreFails(c)
                              \/ Abandon(c)
      PROVE  WaitsBacked'
  BY <1>1, AsideActionsBacked, PushActionsBacked, Zenon DEF Step
<1>2. ASSUME NEW w \in Workers,
             \/ \E k \in Steps \X Attempts :
                   BodyStarts(w, k) \/ \E o \in Bodies : BodyEnds(w, k, o)
             \/ Crash(w) \/ Restart(w)
      PROVE  WaitsBacked'
  BY <1>2, EngineActionsBacked
<1>3. CASE \/ \E c \in Calls : Renew(c)
           \/ \E s \in Steps : LeaseExpires(s)
           \/ UNCHANGED vars
  <2>1. UNCHANGED <<up, lock, job, pc, at, attempt, answer>>
    BY <1>3 DEF Renew, LeaseExpires, vars, engines, calls
  <2> QED BY <2>1 DEF WaitsBacked, EveryWaitIsBacked, OneSender, InProgress, JobOf
<1> QED BY <1>1, <1>2, <1>3, Zenon DEF Next, Quiet

\* Nobody waits for what cannot come: who waits for a job finds it claimed, queued or
\* running, who joined a claim has its sender, and terminal_write is held by a call
\* that releases it next; for any number of calls and engines and with every fault
\* (engine.rs:341-356, 466-517, 587-600, state.rs:66-98).
THEOREM WaitsAreBacked == Spec => []EveryWaitIsBacked
<1>1. Init => WaitsBacked
  BY EngineAssumption
     DEF Init, WaitsBacked, EveryWaitIsBacked, OneSender, InProgress, NoJobs, EngineAssumption
<1>2. InOrder /\ WaitsBacked /\ [Next]_vars => WaitsBacked'
  BY WaitsBackedNext, StoreAssumption, EngineAssumption
<1>3. WaitsBacked => EveryWaitIsBacked
  BY DEF WaitsBacked
<1> QED BY <1>1, <1>2, <1>3, EngineInOrder, PTL DEF Spec
=============================================================================
