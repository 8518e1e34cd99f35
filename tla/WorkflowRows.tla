---------------------------- MODULE WorkflowRows ----------------------------
(***************************************************************************)
(* The proof that the rows and the log of WorkflowEngine agree, and that   *)
(* work is leased, when calls do not overlap: for any number of engines,   *)
(* calls, steps and attempts, and with every fault.  Two calls that        *)
(* overlap do break both, which is why the hypothesis is there.            *)
(***************************************************************************)
EXTENDS WorkflowEngineProofs

OneAtATime == \A c, d \in InProgress : c = d

\* The points at which a call holds a lease.
Leasing == {"begin", "push", "send", "await", "complete", "wait", "fail", "fatal"}

LeasedTo(c) == rows[at[c]].status = "leased" /\ rows[at[c]].holder = Engine[c]

InStepWithLog == OneAtATime /\ WorkIsLeased /\ RowsMatchLog

Only(c) == \A d \in InProgress : d = c

(***************************************************************************)
(* The store                                                               *)
(***************************************************************************)

\* The status that the log shows is the one its last event of the step gives it
\* (engine.rs:727-755).
LEMMA StatusAppended ==
    ASSUME StoreTypeOK, NEW type, NEW s, NEW a, NEW c, AppendEvent(type, s, a, c),
           NEW t \in Steps, t = s => type \in StepEvents
    PROVE  StatusFromLog(t)' = IF t = s THEN StatusAfter(type) ELSE StatusFromLog(t)
<1> DEFINE e == [type |-> type, step |-> s, attempt |-> a, by |-> c]
           n == Len(log) + 1
<1>1. log \in Seq(Events) /\ log' = Append(log, e)
  BY DEF StoreTypeOK, AppendEvent
<1>2. e.type = type /\ e.step = s
  OBVIOUS
<1> HIDE DEF e
<1>3. /\ Len(log) \in Nat /\ DOMAIN log = 1..Len(log) /\ DOMAIN log' = 1..n
      /\ \A i \in DOMAIN log : log'[i] = log[i] /\ i # n
      /\ log'[n] = e
  BY <1>1
<1>4. Positions(StepEvents, t)' = Positions(StepEvents, t) \union (IF t = s THEN {n} ELSE {})
  BY <1>2, <1>3 DEF Positions
<1>5. CASE t = s
  <2> DEFINE P == Positions(StepEvents, t)'
             last == CHOOSE i \in P : \A j \in P : j <= i
  <2>1. n \in P /\ \A j \in P : j <= n
    BY <1>3, <1>4, <1>5 DEF Positions
  <2>2. last \in P /\ \A j \in P : j <= last
    <3> HIDE DEF P
    <3> QED BY <2>1
  <2>3. P \subseteq Nat
    BY <1>3 DEF Positions
  <2>4. last = n
    <3> HIDE DEF P, last
    <3> QED BY <2>1, <2>2, <2>3
  <2>5. LastEvent(StepEvents, t)' = log'[last]
    BY DEF LastEvent
  <2>6. LastEvent(StepEvents, t)'.type = type
    BY <1>2, <1>3, <2>4, <2>5
  <2>7. P # {}
    BY <2>1
  <2> HIDE DEF P, last
  <2> QED BY <1>5, <2>6, <2>7, Zenon DEF P, StatusFromLog, StatusAfter
<1>6. CASE t # s
  <2>1. Positions(StepEvents, t)' = Positions(StepEvents, t)
    BY <1>4, <1>6
  <2>2. CASE Positions(StepEvents, t) = {}
    BY <1>6, <2>1, <2>2 DEF StatusFromLog
  <2>3. CASE Positions(StepEvents, t) # {}
    <3>1. PICK i \in DOMAIN log : /\ LastEvent(StepEvents, t) = log[i]
                                 /\ i = CHOOSE k \in Positions(StepEvents, t) :
                                           \A j \in Positions(StepEvents, t) : j <= k
      <4> DEFINE P == Positions(StepEvents, t)
                 last == CHOOSE k \in P : \A j \in P : j <= k
      <4>1. P \subseteq 1..Len(log)
        BY <1>3 DEF Positions
      <4>2. \E k \in P : \A j \in P : j <= k
        <5> HIDE DEF P
        <5> QED BY <1>3, <2>3, <4>1, HasMax DEF P
      <4>3. last \in P
        <5> HIDE DEF P
        <5> QED BY <4>2
      <4> QED BY <1>3, <4>1, <4>3 DEF LastEvent
    <3>2. LastEvent(StepEvents, t)' = log'[i]
      BY <2>1, <3>1 DEF LastEvent
    <3>3. LastEvent(StepEvents, t)' = LastEvent(StepEvents, t)
      BY <1>3, <3>1, <3>2
    <3> QED BY <1>6, <2>1, <3>3 DEF StatusFromLog
  <2> QED BY <2>2, <2>3
<1> QED BY <1>5, <1>6

\* An event gives the row of its step the status it gives the log, unless it starts
\* an attempt, whose row is leased (sqlite.rs:332-448).
LEMMA AppendMatches ==
    ASSUME StoreTypeOK, RowsMatchLog,
           NEW type, NEW s, NEW a, NEW c, AppendEvent(type, s, a, c),
           s \in Steps => type \in StepEvents,
           type = "StepStarted" => rows[s].status = "leased"
    PROVE  RowsMatchLog'
<1> SUFFICES ASSUME NEW t \in Steps, rows'[t].status \notin {"leased", "absent"}
             PROVE  rows'[t].status = StatusFromLog(t)'
  BY DEF RowsMatchLog
<1> DEFINE e == [type |-> type, step |-> s, attempt |-> a, by |-> c]
<1>1. rows' = [u \in Steps |-> IF u = s THEN Projected(rows[u], e) ELSE rows[u]]
  BY DEF AppendEvent
<1>2. StatusFromLog(t)' = IF t = s THEN StatusAfter(type) ELSE StatusFromLog(t)
  BY StatusAppended
<1>3. CASE t # s
  BY <1>1, <1>2, <1>3 DEF RowsMatchLog
<1>4. CASE t = s /\ type = "StepStarted"
  <2>1. rows'[t] = rows[t]
    BY <1>1, <1>4 DEF Projected, Projects
  <2> QED BY <1>4, <2>1
<1>5. CASE t = s /\ type # "StepStarted"
  <2>1. type \in StepEvents
    BY <1>5
  <2>2. rows'[t].status = StatusAfter(type)
    BY <1>1, <1>5, <2>1 DEF Projected, Projects, NoRow
  <2> QED BY <1>2, <1>5, <2>2
<1> QED BY <1>3, <1>4, <1>5

\* A claim makes a row leased; renewal and expiry leave its status alone.
LEMMA LeaseMatches ==
    ASSUME StoreTypeOK, RowsMatchLog, log' = log, NEW s \in Steps,
           \/ \E w \in Workers : ClaimStep(s, w) \/ RenewLease(s, w)
           \/ ExpireLease(s)
           \/ UNCHANGED rows
    PROVE  RowsMatchLog'
<1>1. \A t \in Steps : rows'[t].status = rows[t].status \/ rows'[t].status = "leased"
  BY DEF StoreTypeOK, Rows, ClaimStep, RenewLease, ExpireLease
<1>2. \A t \in Steps : StatusFromLog(t)' = StatusFromLog(t)
  BY DEF StatusFromLog, Positions, LastEvent
<1> QED BY <1>1, <1>2 DEF RowsMatchLog

(***************************************************************************)
(* The calls                                                               *)
(***************************************************************************)

\* A call that goes on with no other in progress.
LEMMA MovesAlone ==
    ASSUME CallsInOrder, NEW c \in Calls, Only(c), NEW p, Go(c, p),
           p \in Leasing => LeasedTo(c)'
    PROVE  OneAtATime' /\ WorkIsLeased'
<1>1. pc'[c] = p /\ \A d \in Calls \ {c} : pc'[d] = pc[d]
  BY DEF CallsInOrder, Go
<1>2. \A d \in Calls \ {c} : pc'[d] \in Ended \union {"idle"}
  BY <1>1 DEF Only, InProgress
<1>3. OneAtATime'
  BY <1>2 DEF OneAtATime, InProgress
<1>4. \A d \in Calls \ {c} : pc'[d] \notin Leasing
  BY <1>2 DEF Ended, Leasing
<1>5. WorkIsLeased'
  BY <1>1, <1>4 DEF WorkIsLeased, Leasing, LeasedTo
<1> QED BY <1>3, <1>5

\* A call is made only when none is in progress.
LEMMA BeginsAlone ==
    ASSUME MaxConcurrent = 1, OneAtATime, NEW c \in Calls, NEW kind, Called(c, kind)
    PROVE  Only(c)
<1>1. Cardinality(InProgress) < 1
  BY DEF Called
<1>2. CASE InProgress = {}
  BY <1>2 DEF Only
<1>3. CASE InProgress # {}
  <2>1. PICK d \in InProgress : InProgress = {d}
    BY <1>3 DEF OneAtATime
  <2>2. Cardinality(InProgress) = 1
    BY <2>1, FS_Singleton, Zenon
  <2> QED BY <1>1, <2>2
<1> QED BY <1>2, <1>3

\* The actions of a call that leave the store alone and take it to no lease.
LEMMA FreeMoves ==
    ASSUME StoreAssumption, StoreTypeOK, CallsInOrder, InStepWithLog, MaxConcurrent = 1,
           NEW c \in Calls,
           \/ Refuse(c) \/ Register(c) \/ Run(c)
           \/ CancelLoad(c) \/ ResumeLoad(c) \/ RecoverLoad(c)
           \/ Mount(c) \/ DriveStep(c) \/ Finish(c) \/ Unregister(c) \/ BackOff(c)
           \/ Unmount(c) \/ Remount(c) \/ Forget(c) \/ ResumeLookup(c) \/ RecoverEnds(c)
           \/ ReadmitLookup(c) \/ StoreFails(c) \/ Abandon(c)
    PROVE  InStepWithLog'
<1>1. UNCHANGED store /\ \E p \in Points \ Leasing : Go(c, p)
  BY DEF Refuse, Register, Run, CancelLoad, ResumeLoad, RecoverLoad, Mount, DriveStep, Finish,
         Unregister, BackOff, Unmount, Remount, Forget, ResumeLookup, RecoverEnds,
         ReadmitLookup, StoreFails, Abandon, Leave, Points, Ended, Leasing
<1>2. Only(c)
  <2>1. CASE \/ Refuse(c) \/ Register(c) \/ Run(c)
             \/ CancelLoad(c) \/ ResumeLoad(c) \/ RecoverLoad(c)
    BY <2>1, BeginsAlone
    DEF InStepWithLog, Refuse, Register, Run, CancelLoad, ResumeLoad, RecoverLoad
  <2>2. CASE \/ Mount(c) \/ DriveStep(c) \/ Finish(c) \/ Unregister(c) \/ BackOff(c)
             \/ Unmount(c) \/ Remount(c) \/ Forget(c) \/ ResumeLookup(c) \/ RecoverEnds(c)
             \/ ReadmitLookup(c) \/ StoreFails(c) \/ Abandon(c)
    <3>1. c \in InProgress
      BY <2>2 DEF Mount, DriveStep, Finish, Unregister, BackOff, Unmount, Remount, Forget,
                  ResumeLookup, RecoverEnds, ReadmitLookup, StoreFails, Abandon, InProgress,
                  Ended
    <3> QED BY <3>1 DEF InStepWithLog, OneAtATime, Only
  <2> QED BY <2>1, <2>2
<1>3. OneAtATime' /\ WorkIsLeased'
  BY <1>1, <1>2, MovesAlone
<1>4. 0 \in Steps
  BY DEF Steps, StoreAssumption
<1>5. RowsMatchLog'
  BY <1>1, <1>4, LeaseMatches DEF InStepWithLog, store
<1> QED BY <1>3, <1>5 DEF InStepWithLog

\* The actions from the claim of a step to the outcome of the attempt.
LEMMA LeasedMoves ==
    ASSUME StoreAssumption, EngineAssumption, StoreTypeOK, CallsInOrder, InStepWithLog,
           NEW c \in Calls,
           \/ Claim(c) \/ RecordStepStarted(c) \/ Push(c) \/ Send(c) \/ Resolve(c)
           \/ TimeOut(c)
    PROVE  InStepWithLog'
<1>0. /\ pc[c] \in InStep /\ c \in InProgress
      /\ \A s \in Steps : rows[s] \in Rows
  BY DEF Claim, RecordStepStarted, Push, Send, Resolve, TimeOut, InStep, InProgress, Ended,
         StoreTypeOK
<1>1. Only(c) /\ RowsMatchLog
  BY <1>0 DEF InStepWithLog, OneAtATime, Only
<1>2. PICK s \in Steps, w \in Workers : s = at[c] /\ w = Engine[c]
  BY <1>0, InStepFacts, EngineAssumption DEF EngineAssumption
<1>3. pc[c] \in Leasing => LeasedTo(c)
  BY DEF InStepWithLog, WorkIsLeased, Leasing, LeasedTo
<1>4. CASE Claim(c)
  <2>1. log' = log /\ ClaimStep(s, w)
    BY <1>2, <1>4 DEF Claim
  <2>2. RowsMatchLog'
    BY <1>1, <2>1, LeaseMatches
  <2>3. PICK p \in {"begin", "drive", "remount", "next", "ok", "unmount"} :
          /\ Go(c, p)
          /\ p = "begin" => UNCHANGED at /\ ClaimResult(rows[s], w) = "Claimed"
    BY <1>2, <1>4 DEF Claim, StepDone, Leave
  <2>4. p = "begin" => LeasedTo(c)'
    BY <1>2, <2>1, <2>3 DEF ClaimStep, LeasedTo, StoreTypeOK
  <2>5. OneAtATime' /\ WorkIsLeased'
    BY <1>1, <2>3, <2>4, MovesAlone DEF Leasing
  <2> QED BY <2>2, <2>5 DEF InStepWithLog
<1>5. CASE RecordStepStarted(c)
  <2>1. /\ AppendEvent("StepStarted", s, attempt[c], c) /\ Go(c, "push") /\ UNCHANGED at
        /\ LeasedTo(c)
    BY <1>2, <1>3, <1>5 DEF RecordStepStarted, AppendStep, OnlyPoint, Leasing
  <2>2. RowsMatchLog'
    BY <1>1, <1>2, <2>1, AppendMatches DEF LeasedTo, StepEvents
  <2>3. rows'[s] = rows[s]
    BY <2>1 DEF AppendEvent, Projected, Projects
  <2>4. OneAtATime' /\ WorkIsLeased'
    BY <1>1, <1>2, <2>1, <2>3, MovesAlone DEF LeasedTo
  <2> QED BY <2>2, <2>4 DEF InStepWithLog
<1>6. CASE Push(c) \/ Send(c) \/ Resolve(c) \/ TimeOut(c)
  <2>1. UNCHANGED store /\ UNCHANGED at /\ pc[c] \in Leasing /\ \E p : Go(c, p)
    BY <1>6 DEF Push, Send, Resolve, TimeOut, OnlyPoint, Leasing
  <2>2. RowsMatchLog'
    BY <1>1, <2>1, LeaseMatches DEF store
  <2>3. LeasedTo(c)'
    BY <1>3, <2>1 DEF LeasedTo, store
  <2>4. OneAtATime' /\ WorkIsLeased'
    BY <1>1, <2>1, <2>3, MovesAlone
  <2> QED BY <2>2, <2>4 DEF InStepWithLog
<1> QED BY <1>4, <1>5, <1>6

\* The other events, after each of which the call holds no lease.
LEMMA WritingMoves ==
    ASSUME StoreAssumption, StoreTypeOK, CallsInOrder, InStepWithLog, NEW c \in Calls,
           \/ RecordStarted(c) \/ RecordCompleted(c) \/ RecordWorkflowFailed(c)
           \/ RecordCancelled(c) \/ RecordStepCompleted(c) \/ RecordStepWaiting(c)
           \/ RecordStepFailed(c) \/ RecordRetryScheduled(c) \/ RecordResumed(c)
           \/ (\E x \in todo[c] : Readmit(c, x))
    PROVE  InStepWithLog'
<1>1. \E p \in Points \ Leasing : Go(c, p)
  BY DEF RecordStarted, RecordCompleted, RecordWorkflowFailed, RecordCancelled,
         RecordStepCompleted, RecordStepWaiting, RecordStepFailed, RecordRetryScheduled,
         RecordResumed, Readmit, StepDone, Leave, Points, Ended, Leasing
<1>2. c \in InProgress
  BY DEF RecordStarted, RecordCompleted, RecordWorkflowFailed, RecordCancelled,
         RecordStepCompleted, RecordStepWaiting, RecordStepFailed, RecordRetryScheduled,
         RecordResumed, Readmit, InProgress, Ended
<1>3. OneAtATime' /\ WorkIsLeased'
  BY <1>1, <1>2, MovesAlone DEF InStepWithLog, OneAtATime, Only
<1>4. NoStep \notin Steps
  BY DEF NoStep, Steps
<1>5. \E type, s, a : /\ AppendEvent(type, s, a, c)
                      /\ s \in Steps => type \in StepEvents
                      /\ type # "StepStarted"
  BY <1>4 DEF RecordStarted, RecordCompleted, RecordWorkflowFailed, RecordCancelled,
              RecordStepCompleted, RecordStepWaiting, RecordStepFailed,
              RecordRetryScheduled, RecordResumed, Readmit, AppendStep, AppendWorkflow,
              StepEvents
<1>6. RowsMatchLog'
  BY <1>5, AppendMatches DEF InStepWithLog
<1> QED BY <1>3, <1>6 DEF InStepWithLog

LEMMA InStepWithLogNext ==
    ASSUME StoreAssumption, EngineAssumption, MaxConcurrent = 1, InOrder, InStepWithLog,
           [Next]_vars
    PROVE  InStepWithLog'
<1>0. StoreTypeOK /\ CallsInOrder
  BY DEF InOrder, StoreInOrder
<1>1. ASSUME NEW c \in Calls,
             \/ Begin(c) \/ Step(c) \/ TimeOut(c) \/ StoreFails(c) \/ Abandon(c)
      PROVE  InStepWithLog'
  BY <1>0, <1>1, FreeMoves, LeasedMoves, WritingMoves DEF Begin, Step
<1>2. ASSUME UNCHANGED at, \A c \in Calls : pc'[c] = pc[c] \/ pc'[c] = "dead",
             \A s \in Steps : /\ rows'[s].status = rows[s].status
                              /\ rows'[s].holder = rows[s].holder
      PROVE  OneAtATime' /\ WorkIsLeased'
  <2>1. OneAtATime'
    BY <1>2 DEF InStepWithLog, OneAtATime, InProgress, Ended
  <2>2. \A c \in Calls : pc[c] \in InStep => at[c] \in Steps
    BY <1>0, InStepFacts
  <2>3. WorkIsLeased'
    BY <1>2, <2>2 DEF InStepWithLog, WorkIsLeased, InStep
  <2> QED BY <2>1, <2>3
<1>3. ASSUME (\E c \in Calls : Renew(c)) \/ (\E s \in Steps : LeaseExpires(s))
      PROVE  InStepWithLog'
  <2>1. log' = log /\ UNCHANGED <<pc, at>>
    BY <1>3 DEF Renew, LeaseExpires, calls
  <2>2. PICK s \in Steps : (\E w \in Workers : RenewLease(s, w)) \/ ExpireLease(s)
    BY <1>0, <1>3, InStepFacts, EngineAssumption
       DEF Renew, LeaseExpires, InStep, EngineAssumption
  <2>3. \A t \in Steps : rows'[t].status = rows[t].status /\ rows'[t].holder = rows[t].holder
    BY <1>0, <2>2 DEF RenewLease, ExpireLease, StoreTypeOK, Rows
  <2>4. RowsMatchLog'
    BY <1>0, <2>1, <2>2, LeaseMatches DEF InStepWithLog
  <2> QED BY <1>2, <2>1, <2>3, <2>4 DEF InStepWithLog
<1>4. CASE \/ \E w \in Workers, k \in Steps \X Attempts :
                 BodyStarts(w, k) \/ \E o \in Bodies : BodyEnds(w, k, o)
           \/ \E w \in Workers : Crash(w) \/ Restart(w)
           \/ UNCHANGED vars
  <2>1. /\ UNCHANGED store /\ UNCHANGED at
        /\ \A c \in Calls : pc'[c] = pc[c] \/ pc'[c] = "dead"
    BY <1>0, <1>4 DEF BodyStarts, BodyEnds, Crash, Restart, vars, calls, CallsInOrder
  <2>2. 0 \in Steps
    BY DEF Steps, StoreAssumption
  <2>3. RowsMatchLog'
    BY <1>0, <2>1, <2>2, LeaseMatches DEF InStepWithLog, store
  <2> QED BY <1>2, <2>1, <2>3 DEF InStepWithLog, store
<1> QED BY <1>1, <1>3, <1>4, Zenon DEF Next, Quiet

LEMMA InStepWithLogAlways == ASSUME MaxConcurrent = 1 PROVE Spec => []InStepWithLog
<1>1. Init => InStepWithLog
  BY DEF Init, StoreInit, NoRow, InStepWithLog, OneAtATime, InProgress, WorkIsLeased,
         RowsMatchLog
<1>2. InOrder /\ InStepWithLog /\ [Next]_vars => InStepWithLog'
  BY InStepWithLogNext, StoreAssumption, EngineAssumption
<1> QED BY <1>1, <1>2, EngineInOrder, PTL DEF Spec

\* When calls do not overlap, the two places that keep the status of a step agree,
\* through crashes, store errors, abandoned calls and recoveries, although different
\* code writes and reads them (sqlite.rs:332-448, engine.rs:727-755).
THEOREM RowsFollowLog == ASSUME MaxConcurrent = 1 PROVE Spec => []RowsMatchLog
<1>1. InStepWithLog => RowsMatchLog
  BY DEF InStepWithLog
<1> QED BY <1>1, InStepWithLogAlways, PTL

\* When calls do not overlap, whoever works on a step holds its lease, so that a
\* crash leaves a lease for recover to find (sqlite.rs:335-339, engine.rs:562-595).
THEOREM WorkersHoldLeases == ASSUME MaxConcurrent = 1 PROVE Spec => []WorkIsLeased
<1>1. InStepWithLog => WorkIsLeased
  BY DEF InStepWithLog
<1> QED BY <1>1, InStepWithLogAlways, PTL
(***************************************************************************)
(* A completed step is not done again.  That no completed step is pushed   *)
(* is not inductive: a recover may hold a snapshot of several leases, and  *)
(* readmitting one step goes on to the steps behind it.  What saves it is  *)
(* that a completed row shows its completion, so that at most one row is   *)
(* leased and a snapshot has at most one entry.                            *)
(***************************************************************************)

DoneRowsShowIt ==
    \A s \in Steps : LoggedFor("StepCompleted", s) => rows[s].status = "completed"

\* The points from which a call makes the row of its step pending.
Reopening == {"reschedule", "lookup", "resume"}

Leased(s) == rows[s].status = "leased"

SnapshotHolds(c) ==
    pc[c] = "next" => /\ \A x \in todo[c] : Leased(x.step)
                      /\ \A x, y \in todo[c] : x = y

DoneOnce ==
    /\ DoneRowsShowIt
    /\ \A c \in Calls : /\ pc[c] \in Reopening => ~ LoggedFor("StepCompleted", at[c])
                        /\ pc[c] \notin Ended \union {"next"} => todo[c] = {}
                        /\ SnapshotHolds(c)

\* An event of a step that is not done, and any completion, leaves done rows done.
LEMMA AppendKeepsDone ==
    ASSUME StoreTypeOK, DoneRowsShowIt, NEW type, NEW s, NEW a, NEW c,
           AppendEvent(type, s, a, c),
           type # "StepCompleted" /\ s \in Steps => ~ LoggedFor("StepCompleted", s)
    PROVE  /\ DoneRowsShowIt'
           /\ type # "StepCompleted" =>
                 \A t \in Steps : LoggedFor("StepCompleted", t)' => LoggedFor("StepCompleted", t)
<1> DEFINE e == [type |-> type, step |-> s, attempt |-> a, by |-> c]
<1>1. /\ rows' = [t \in Steps |-> IF t = s THEN Projected(rows[t], e) ELSE rows[t]]
      /\ \A i \in DOMAIN log' : \/ i \in DOMAIN log /\ log'[i] = log[i]
                                \/ log'[i] = e
  BY DEF AppendEvent, StoreTypeOK
<1>2. \A t \in Steps : LoggedFor("StepCompleted", t)' =>
          LoggedFor("StepCompleted", t) \/ (t = s /\ type = "StepCompleted")
  BY <1>1 DEF LoggedFor
<1>3. ASSUME NEW t \in Steps, LoggedFor("StepCompleted", t)'
      PROVE  rows'[t].status = "completed"
  <2>1. CASE t = s /\ type = "StepCompleted"
    BY <1>1, <2>1 DEF Projected, Projects, StepEvents, StatusAfter, NoRow
  <2>2. CASE ~ (t = s /\ type = "StepCompleted")
    <3>1. LoggedFor("StepCompleted", t) /\ t # s
      BY <1>2, <1>3, <2>2
    <3> QED BY <1>1, <3>1 DEF DoneRowsShowIt
  <2> QED BY <2>1, <2>2
<1> QED BY <1>2, <1>3 DEF DoneRowsShowIt

\* No claim, renewal or expiry touches a completed row (sqlite.rs:258-263).
LEMMA LeaseKeepsDone ==
    ASSUME StoreTypeOK, DoneRowsShowIt, log' = log, NEW s \in Steps,
           \/ \E w \in Workers : ClaimStep(s, w) \/ RenewLease(s, w)
           \/ ExpireLease(s)
           \/ UNCHANGED rows
    PROVE  /\ DoneRowsShowIt'
           /\ \A t \in Steps : LoggedFor("StepCompleted", t)' <=> LoggedFor("StepCompleted", t)
<1>1. \A t \in Steps : rows[t].status = "completed" => rows'[t].status = "completed"
  BY DEF StoreTypeOK, Rows, ClaimStep, ClaimResult, RenewLease, ExpireLease
<1>2. \A t \in Steps : LoggedFor("StepCompleted", t)' <=> LoggedFor("StepCompleted", t)
  BY DEF LoggedFor
<1> QED BY <1>1, <1>2 DEF DoneRowsShowIt

\* A step that is leased or in the middle of being reopened is not done.
LEMMA WorkIsNotDone ==
    ASSUME StoreAssumption, CallsInOrder, WorkIsLeased, DoneOnce, NEW c \in Calls,
           pc[c] \in Leasing \union Reopening
    PROVE  ~ LoggedFor("StepCompleted", at[c])
<1>1. at[c] \in Steps
  BY InStepFacts DEF Leasing, Reopening, InStep
<1> QED BY <1>1 DEF DoneOnce, DoneRowsShowIt, WorkIsLeased, Leasing

\* A call that goes on with no other in progress.
LEMMA GoesOnDone ==
    ASSUME CallsInOrder, DoneOnce, NEW c \in Calls, Only(c), NEW p, Go(c, p),
           DoneRowsShowIt',
           \A d \in Calls \ {c} : todo'[d] = todo[d],
           p \in Reopening => ~ LoggedFor("StepCompleted", at[c])',
           p \notin Ended \union {"next"} => todo'[c] = {},
           p = "next" => SnapshotHolds(c)'
    PROVE  DoneOnce'
<1>1. pc'[c] = p /\ \A d \in Calls \ {c} : pc'[d] = pc[d]
  BY DEF CallsInOrder, Go
<1>2. \A d \in Calls \ {c} : pc'[d] \in Ended \union {"idle"}
  BY <1>1 DEF Only, InProgress
<1>3. ASSUME NEW d \in Calls \ {c}
      PROVE  /\ pc'[d] \notin Reopening \union {"next"}
             /\ pc'[d] \notin Ended \union {"next"} => todo'[d] = {}
  BY <1>1, <1>2 DEF DoneOnce, Reopening, Ended
<1>4. \A d \in Calls : SnapshotHolds(d)'
  BY <1>1, <1>3 DEF SnapshotHolds
<1> QED BY <1>1, <1>3, <1>4 DEF DoneOnce

\* The actions of a call that leave the store alone.
LEMMA DoneFreely ==
    ASSUME StoreAssumption, EngineAssumption, MaxConcurrent = 1, StoreTypeOK, RowsInOrder,
           CallsInOrder, InStepWithLog, DoneOnce, NEW c \in Calls,
           \/ Refuse(c) \/ Register(c) \/ Run(c)
           \/ CancelLoad(c) \/ ResumeLoad(c) \/ RecoverLoad(c)
           \/ Mount(c) \/ DriveStep(c) \/ Finish(c) \/ Unregister(c) \/ BackOff(c)
           \/ Unmount(c) \/ Remount(c) \/ Forget(c) \/ ResumeLookup(c) \/ RecoverEnds(c)
           \/ ReadmitLookup(c) \/ StoreFails(c) \/ Abandon(c)
           \/ Push(c) \/ Send(c) \/ Resolve(c) \/ TimeOut(c)
    PROVE  DoneOnce'
<1>1. UNCHANGED store
  BY DEF Refuse, Register, Run, CancelLoad, ResumeLoad, RecoverLoad, Mount, DriveStep, Finish,
         Unregister, BackOff, Unmount, Remount, Forget, ResumeLookup, RecoverEnds,
         ReadmitLookup, StoreFails, Abandon, Push, Send, Resolve, TimeOut
<1>2. /\ DoneRowsShowIt'
      /\ \A t \in Steps : LoggedFor("StepCompleted", t)' <=> LoggedFor("StepCompleted", t)
  <2>1. 0 \in Steps
    BY DEF Steps, StoreAssumption
  <2> QED BY <1>1, <2>1, LeaseKeepsDone DEF DoneOnce, store
<1>3. Only(c)
  <2>1. CASE \/ Refuse(c) \/ Register(c) \/ Run(c)
             \/ CancelLoad(c) \/ ResumeLoad(c) \/ RecoverLoad(c)
    BY <2>1, BeginsAlone
    DEF InStepWithLog, Refuse, Register, Run, CancelLoad, ResumeLoad, RecoverLoad
  <2>2. CASE ~ (\/ Refuse(c) \/ Register(c) \/ Run(c)
                \/ CancelLoad(c) \/ ResumeLoad(c) \/ RecoverLoad(c))
    <3>1. c \in InProgress
      BY <2>2 DEF Mount, DriveStep, Finish, Unregister, BackOff, Unmount, Remount, Forget,
                  ResumeLookup, RecoverEnds, ReadmitLookup, StoreFails, Abandon, Push, Send,
                  Resolve, TimeOut, InProgress, Ended
    <3> QED BY <3>1 DEF InStepWithLog, OneAtATime, Only
  <2> QED BY <2>1, <2>2
<1>4. CASE ResumeLoad(c)
  <2>1. CASE Go(c, "error") /\ UNCHANGED todo
    BY <1>2, <1>3, <2>1, GoesOnDone DEF Reopening, Ended
  <2>2. CASE ~ (Go(c, "error") /\ UNCHANGED todo)
    <3>1. /\ Go(c, "lookup") /\ UNCHANGED todo /\ at'[c] = Target[c] /\ pc[c] = "idle"
          /\ StatusFromLog(Target[c]) = "waiting" /\ Target[c] \in Steps
      BY <1>4, <2>2 DEF ResumeLoad, Called, CallsInOrder, EngineAssumption
    <3>2. rows[Target[c]].status # "completed"
      BY <3>1 DEF InStepWithLog, RowsMatchLog
    <3>3. ~ LoggedFor("StepCompleted", at'[c])
      BY <3>1, <3>2 DEF DoneOnce, DoneRowsShowIt
    <3>4. ~ LoggedFor("StepCompleted", at[c])'
      BY <1>2, <3>1, <3>3
    <3>5. todo'[c] = {}
      BY <3>1 DEF DoneOnce, Ended
    <3> QED BY <1>2, <1>3, <3>1, <3>4, <3>5, GoesOnDone
  <2> QED BY <2>1, <2>2
<1>5. CASE RecoverLoad(c)
  <2>1. /\ Go(c, "next") /\ pc'[c] = "next" /\ todo'[c] = ExpiredLeases
        /\ \A d \in Calls \ {c} : todo'[d] = todo[d]
    BY <1>5 DEF RecoverLoad, Go, CallsInOrder
  <2>2. ASSUME NEW s \in Steps, NEW t \in Steps, Leased(s), Leased(t), s < t PROVE FALSE
    <3>1. DoneBefore(t)
      BY <2>2 DEF Leased, RowsInOrder
    <3> QED BY <2>2, <3>1 DEF DoneBefore, DoneOnce, DoneRowsShowIt, Leased
  <2>3. \A x \in todo'[c] : x.step \in Steps /\ Leased(x.step)
                            /\ x = [step |-> x.step, attempt |-> rows[x.step].attempt]
    BY <2>1 DEF ExpiredLeases, Leased
  <2>4. \A x, y \in todo'[c] : x.step = y.step
    BY <2>2, <2>3 DEF Steps
  <2>5. \A x, y \in todo'[c] : x = y
    BY <2>3, <2>4, Zenon
  <2>6. SnapshotHolds(c)'
    BY <1>1, <2>3, <2>5 DEF SnapshotHolds, Leased, store
  <2> QED BY <1>2, <1>3, <2>1, <2>6, GoesOnDone DEF Reopening
<1>6. CASE ~ ResumeLoad(c) /\ ~ RecoverLoad(c)
  <2>1. PICK p \in Points : /\ Go(c, p) /\ UNCHANGED todo
                            /\ p \in Reopening => p = "resume" /\ pc[c] = "lookup"
                                                 /\ UNCHANGED at
                            /\ p = "next" => pc[c] \notin Ended \union {"next"}
                            /\ p \notin Ended => pc[c] \notin Ended \union {"next"}
    BY <1>6 DEF Refuse, Register, Run, CancelLoad, Mount, DriveStep, Finish,
         Unregister, BackOff, Unmount, Remount, Forget, ResumeLookup, RecoverEnds,
         ReadmitLookup, StoreFails, Abandon, Push, Send, Resolve, TimeOut, Leave, Called,
         Points, Reopening, Ended, OnlyPoint, Verdict
  <2>2. p \in Reopening => ~ LoggedFor("StepCompleted", at[c])'
    <3>1. p \in Reopening => at'[c] = at[c] /\ at[c] \in Steps
                             /\ ~ LoggedFor("StepCompleted", at[c])
      BY <2>1, WorkIsNotDone, InStepFacts DEF Reopening, InStep, InStepWithLog
    <3> QED BY <1>2, <3>1
  <2>3. p \notin Ended => todo'[c] = {}
    BY <2>1 DEF DoneOnce
  <2>4. pc'[c] = p
    BY <2>1 DEF Go, CallsInOrder
  <2>5. p = "next" => SnapshotHolds(c)'
    BY <2>3, <2>4 DEF SnapshotHolds, Ended
  <2> QED BY <1>2, <1>3, <2>1, <2>2, <2>3, <2>5, GoesOnDone
<1> QED BY <1>4, <1>5, <1>6

\* The claim of a step and the events that a call appends.
LEMMA DoneByWriting ==
    ASSUME StoreAssumption, EngineAssumption, StoreTypeOK, CallsInOrder, InStepWithLog, DoneOnce,
           NEW c \in Calls,
           \/ Claim(c) \/ RecordStepStarted(c)
           \/ RecordStarted(c) \/ RecordCompleted(c) \/ RecordWorkflowFailed(c)
           \/ RecordCancelled(c) \/ RecordStepCompleted(c) \/ RecordStepWaiting(c)
           \/ RecordStepFailed(c) \/ RecordRetryScheduled(c) \/ RecordResumed(c)
           \/ (\E x \in todo[c] : Readmit(c, x))
    PROVE  DoneOnce'
<1>1. c \in InProgress
  BY DEF Claim, RecordStepStarted, RecordStarted, RecordCompleted, RecordWorkflowFailed,
         RecordCancelled, RecordStepCompleted, RecordStepWaiting, RecordStepFailed,
         RecordRetryScheduled, RecordResumed, Readmit, InProgress, Ended
<1>2. Only(c)
  BY <1>1 DEF InStepWithLog, OneAtATime, Only
<1>3. CASE Claim(c)
  <2>1. at[c] \in Steps /\ Engine[c] \in Workers
    BY <1>3, InStepFacts, EngineAssumption DEF Claim, InStep, EngineAssumption
  <2>2. DoneRowsShowIt'
    BY <1>3, <2>1, LeaseKeepsDone DEF Claim, DoneOnce
  <2>3. PICK p \in Points \ Reopening : Go(c, p) /\ UNCHANGED todo
    BY <1>3 DEF Claim, StepDone, Leave, Points, Reopening, Ended
  <2>4. todo'[c] = {}
    BY <1>3, <2>3 DEF Claim, DoneOnce, Ended
  <2> QED BY <1>2, <2>2, <2>3, <2>4, GoesOnDone DEF SnapshotHolds
<1>4. CASE \E x \in todo[c] : Readmit(c, x)
  <2>1. PICK x \in todo[c] : Readmit(c, x)
    BY <1>4
  <2>2. /\ AppendEvent("WorkerRecovered", x.step, x.attempt, c) /\ Go(c, "relookup")
        /\ pc[c] = "next" /\ todo'[c] = todo[c] \ {x} /\ x.step \in Steps
        /\ \A d \in Calls \ {c} : todo'[d] = todo[d]
    BY <2>1 DEF Readmit, CallsInOrder
  <2>3. ~ LoggedFor("StepCompleted", x.step)
    BY <2>2 DEF DoneOnce, SnapshotHolds, DoneRowsShowIt, Leased
  <2>4. DoneRowsShowIt'
    BY <2>2, <2>3, AppendKeepsDone DEF DoneOnce
  <2>5. todo'[c] = {}
    BY <2>2 DEF DoneOnce, SnapshotHolds
  <2> QED BY <1>2, <2>2, <2>4, <2>5, GoesOnDone DEF Reopening
<1>5. CASE ~ Claim(c) /\ ~ (\E x \in todo[c] : Readmit(c, x))
  <2>1. PICK type, s, a :
          /\ AppendEvent(type, s, a, c)
          /\ type # "StepCompleted" /\ s \in Steps =>
                s = at[c] /\ pc[c] \in Leasing \union Reopening
    <3>1. NoStep \notin Steps
      BY DEF NoStep, Steps
    <3> QED BY <1>5, <3>1
       DEF RecordStepStarted, RecordStarted, RecordCompleted, RecordWorkflowFailed,
           RecordCancelled, RecordStepCompleted, RecordStepWaiting, RecordStepFailed,
           RecordRetryScheduled, RecordResumed, AppendStep, AppendWorkflow, Leasing, Reopening
  <2>2. type # "StepCompleted" /\ s \in Steps => ~ LoggedFor("StepCompleted", s)
    BY <2>1, WorkIsNotDone DEF InStepWithLog
  <2>3. /\ DoneRowsShowIt'
        /\ type # "StepCompleted" =>
              \A t \in Steps : LoggedFor("StepCompleted", t)' => LoggedFor("StepCompleted", t)
    BY <2>1, <2>2, AppendKeepsDone DEF DoneOnce
  <2>4. PICK p \in Points : /\ Go(c, p) /\ UNCHANGED todo
                            /\ pc[c] \notin Ended \union {"next"}
                            /\ p \in Reopening => RecordStepFailed(c)
    BY <1>5
       DEF RecordStepStarted, RecordStarted, RecordCompleted, RecordWorkflowFailed,
           RecordCancelled, RecordStepCompleted, RecordStepWaiting, RecordStepFailed,
           RecordRetryScheduled, RecordResumed, StepDone, Leave, Points, Reopening, Ended,
           OnlyPoint
  <2>5. p \in Reopening => ~ LoggedFor("StepCompleted", at[c])'
    <3> SUFFICES ASSUME RecordStepFailed(c) PROVE ~ LoggedFor("StepCompleted", at[c])'
      BY <2>4
    <3>1. /\ AppendEvent("StepFailed", at[c], attempt[c], c) /\ at'[c] = at[c]
          /\ pc[c] \in Leasing /\ at[c] \in Steps
      BY InStepFacts DEF RecordStepFailed, AppendStep, OnlyPoint, Leasing, InStep
    <3>2. ~ LoggedFor("StepCompleted", at[c])
      BY <3>1, WorkIsNotDone DEF InStepWithLog
    <3> QED BY <3>1, <3>2, AppendKeepsDone DEF DoneOnce
  <2>6. todo'[c] = {}
    BY <2>4 DEF DoneOnce
  <2> QED BY <1>2, <2>3, <2>4, <2>5, <2>6, GoesOnDone DEF SnapshotHolds
<1> QED BY <1>3, <1>4, <1>5

LEMMA DoneOnceNext ==
    ASSUME StoreAssumption, EngineAssumption, MaxConcurrent = 1, InOrder, InStepWithLog,
           DoneOnce, [Next]_vars
    PROVE  DoneOnce'
<1>0. StoreTypeOK /\ CallsInOrder /\ RowsInOrder
  BY DEF InOrder, StoreInOrder
<1>1. ASSUME NEW c \in Calls,
             \/ Begin(c) \/ Step(c) \/ TimeOut(c) \/ StoreFails(c) \/ Abandon(c)
      PROVE  DoneOnce'
  BY <1>0, <1>1, DoneFreely, DoneByWriting DEF Begin, Step
<1>2. ASSUME UNCHANGED <<log, at, todo>>, \A c \in Calls : pc'[c] = pc[c] \/ pc'[c] = "dead",
             \A s \in Steps : rows'[s].status = rows[s].status
      PROVE  DoneOnce'
  <2>1. DoneRowsShowIt'
    BY <1>2 DEF DoneOnce, DoneRowsShowIt, LoggedFor
  <2>2. \A c \in Calls : \A x \in todo[c] : x.step \in Steps
    BY <1>0 DEF CallsInOrder
  <2>3. \A c \in Calls : SnapshotHolds(c)'
    BY <1>2, <2>2 DEF DoneOnce, SnapshotHolds, Leased
  <2>4. \A c \in Calls : /\ pc'[c] \in Reopening => ~ LoggedFor("StepCompleted", at[c])'
                         /\ pc'[c] \notin Ended \union {"next"} => todo'[c] = {}
    BY <1>2 DEF DoneOnce, LoggedFor, Reopening, Ended
  <2> QED BY <2>1, <2>3, <2>4 DEF DoneOnce
<1>3. ASSUME (\E c \in Calls : Renew(c)) \/ (\E s \in Steps : LeaseExpires(s))
      PROVE  DoneOnce'
  <2>1. UNCHANGED <<log, pc, at, todo>>
    BY <1>3 DEF Renew, LeaseExpires, calls
  <2>2. PICK s \in Steps : (\E w \in Workers : RenewLease(s, w)) \/ ExpireLease(s)
    BY <1>0, <1>3, InStepFacts, EngineAssumption
       DEF Renew, LeaseExpires, InStep, EngineAssumption
  <2>3. \A t \in Steps : rows[t] \in Rows
    BY <1>0 DEF StoreTypeOK
  <2>4. PICK b \in BOOLEAN : rows' = [rows EXCEPT ![s].fresh = b]
    BY <2>2 DEF RenewLease, ExpireLease
  <2>5. \A t \in Steps : rows'[t].status = rows[t].status
    BY <1>0, <2>3, <2>4 DEF StoreTypeOK, Rows
  <2> QED BY <1>2, <2>1, <2>5
<1>4. CASE \/ \E w \in Workers, k \in Steps \X Attempts :
                 BodyStarts(w, k) \/ \E o \in Bodies : BodyEnds(w, k, o)
           \/ \E w \in Workers : Crash(w) \/ Restart(w)
           \/ UNCHANGED vars
  <2>1. /\ UNCHANGED <<store, at, todo>>
        /\ \A c \in Calls : pc'[c] = pc[c] \/ pc'[c] = "dead"
    BY <1>0, <1>4 DEF BodyStarts, BodyEnds, Crash, Restart, vars, calls, CallsInOrder
  <2> QED BY <1>2, <2>1 DEF store
<1> QED BY <1>1, <1>3, <1>4, Zenon DEF Next, Quiet

\* Only a push claims a job, and it is made for a step that is leased.
LEMMA OnlyPushesClaim ==
    ASSUME StoreAssumption, InOrder, WorkIsLeased, DoneOnce, [Next]_vars,
           NEW s \in Steps, NEW a \in Attempts, NEW w \in Workers,
           LoggedFor("StepCompleted", s), job'[w][<<s, a>>] = "claimed"
    PROVE  job[w][<<s, a>>] = "claimed"
<1>0. /\ job \in [Workers -> [Steps \X Attempts -> JobStates]] /\ <<s, a>> \in Steps \X Attempts
      /\ CallsInOrder
  BY DEF InOrder, OthersTypeOK
<1> SUFFICES ASSUME job'[w][<<s, a>>] # job[w][<<s, a>>] PROVE FALSE
  OBVIOUS
<1>1. ASSUME NEW c \in Calls, Push(c) PROVE FALSE
  <2>1. JobOf(c) = <<s, a>> /\ pc[c] \in Leasing
    BY <1>0, <1>1 DEF Push, SetJob, Leasing
  <2>2. at[c] = s
    BY <2>1 DEF JobOf
  <2> QED BY <1>0, <2>1, <2>2, WorkIsNotDone
<1>2. ASSUME NEW c \in Calls, Send(c) \/ Abandon(c) PROVE FALSE
  <2>1. CASE UNCHANGED job
    BY <2>1
  <2>2. CASE \E st \in {"pending", "none"} : SetJob(Engine[c], JobOf(c), st)
    BY <1>0, <2>2 DEF SetJob
  <2> QED BY <1>2, <2>1, <2>2 DEF Send, Abandon
<1>3. ASSUME NEW v \in Workers, NEW k \in Steps \X Attempts,
             BodyStarts(v, k) \/ \E o \in Bodies : BodyEnds(v, k, o)
      PROVE  FALSE
  <2>1. \E st \in {"running"} \union Bodies : SetJob(v, k, st)
    BY <1>3 DEF BodyStarts, BodyEnds
  <2>2. "claimed" \notin {"running"} \union Bodies
    BY EngineAssumption DEF EngineAssumption
  <2> QED BY <1>0, <2>1, <2>2 DEF SetJob
<1>4. ASSUME NEW v \in Workers, Crash(v) PROVE FALSE
  BY <1>0, <1>4 DEF Crash, NoJobs
<1>5. CASE UNCHANGED job
  BY <1>5
<1> QED BY <1>1, <1>2, <1>3, <1>4, <1>5
   DEF Next, Begin, Step, Refuse, Register, Run, CancelLoad, ResumeLoad, RecoverLoad,
       RecordStarted, Mount, DriveStep, Finish, RecordCompleted, Unregister, Claim,
       RecordStepStarted, Resolve, RecordStepCompleted, RecordStepWaiting, RecordStepFailed,
       RecordRetryScheduled, BackOff, RecordWorkflowFailed, Unmount, Remount, RecordCancelled,
       Forget, ResumeLookup, RecordResumed, RecoverEnds, Readmit, ReadmitLookup, Renew, TimeOut,
       StoreFails, LeaseExpires, Restart, Quiet, vars, engines

\* When calls do not overlap, a step on record as completed is never handed to a queue
\* again, through crashes, store errors, abandoned calls, recoveries and repeated runs,
\* for any number of engines and steps (engine.rs:400-428, 563-600, sqlite.rs:258-263).
THEOREM CompletedIsNotRepeated == ASSUME MaxConcurrent = 1 PROVE Spec => CompletedStepStaysDone
<1>1. Init => DoneOnce
  BY DEF Init, StoreInit, DoneOnce, DoneRowsShowIt, LoggedFor, Reopening, SnapshotHolds
<1>2. InOrder /\ InStepWithLog /\ DoneOnce /\ [Next]_vars => DoneOnce'
  BY DoneOnceNext, StoreAssumption, EngineAssumption
<1>3. InOrder /\ InStepWithLog /\ DoneOnce /\ [Next]_vars =>
        [\A s \in Steps, a \in Attempts, w \in Workers :
            (LoggedFor("StepCompleted", s) /\ job'[w][<<s, a>>] = "claimed")
                => job[w][<<s, a>>] = "claimed"]_vars
  BY OnlyPushesClaim, StoreAssumption DEF InStepWithLog
<1> QED
  BY <1>1, <1>2, <1>3, EngineInOrder, InStepWithLogAlways, PTL DEF Spec, CompletedStepStaysDone

=============================================================================
