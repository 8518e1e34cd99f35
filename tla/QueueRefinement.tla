-------------------------- MODULE QueueRefinement --------------------------
(***************************************************************************)
(* Queue implements IdempotentKeys: the initial state maps to its initial  *)
(* state and every step to one of its steps or to none.                    *)
(***************************************************************************)
EXTENDS QueueProofs

USE DEF maps, calls, jobs, lanes, system

\* A live job makes its key busy and owns it.
LEMMA LiveOwns ==
    ASSUME Consistent, NEW p \in Pushes, Live(p)
    PROVE  KeyPhase(Key[p]) = "busy" /\ KeyOwner(Key[p]) = p
<1>1. LivePush(Key[p]) = {p}
  BY DEF LivePush, Consistent, SingleFlight
<1>2. state[Key[p]] # "completed" /\ InFlight(Key[p])
  BY DEF Consistent, LiveIsInFlight, InFlight
<1>3. KeyPhase(Key[p]) = "busy"
  BY <1>1, <1>2 DEF KeyPhase
<1>4. (CHOOSE q \in {p} : TRUE) = p
  OBVIOUS
<1> QED
  BY <1>1, <1>3, <1>4 DEF KeyOwner

\* A step that leaves a key and its live jobs alone leaves its abstract view.
LEMMA KeyFrame ==
    ASSUME NEW k \in Keys, state'[k] = state[k],
           \A q \in Pushes : Key[q] = k => (Live(q)' <=> Live(q))
    PROVE  KeyPhase(k)' = KeyPhase(k) /\ KeyOwner(k)' = KeyOwner(k)
<1>1. LivePush(k)' = LivePush(k)
  BY DEF LivePush
<1> QED
  BY <1>1 DEF KeyPhase, KeyOwner, InFlight

\* A key with no live job is not busy.
LEMMA NotBusy ==
    ASSUME NEW k, \A q \in Pushes : Key[q] = k => ~ Live(q)
    PROVE  /\ KeyPhase(k) = IF state[k] = "completed" THEN "done"
                            ELSE IF ~ InFlight(k) THEN "free" ELSE "stranded"
           /\ KeyOwner(k) = NoJob
<1>1. LivePush(k) = {}
  BY DEF LivePush
<1> QED
  BY <1>1 DEF KeyPhase, KeyOwner, InFlight

LEMMA RefinementStep ==
    ASSUME TypeOK, Consistent, Consistent', [Next]_vars
    PROVE  [Abstract!Next]_(Abstract!avars)
<1> USE QueueAssumption DEF TypeOK
<1> DEFINE Step == [Abstract!Next]_(Abstract!avars)
           Frame(k) == KeyPhase(k)' = KeyPhase(k) /\ KeyOwner(k)' = KeyOwner(k)
           Waiting(k) == {q \in waiters[k] : slot[q].kind = "empty"}
<1>0. ASSUME NEW p \in Pushes, Live(p)', Consistent'
      PROVE  KeyPhase(Key[p])' = "busy" /\ KeyOwner(Key[p])' = p
  <2>1. LivePush(Key[p])' = {p}
    BY <1>0 DEF LivePush, Consistent, SingleFlight
  <2>2. state'[Key[p]] # "completed" /\ InFlight(Key[p])'
    BY <1>0 DEF Consistent, LiveIsInFlight, InFlight
  <2>3. KeyPhase(Key[p])' = "busy"
    BY <2>1, <2>2 DEF KeyPhase
  <2>4. (CHOOSE q \in {p} : TRUE) = p
    OBVIOUS
  <2> QED
    BY <2>1, <2>3, <2>4 DEF KeyOwner
<1>a. ASSUME NEW k \in Keys, \A q \in Pushes : Key[q] = k => ~ Live(q)'
      PROVE  /\ KeyPhase(k)' = IF state'[k] = "completed" THEN "done"
                               ELSE IF ~ InFlight(k)' THEN "free" ELSE "stranded"
             /\ KeyOwner(k)' = NoJob
  <2>1. LivePush(k)' = {}
    BY <1>a DEF LivePush
  <2> QED
    BY <2>1 DEF KeyPhase, KeyOwner, InFlight
\* Steps the abstract view does not see.
<1>b. ASSUME \A k \in Keys : Frame(k), UNCHANGED <<source, slot>> PROVE Step
  BY <1>b DEF Abstract!avars
<1>1. ASSUME NEW p \in Pushes, PushCached(p) PROVE Step
  <2>1. source[Key[p]] \in Pushes /\ KeyPhase(Key[p]) = "done"
    BY <1>1 DEF PushCached, Consistent, SourceMatchesState, KeyPhase
  <2>2. slot[p] = NoAnswer
    BY <1>1 DEF PushCached, CallerReady, Consistent, NewCallsAreSilent
  <2>3. \A k \in Keys : Frame(k)
    <3>1. \A q \in Pushes : Live(q)' <=> Live(q)
      BY <1>1 DEF PushCached, CallerReady, Live
    <3> QED
      BY <1>1, <3>1, KeyFrame DEF PushCached
  <2>4. slot' = [q \in Pushes |-> IF q \in {p} THEN [kind |-> "ok", by |-> source[Key[p]]]
                                  ELSE slot[q]]
    BY <1>1 DEF PushCached
  <2>5. Key[source[Key[p]]] = Key[p] /\ source' = source
    BY <1>1, <2>1 DEF PushCached, Consistent, SourceMatchesState
  <2>6. Abstract!Reply(source[Key[p]], {p}, "ok")
    BY <2>1, <2>2, <2>3, <2>4, <2>5 DEF Abstract!Reply, Abstract!Open, NoAnswer
  <2> QED
    BY <2>1, <2>6 DEF Abstract!Next
<1>2. ASSUME NEW p \in Pushes, PushClaim(p) PROVE Step
  <2>1. Live(p)' /\ \A q \in Pushes : q # p => (Live(q)' <=> Live(q))
    BY <1>2 DEF PushClaim, Live
  <2>2. \A q \in Pushes : Key[q] = Key[p] => ~ Live(q)
    BY <1>2 DEF PushClaim, Claimable, Consistent, LiveIsInFlight
  <2>3. KeyPhase(Key[p]) = "free"
    BY <1>2, <2>2, NotBusy DEF PushClaim, Claimable
  <2>4. \A k \in Keys : k # Key[p] => Frame(k)
    BY <1>2, <2>1, KeyFrame DEF PushClaim
  <2>5. KeyPhase(Key[p])' = "busy" /\ KeyOwner(Key[p])' = p
    BY <1>0, <2>1
  <2>6. Abstract!Claim(p)
    BY <1>2, <2>3, <2>4, <2>5 DEF PushClaim, Abstract!Claim
  <2> QED
    BY <2>6 DEF Abstract!Next
<1>3. ASSUME NEW p \in Pushes, EnqueueFails(p) \/ Cancel(p) PROVE Step
  <2>1. Live(p) /\ KeyPhase(Key[p]) = "busy" /\ KeyOwner(Key[p]) = p
    BY <1>3, LiveOwns DEF EnqueueFails, Cancel, Live
  <2>c. /\ call[p] = "sending" /\ job' = job
        /\ call'[p] # "sending" /\ \A q \in Pushes : q # p => call'[q] = call[q]
    BY <1>3 DEF EnqueueFails, Cancel, GiveUp, jobs
  <2>2. /\ ~ Live(p)'
        /\ \A q \in Pushes : q # p => (Live(q)' <=> Live(q))
    BY <2>c DEF Live, Consistent, JobsWereQueued
  <2>3. \A q \in Pushes : Key[q] = Key[p] => ~ Live(q)'
    BY <2>1, <2>2, LiveKeyIsAlone
  <2>s. state'[Key[p]] \in {"none", "failed"}
    BY <1>3 DEF EnqueueFails, Cancel, GiveUp
  <2>f. state'[Key[p]] # "completed" /\ ~ InFlight(Key[p])'
    BY <2>s DEF InFlight
  <2>4. KeyPhase(Key[p])' = "free" /\ KeyOwner(Key[p])' = NoJob
    BY <1>a, <2>3, <2>f
  <2>5. \A k \in Keys : k # Key[p] => Frame(k)
    BY <1>3, <2>2, KeyFrame DEF EnqueueFails, Cancel, GiveUp
  <2>6. Abstract!Yield(p, Waiting(Key[p]))
    <3>1. \A q \in Waiting(Key[p]) : Key[q] = Key[p] /\ slot[q].kind = "empty"
      BY DEF Consistent, WaitersShareKey
    <3>2. slot' = [q \in Pushes |-> IF q \in Waiting(Key[p]) THEN JobLost ELSE slot[q]]
      BY <1>3 DEF EnqueueFails, Cancel, GiveUp, Deliver
    <3> QED
      BY <1>3, <2>1, <2>4, <2>5, <3>1, <3>2
         DEF EnqueueFails, Cancel, Abstract!Yield, Abstract!Open, JobLost
  <2>7. Waiting(Key[p]) \in SUBSET Pushes
    OBVIOUS
  <2> QED
    BY <2>6, <2>7 DEF Abstract!Next
<1>4. ASSUME NEW p \in Pushes, NEW r \in Results, job[p] = "running", Record(p, r)
      PROVE  Step
  <2>1. Live(p) /\ KeyPhase(Key[p]) = "busy" /\ KeyOwner(Key[p]) = p
    BY <1>4, LiveOwns DEF Live
  <2>2. /\ ~ Live(p)'
        /\ \A q \in Pushes : q # p => (Live(q)' <=> Live(q))
    BY <1>4 DEF Record, Live, Consistent, JobsWereQueued
  <2>3. \A q \in Pushes : Key[q] = Key[p] => ~ Live(q)'
    BY <2>1, <2>2, LiveKeyIsAlone
  <2>4. /\ KeyPhase(Key[p])' = IF r = "ok" THEN "done" ELSE "free"
        /\ KeyOwner(Key[p])' = NoJob
    BY <1>4, <1>a, <2>3 DEF Record, InFlight
  <2>5. \A k \in Keys : k # Key[p] => Frame(k)
    BY <1>4, <2>2, KeyFrame DEF Record
  <2>6. source[Key[p]] = NoJob
    <3>1. state[Key[p]] # "completed" /\ Key[p] \in Keys
      BY <2>1 DEF Consistent, LiveIsInFlight, InFlight
    <3> QED
      BY <3>1 DEF Consistent, SourceMatchesState
  <2>7. CASE r = "ok"
    <3>1. Abstract!Succeed(p)
      BY <1>4, <2>1, <2>4, <2>5, <2>7 DEF Record, Abstract!Succeed
    <3> QED
      BY <3>1 DEF Abstract!Next
  <2>8. CASE r # "ok"
    <3>1. slot' = [q \in Pushes |-> IF q \in {} THEN JobLost ELSE slot[q]]
      BY <1>4 DEF Record
    <3>2. source' = source
      BY <1>4, <2>6, <2>8 DEF Record
    <3>3. Abstract!Yield(p, {})
      BY <2>1, <2>4, <2>5, <2>8, <3>1, <3>2 DEF Abstract!Yield, JobLost
    <3> QED
      BY <3>3 DEF Abstract!Next
  <2> QED
    BY <2>7, <2>8
<1>5. ASSUME NEW p \in Pushes, Notify(p) PROVE Step
  <2>1. \A k \in Keys : Frame(k)
    <3>1. \A q \in Pushes : Live(q)' <=> Live(q)
      BY <1>5 DEF Notify, Live
    <3> QED
      BY <1>5, <3>1, KeyFrame DEF Notify
  <2> DEFINE kind == IF result[p] = "ok" THEN "ok" ELSE "failed"
  <2>2. slot' = [q \in Pushes |-> IF q \in Waiting(Key[p]) THEN [kind |-> kind, by |-> p]
                                  ELSE slot[q]]
    BY <1>5 DEF Notify, Deliver, Told
  <2>3. \A q \in Waiting(Key[p]) : Key[q] = Key[p] /\ slot[q].kind = "empty"
    BY DEF Consistent, WaitersShareKey
  <2>4. kind = "ok" => KeyPhase(Key[p]) = "done" /\ source[Key[p]] = p
    BY <1>5 DEF Notify, Consistent, RecordedSuccessStands, KeyPhase
  <2>5. Abstract!Reply(p, Waiting(Key[p]), kind)
    BY <1>5, <2>1, <2>2, <2>3, <2>4 DEF Notify, Abstract!Reply, Abstract!Open
  <2>6. Waiting(Key[p]) \in SUBSET Pushes /\ kind \in {"ok", "failed"}
    OBVIOUS
  <2> QED
    BY <2>5, <2>6 DEF Abstract!Next
<1>6. ASSUME UNCHANGED <<state, source, slot>>,
             \A q \in Pushes : Live(q)' => Live(q)
      PROVE  Step
  <2> DEFINE K == {k \in Keys : KeyPhase(k) = "busy" /\ KeyPhase(k)' = "stranded"}
  <2>1. ASSUME NEW k \in Keys, NEW p \in Pushes, Key[p] = k, Live(p), Live(p)'
        PROVE  k \notin K /\ Frame(k)
    BY <1>0, <2>1, LiveOwns
  <2>2. ASSUME NEW k \in Keys, NEW p \in Pushes, Key[p] = k, Live(p), ~ Live(p)'
        PROVE  k \in K /\ KeyPhase(k)' = "stranded" /\ KeyOwner(k)' = NoJob
    <3>1. \A q \in Pushes : Key[q] = k => ~ Live(q)'
      BY <1>6, <2>2, LiveKeyIsAlone
    <3>2. InFlight(k)' /\ state'[k] # "completed"
      BY <1>6, <2>2 DEF Consistent, LiveIsInFlight, InFlight
    <3> QED
      BY <1>a, <2>2, <3>1, <3>2, LiveOwns
  <2>3. ASSUME NEW k \in Keys, \A q \in Pushes : Key[q] = k => ~ Live(q)
        PROVE  k \notin K /\ Frame(k)
    <3>1. KeyPhase(k) # "busy"
      BY <2>3, NotBusy
    <3>2. Frame(k)
      BY <1>6, <2>3, KeyFrame
    <3> QED
      BY <3>1, <3>2
  <2>4. /\ \A k \in Keys \ K : Frame(k)
        /\ \A k \in K : KeyPhase(k)' = "stranded" /\ KeyOwner(k)' = NoJob
    BY <2>1, <2>2, <2>3
  <2>5. Abstract!Strand(K)
    BY <1>6, <2>4 DEF Abstract!Strand
  <2>6. K \in SUBSET Keys
    OBVIOUS
  <2> QED
    BY <2>5, <2>6 DEF Abstract!Next
<1>7. CASE FreeMaps
  <2> DEFINE W == {q \in UNION {waiters[k] : k \in Keys} : slot[q].kind = "empty"}
  <2>1. \A k \in Keys : Frame(k)
    <3>1. \A q \in Pushes : Live(q)' <=> Live(q)
      BY <1>7 DEF FreeMaps, Live
    <3> QED
      BY <1>7, <3>1, KeyFrame DEF FreeMaps
  <2>2. slot' = [q \in Pushes |-> IF q \in W THEN JobLost ELSE slot[q]]
    BY <1>7 DEF FreeMaps, Deliver
  <2>3. Abstract!Close(W)
    <3>1. source' = source /\ \A q \in W : slot[q].kind = "empty"
      BY <1>7 DEF FreeMaps
    <3> HIDE DEF W
    <3> QED
      BY <2>1, <2>2, <3>1 DEF Abstract!Close, Abstract!Open, JobLost
  <2>4. W \in SUBSET Pushes
    OBVIOUS
  <2> QED
    BY <2>3, <2>4 DEF Abstract!Next
<1>8. ASSUME NEW p \in Pushes, Start(p) PROVE Step
  <2>1. \A q \in Pushes : Live(q)' <=> Live(q)
    BY <1>8 DEF Start, Live
  <2>2. Live(p) /\ Live(p)'
    BY <1>8, <2>1 DEF Start, Live
  <2>3. Frame(Key[p])
    BY <1>0, <2>2, LiveOwns
  <2>4. \A k \in Keys : k # Key[p] => Frame(k)
    BY <1>8, <2>1, KeyFrame DEF Start
  <2> QED
    BY <1>8, <1>b, <2>3, <2>4 DEF Start
<1>9. ASSUME NEW p \in Pushes, PushJoin(p) \/ Enqueue(p) \/ Spawn(p) \/ Release(p)
                               \/ DropTask(p)
      PROVE  Step
  BY <1>6, <1>9 DEF PushJoin, CallerReady, Enqueue, Spawn, Release, DropTask, Live,
     Consistent, JobsWereQueued
<1>10. ASSUME NEW l \in Lanes, Receive(l) PROVE Step
  <2>1. 1 \in 1..Len(buffer[l]) /\ Head(buffer[l]) = buffer[l][1]
    BY <1>10 DEF Receive
  <2>2. job[Head(buffer[l])] = "queued"
    BY <2>1 DEF Consistent, BuffersHoldQueuedJobs
  <2> QED
    BY <1>6, <1>10, <2>2 DEF Receive, Live
<1>11. ASSUME NEW l \in Lanes, DropWorker(l) PROVE Step
  BY <1>6, <1>11 DEF DropWorker, Live
<1>12. CASE UNCHANGED <<maps, calls, jobs>>
  BY <1>6, <1>12 DEF Live
<1> QED
  BY <1>1, <1>2, <1>3, <1>4, <1>5, <1>7, <1>8, <1>9, <1>10, <1>11, <1>12
     DEF Next, vars, Finish, AbortBody, DropQueue, WorkerExits, Shutdown, Idle,
         Results

\* What the queue does for a key is what IdempotentKeys lets it do, with any
\* number of lanes, callers and permits: queue.rs:33-98, state.rs:41-82.
THEOREM QueueRefines == Spec => ImplementsIdempotentKeys
<1>1. Init => Abstract!Init
  BY DEF Init, Abstract!Init, KeyPhase, KeyOwner, InFlight, NoAnswer
<1>2. TypeOK /\ Consistent /\ Consistent' /\ [Next]_vars
          => [Abstract!Next]_(Abstract!avars)
  BY RefinementStep
<1> QED
  BY <1>1, <1>2, TypeCorrect, ConsistentAlways, PTL
     DEF Spec, ImplementsIdempotentKeys, Abstract!Spec
=============================================================================
