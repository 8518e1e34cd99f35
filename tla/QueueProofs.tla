---------------------------- MODULE QueueProofs ----------------------------
(***************************************************************************)
(* Proofs about Queue, for every set of keys, lanes and calls, every       *)
(* assignment of keys, lanes and parents, every capacity and number of     *)
(* permits, and every choice of faults.                                    *)
(***************************************************************************)
EXTENDS Queue, TLAPS, FiniteSetTheorems

USE DEF maps, calls, jobs, lanes, system

\* The values a slot can be given.
LEMMA DeliverType ==
    ASSUME TypeOK, NEW W, NEW a \in [kind : {"empty", "lost", "ok", "failed"},
                                     by : Pushes \union {NoJob}]
    PROVE  Deliver(W, a) \in [Pushes -> [kind : {"empty", "lost", "ok", "failed"},
                                         by : Pushes \union {NoJob}]]
  BY DEF TypeOK, Deliver

\* Every step keeps the types, and no lane holds more jobs than its capacity.
LEMMA TypeStep == TypeOK /\ [Next]_vars => TypeOK'
<1> USE QueueAssumption DEF TypeOK, CallPhases, JobPhases, States, Results,
        NoAnswer, JobLost
<1> SUFFICES ASSUME TypeOK, [Next]_vars PROVE TypeOK'
  OBVIOUS
<1>1. ASSUME NEW p \in Pushes, PushCached(p) PROVE TypeOK'
  BY <1>1 DEF PushCached
<1>2. ASSUME NEW p \in Pushes, PushJoin(p) PROVE TypeOK'
  BY <1>2 DEF PushJoin
<1>3. ASSUME NEW p \in Pushes, PushClaim(p) PROVE TypeOK'
  BY <1>3 DEF PushClaim
<1>4. ASSUME NEW p \in Pushes, Enqueue(p) PROVE TypeOK'
  BY <1>4 DEF Enqueue, HasRoom
<1>5. ASSUME NEW p \in Pushes, EnqueueFails(p) PROVE TypeOK'
  BY <1>5, DeliverType DEF EnqueueFails, GiveUp
<1>6. ASSUME NEW p \in Pushes, Cancel(p) PROVE TypeOK'
  BY <1>6, DeliverType DEF Cancel, GiveUp
<1>7. ASSUME NEW l \in Lanes, Receive(l) PROVE TypeOK'
  BY <1>7 DEF Receive
<1>8. ASSUME NEW p \in Pushes, Spawn(p) PROVE TypeOK'
  BY <1>8 DEF Spawn
<1>9. ASSUME NEW p \in Pushes, Start(p) PROVE TypeOK'
  BY <1>9 DEF Start
<1>10. ASSUME NEW p \in Pushes, NEW r \in Results, Record(p, r) PROVE TypeOK'
  BY <1>10 DEF Record
<1>11. ASSUME NEW p \in Pushes, Notify(p) PROVE TypeOK'
  BY <1>11, DeliverType DEF Notify, Told
<1>12. ASSUME NEW p \in Pushes, Release(p) PROVE TypeOK'
  BY <1>12 DEF Release
<1>13. ASSUME DropQueue PROVE TypeOK'
  BY <1>13 DEF DropQueue
<1>14. ASSUME NEW l \in Lanes, WorkerExits(l) PROVE TypeOK'
  BY <1>14 DEF WorkerExits
<1>15. ASSUME Shutdown PROVE TypeOK'
  BY <1>15 DEF Shutdown
<1>16. ASSUME NEW l \in Lanes, DropWorker(l) PROVE TypeOK'
  BY <1>16 DEF DropWorker
<1>17. ASSUME NEW p \in Pushes, DropTask(p) PROVE TypeOK'
  BY <1>17 DEF DropTask
<1>18. ASSUME FreeMaps PROVE TypeOK'
  BY <1>18, DeliverType DEF FreeMaps
<1>19. ASSUME UNCHANGED vars PROVE TypeOK'
  BY <1>19 DEF vars
<1> QED
  BY <1>1, <1>2, <1>3, <1>4, <1>5, <1>6, <1>7, <1>8, <1>9, <1>10, <1>11,
     <1>12, <1>13, <1>14, <1>15, <1>16, <1>17, <1>18, <1>19
     DEF Next, Finish, AbortBody, Idle

\* TypeOK holds of every behaviour of the queue: queue.rs, state.rs, worker.rs.
THEOREM TypeCorrect == Spec => []TypeOK
<1>1. Init => TypeOK
  BY QueueAssumption DEF Init, TypeOK, CallPhases, JobPhases, States, NoAnswer
<1> QED
  BY <1>1, TypeStep, PTL DEF Spec

\* A live job has its key to itself.
LEMMA LiveKeyIsAlone ==
    ASSUME Consistent, NEW p \in Pushes, Live(p), NEW q \in Pushes
    PROVE  /\ Live(q) /\ q # p => Key[q] # Key[p]
           /\ job[q] = "recorded" /\ result[q] = "ok" => Key[q] # Key[p]
  BY QueueAssumption DEF Consistent, SingleFlight, LiveIsInFlight, InFlight,
     RecordedSuccessStands

\* A step that leaves the channels and the queued jobs alone.
LEMMA BuffersUntouched ==
    ASSUME TypeOK, BuffersHoldQueuedJobs, buffer' = buffer,
           \A q \in Pushes : job[q] = "queued" => job'[q] = "queued"
    PROVE  BuffersHoldQueuedJobs'
<1>1. \A l \in Lanes : \A i \in 1..Len(buffer[l]) : buffer[l][i] \in Pushes
  BY DEF TypeOK
<1>2. \A l \in Lanes : \A i \in 1..Len(buffer[l]) : job'[buffer[l][i]] = "queued"
  BY <1>1 DEF BuffersHoldQueuedJobs
<1> QED
  BY <1>2 DEF BuffersHoldQueuedJobs

\* Every step keeps jobs, channels and the state map in step.
LEMMA ConsistentStep == TypeOK /\ Consistent /\ [Next]_vars => Consistent'
<1> USE QueueAssumption DEF TypeOK, Results
<1> SUFFICES ASSUME TypeOK, Consistent, [Next]_vars PROVE Consistent'
  OBVIOUS
<1>1. ASSUME NEW p \in Pushes, PushCached(p) PROVE Consistent'
  <2>1. JobsWereQueued'
    BY <1>1 DEF Consistent, PushCached, CallerReady, JobsWereQueued
  <2>2. BuffersHoldQueuedJobs'
    BY <1>1, BuffersUntouched DEF Consistent, PushCached, jobs, lanes
  <2>3. LiveIsInFlight'
    BY <1>1
       DEF Consistent, PushCached, CallerReady, LiveIsInFlight,
           JobsWereQueued, InFlight, Live
  <2>4. SingleFlight'
    BY <1>1
       DEF Consistent, PushCached, CallerReady, SingleFlight, LiveIsInFlight,
           JobsWereQueued, InFlight, Live
  <2>5. SourceMatchesState'
    BY <1>1
       DEF Consistent, PushCached, CallerReady, SourceMatchesState,
           LiveIsInFlight, InFlight, Live
  <2>6. RecordedSuccessStands'
    BY <1>1
       DEF Consistent, PushCached, CallerReady, RecordedSuccessStands,
           JobsWereQueued, InFlight
  <2>7. WaitersShareKey'
    BY <1>1 DEF Consistent, PushCached, CallerReady, WaitersShareKey
  <2>8. NewCallsAreSilent'
    BY <1>1 DEF Consistent, PushCached, CallerReady, NewCallsAreSilent, Deliver
  <2> QED
    BY <2>1, <2>2, <2>3, <2>4, <2>5, <2>6, <2>7, <2>8 DEF Consistent
<1>2. ASSUME NEW p \in Pushes, PushJoin(p) PROVE Consistent'
  <2>1. JobsWereQueued'
    BY <1>2 DEF Consistent, PushJoin, CallerReady, JobsWereQueued
  <2>2. BuffersHoldQueuedJobs'
    BY <1>2, BuffersUntouched DEF Consistent, PushJoin, jobs, lanes
  <2>3. LiveIsInFlight'
    BY <1>2
       DEF Consistent, PushJoin, CallerReady, LiveIsInFlight, JobsWereQueued,
           InFlight, Live
  <2>4. SingleFlight'
    BY <1>2
       DEF Consistent, PushJoin, CallerReady, SingleFlight, LiveIsInFlight,
           JobsWereQueued, InFlight, Live
  <2>5. SourceMatchesState'
    BY <1>2
       DEF Consistent, PushJoin, CallerReady, SourceMatchesState,
           LiveIsInFlight, InFlight, Live
  <2>6. RecordedSuccessStands'
    BY <1>2
       DEF Consistent, PushJoin, CallerReady, RecordedSuccessStands,
           JobsWereQueued, InFlight
  <2>7. WaitersShareKey'
    BY <1>2 DEF Consistent, PushJoin, CallerReady, WaitersShareKey
  <2>8. NewCallsAreSilent'
    BY <1>2 DEF Consistent, PushJoin, CallerReady, NewCallsAreSilent, Deliver
  <2> QED
    BY <2>1, <2>2, <2>3, <2>4, <2>5, <2>6, <2>7, <2>8 DEF Consistent
<1>3. ASSUME NEW p \in Pushes, PushClaim(p) PROVE Consistent'
  <2>1. JobsWereQueued'
    BY <1>3 DEF Consistent, PushClaim, CallerReady, Claimable, JobsWereQueued
  <2>2. BuffersHoldQueuedJobs'
    BY <1>3, BuffersUntouched DEF Consistent, PushClaim, jobs, lanes
  <2>3. LiveIsInFlight'
    BY <1>3
       DEF Consistent, PushClaim, CallerReady, Claimable, LiveIsInFlight,
           JobsWereQueued, InFlight, Live
  <2>4. SingleFlight'
    BY <1>3
       DEF Consistent, PushClaim, CallerReady, Claimable, SingleFlight,
           LiveIsInFlight, JobsWereQueued, InFlight, Live
  <2>5. SourceMatchesState'
    BY <1>3
       DEF Consistent, PushClaim, CallerReady, Claimable, SourceMatchesState,
           LiveIsInFlight, InFlight, Live
  <2>6. RecordedSuccessStands'
    BY <1>3
       DEF Consistent, PushClaim, CallerReady, Claimable,
           RecordedSuccessStands, JobsWereQueued, InFlight
  <2>7. WaitersShareKey'
    BY <1>3 DEF Consistent, PushClaim, CallerReady, Claimable, WaitersShareKey
  <2>8. NewCallsAreSilent'
    BY <1>3
       DEF Consistent, PushClaim, CallerReady, Claimable, NewCallsAreSilent,
           Deliver
  <2> QED
    BY <2>1, <2>2, <2>3, <2>4, <2>5, <2>6, <2>7, <2>8 DEF Consistent
<1>4. ASSUME NEW p \in Pushes, Enqueue(p) PROVE Consistent'
  <2>1. /\ job[p] = "none"
        /\ Lane[p] \in Lanes /\ buffer[Lane[p]] \in Seq(Pushes)
    BY <1>4 DEF Enqueue, Consistent, JobsWereQueued
  <2>2. /\ Len(Append(buffer[Lane[p]], p)) = Len(buffer[Lane[p]]) + 1
        /\ \A i \in 1..Len(buffer[Lane[p]]) :
              Append(buffer[Lane[p]], p)[i] = buffer[Lane[p]][i]
        /\ Append(buffer[Lane[p]], p)[Len(buffer[Lane[p]]) + 1] = p
    BY <2>1
  <2>3. JobsWereQueued'
    BY <1>4, <2>1 DEF Consistent, Enqueue, JobsWereQueued
  <2>4. BuffersHoldQueuedJobs'
    <3> SUFFICES ASSUME NEW m \in Lanes
                 PROVE  (/\ \A i \in 1..Len(buffer[m]) :
                              job[buffer[m][i]] = "queued" /\ Lane[buffer[m][i]] = m
                         /\ \A i, j \in 1..Len(buffer[m]) :
                              buffer[m][i] = buffer[m][j] => i = j)'
      BY DEF BuffersHoldQueuedJobs
    <3>1. CASE m # Lane[p]
      <4>1. buffer'[m] = buffer[m] /\ buffer[m] \in Seq(Pushes)
        BY <1>4, <2>1, <3>1 DEF Enqueue
      <4>2. \A i \in 1..Len(buffer[m]) :
              /\ buffer[m][i] \in Pushes /\ buffer[m][i] # p
              /\ job[buffer[m][i]] = "queued" /\ Lane[buffer[m][i]] = m
        BY <2>1, <4>1 DEF Consistent, BuffersHoldQueuedJobs
      <4>3. \A q \in Pushes : q # p => job'[q] = job[q]
        BY <1>4 DEF Enqueue
      <4>4. \A i \in 1..Len(buffer[m]) : job'[buffer[m][i]] = "queued"
        BY <4>2, <4>3
      <4>5. \A i, j \in 1..Len(buffer[m]) : buffer[m][i] = buffer[m][j] => i = j
        BY DEF Consistent, BuffersHoldQueuedJobs
      <4> QED
        BY <4>1, <4>2, <4>4, <4>5
    <3>2. CASE m = Lane[p]
      <4>1. buffer'[Lane[p]] = Append(buffer[Lane[p]], p)
        BY <1>4, <2>1 DEF Enqueue
      <4>2. \A i \in 1..Len(buffer[m]) : buffer[m][i] # p
        BY <2>1, <3>2 DEF Consistent, BuffersHoldQueuedJobs
      <4>3. \A i \in 1..Len(buffer[m]) :
              /\ buffer[m][i] \in Pushes
              /\ job[buffer[m][i]] = "queued" /\ Lane[buffer[m][i]] = m
        BY <2>1, <3>2 DEF Consistent, BuffersHoldQueuedJobs
      <4>4. \A i, j \in 1..Len(buffer[m]) : buffer[m][i] = buffer[m][j] => i = j
        BY DEF Consistent, BuffersHoldQueuedJobs
      <4>5. job'[p] = "queued" /\ \A q \in Pushes : q # p => job'[q] = job[q]
        BY <1>4 DEF Enqueue
      <4>6. \A i \in 1..Len(buffer'[m]) : i \in 1..Len(buffer[m]) \/ i = Len(buffer[m]) + 1
        BY <2>1, <2>2, <3>2, <4>1
      <4>7. /\ \A i \in 1..Len(buffer[m]) : buffer'[m][i] = buffer[m][i]
            /\ buffer'[m][Len(buffer[m]) + 1] = p
        BY <2>2, <3>2, <4>1
      <4>8. \A i \in 1..Len(buffer'[m]) :
              job'[buffer'[m][i]] = "queued" /\ Lane[buffer'[m][i]] = m
        <5> SUFFICES ASSUME NEW i \in 1..Len(buffer'[m])
                     PROVE  job'[buffer'[m][i]] = "queued" /\ Lane[buffer'[m][i]] = m
          OBVIOUS
        <5>1. CASE i \in 1..Len(buffer[m])
          <6> DEFINE x == buffer[m][i]
          <6>1. x \in Pushes /\ x # p /\ job[x] = "queued" /\ Lane[x] = m
            BY <4>2, <4>3, <5>1
          <6>2. buffer'[m][i] = x
            BY <4>7, <5>1
          <6> HIDE DEF x
          <6>3. job'[x] = job[x]
            BY <4>5, <6>1
          <6> QED
            BY <6>1, <6>2, <6>3
        <5>2. CASE i = Len(buffer[m]) + 1
          BY <3>2, <4>5, <4>7, <5>2, Zenon
        <5> QED
          BY <4>6, <5>1, <5>2, Zenon
      <4>9. \A i, j \in 1..Len(buffer'[m]) : buffer'[m][i] = buffer'[m][j] => i = j
        BY <4>2, <4>4, <4>6, <4>7, Zenon
      <4> QED
        BY <4>8, <4>9
    <3> QED
      BY <3>1, <3>2
  <2>5. LiveIsInFlight'
    BY <1>4, <2>1
       DEF Consistent, Enqueue, LiveIsInFlight, JobsWereQueued, InFlight, Live
  <2>6. SingleFlight'
    BY <1>4, <2>1
       DEF Consistent, Enqueue, SingleFlight, LiveIsInFlight, JobsWereQueued,
           InFlight, Live
  <2>7. SourceMatchesState'
    BY <1>4, <2>1
       DEF Consistent, Enqueue, SourceMatchesState, LiveIsInFlight, InFlight,
           Live
  <2>8. RecordedSuccessStands'
    BY <1>4, <2>1
       DEF Consistent, Enqueue, RecordedSuccessStands, JobsWereQueued,
           InFlight
  <2>9. WaitersShareKey'
    BY <1>4, <2>1 DEF Consistent, Enqueue, WaitersShareKey
  <2>10. NewCallsAreSilent'
    BY <1>4, <2>1 DEF Consistent, Enqueue, NewCallsAreSilent, Deliver
  <2> QED
    BY <2>3, <2>4, <2>5, <2>6, <2>7, <2>8, <2>9, <2>10 DEF Consistent
<1>5. ASSUME NEW p \in Pushes, EnqueueFails(p) PROVE Consistent'
  <2>1. /\ Live(p)
        /\ \A q \in Pushes :
              /\ Live(q) /\ q # p => Key[q] # Key[p]
              /\ job[q] = "recorded" /\ result[q] = "ok" => Key[q] # Key[p]
    BY <1>5, LiveKeyIsAlone DEF Live, EnqueueFails
  <2>2. JobsWereQueued'
    BY <1>5, <2>1 DEF Consistent, EnqueueFails, GiveUp, JobsWereQueued
  <2>3. BuffersHoldQueuedJobs'
    BY <1>5, BuffersUntouched DEF Consistent, EnqueueFails, jobs, lanes
  <2>4. LiveIsInFlight'
    <3> SUFFICES ASSUME NEW q \in Pushes, Live(q)' PROVE InFlight(Key[q])'
      BY DEF LiveIsInFlight
    <3>1. q # p /\ Live(q)
      BY <1>5 DEF Consistent, JobsWereQueued, Live, EnqueueFails, GiveUp
    <3>2. InFlight(Key[q]) /\ Key[q] # Key[p]
      BY <3>1, <2>1 DEF Consistent, LiveIsInFlight
    <3> QED
      BY <1>5, <3>2 DEF InFlight, EnqueueFails, GiveUp
  <2>5. SingleFlight'
    BY <1>5, <2>1
       DEF Consistent, EnqueueFails, GiveUp, SingleFlight, LiveIsInFlight,
           JobsWereQueued, InFlight, Live
  <2>6. SourceMatchesState'
    <3>1. source' = source /\ state[Key[p]] # "completed" /\ state'[Key[p]] # "completed"
      BY <1>5, <2>1
         DEF Consistent, LiveIsInFlight, InFlight, EnqueueFails, GiveUp
    <3>2. \A k \in Keys : k # Key[p] => state'[k] = state[k]
      BY <1>5 DEF EnqueueFails, GiveUp
    <3> QED
      BY <3>1, <3>2 DEF Consistent, SourceMatchesState
  <2>7. RecordedSuccessStands'
    BY <1>5, <2>1
       DEF Consistent, EnqueueFails, GiveUp, RecordedSuccessStands,
           JobsWereQueued, InFlight
  <2>8. WaitersShareKey'
    BY <1>5, <2>1 DEF Consistent, EnqueueFails, GiveUp, WaitersShareKey
  <2>9. NewCallsAreSilent'
    BY <1>5, <2>1
       DEF Consistent, EnqueueFails, GiveUp, NewCallsAreSilent, Deliver
  <2> QED
    BY <2>2, <2>3, <2>4, <2>5, <2>6, <2>7, <2>8, <2>9 DEF Consistent
<1>6. ASSUME NEW p \in Pushes, Cancel(p) PROVE Consistent'
  <2>1. /\ Live(p)
        /\ \A q \in Pushes :
              /\ Live(q) /\ q # p => Key[q] # Key[p]
              /\ job[q] = "recorded" /\ result[q] = "ok" => Key[q] # Key[p]
    BY <1>6, LiveKeyIsAlone DEF Live, Cancel
  <2>2. JobsWereQueued'
    BY <1>6, <2>1 DEF Consistent, Cancel, GiveUp, JobsWereQueued
  <2>3. BuffersHoldQueuedJobs'
    BY <1>6, BuffersUntouched DEF Consistent, Cancel, jobs, lanes
  <2>4. LiveIsInFlight'
    <3> SUFFICES ASSUME NEW q \in Pushes, Live(q)' PROVE InFlight(Key[q])'
      BY DEF LiveIsInFlight
    <3>1. q # p /\ Live(q)
      BY <1>6 DEF Consistent, JobsWereQueued, Live, Cancel, GiveUp
    <3>2. InFlight(Key[q]) /\ Key[q] # Key[p]
      BY <3>1, <2>1 DEF Consistent, LiveIsInFlight
    <3> QED
      BY <1>6, <3>2 DEF InFlight, Cancel, GiveUp
  <2>5. SingleFlight'
    BY <1>6, <2>1
       DEF Consistent, Cancel, GiveUp, SingleFlight, LiveIsInFlight,
           JobsWereQueued, InFlight, Live
  <2>6. SourceMatchesState'
    <3>1. source' = source /\ state[Key[p]] # "completed" /\ state'[Key[p]] # "completed"
      BY <1>6, <2>1 DEF Consistent, LiveIsInFlight, InFlight, Cancel, GiveUp
    <3>2. \A k \in Keys : k # Key[p] => state'[k] = state[k]
      BY <1>6 DEF Cancel, GiveUp
    <3> QED
      BY <3>1, <3>2 DEF Consistent, SourceMatchesState
  <2>7. RecordedSuccessStands'
    BY <1>6, <2>1
       DEF Consistent, Cancel, GiveUp, RecordedSuccessStands, JobsWereQueued,
           InFlight
  <2>8. WaitersShareKey'
    BY <1>6, <2>1 DEF Consistent, Cancel, GiveUp, WaitersShareKey
  <2>9. NewCallsAreSilent'
    BY <1>6, <2>1 DEF Consistent, Cancel, GiveUp, NewCallsAreSilent, Deliver
  <2> QED
    BY <2>2, <2>3, <2>4, <2>5, <2>6, <2>7, <2>8, <2>9 DEF Consistent
<1>7. ASSUME NEW l \in Lanes, Receive(l) PROVE Consistent'
  <2>1. /\ 1 \in 1..Len(buffer[l]) /\ Head(buffer[l]) = buffer[l][1]
        /\ Head(buffer[l]) \in Pushes /\ job[Head(buffer[l])] = "queued"
        /\ Lane[Head(buffer[l])] = l
    BY <1>7 DEF Receive, Consistent, BuffersHoldQueuedJobs
  <2>2. /\ Len(Tail(buffer[l])) = Len(buffer[l]) - 1
        /\ \A i \in 1..Len(Tail(buffer[l])) :
              /\ i + 1 \in 1..Len(buffer[l]) /\ i + 1 # 1
              /\ Tail(buffer[l])[i] = buffer[l][i + 1]
    BY <1>7 DEF Receive
  <2>3. JobsWereQueued'
    BY <1>7, <2>1, <2>2 DEF Consistent, Receive, JobsWereQueued
  <2>4. BuffersHoldQueuedJobs'
    <3> SUFFICES ASSUME NEW m \in Lanes
                 PROVE  (/\ \A i \in 1..Len(buffer[m]) :
                              job[buffer[m][i]] = "queued" /\ Lane[buffer[m][i]] = m
                         /\ \A i, j \in 1..Len(buffer[m]) :
                              buffer[m][i] = buffer[m][j] => i = j)'
      BY DEF BuffersHoldQueuedJobs
    <3>1. CASE m # l
      <4>1. buffer'[m] = buffer[m] /\ buffer[m] \in Seq(Pushes)
        BY <1>7, <3>1 DEF Receive
      <4>2. \A i \in 1..Len(buffer[m]) :
              /\ buffer[m][i] \in Pushes /\ buffer[m][i] # Head(buffer[l])
              /\ job[buffer[m][i]] = "queued" /\ Lane[buffer[m][i]] = m
        BY <2>1, <3>1, <4>1 DEF Consistent, BuffersHoldQueuedJobs
      <4>3. \A q \in Pushes : q # Head(buffer[l]) => job'[q] = job[q]
        BY <1>7 DEF Receive
      <4>4. \A i \in 1..Len(buffer[m]) : job'[buffer[m][i]] = "queued"
        BY <4>2, <4>3
      <4>5. \A i, j \in 1..Len(buffer[m]) : buffer[m][i] = buffer[m][j] => i = j
        BY DEF Consistent, BuffersHoldQueuedJobs
      <4> QED
        BY <4>1, <4>2, <4>4, <4>5
    <3>2. CASE m = l
      <4>1. /\ buffer'[l] = Tail(buffer[l])
            /\ job' = [job EXCEPT ![Head(buffer[l])] = "held"]
        BY <1>7 DEF Receive
      <4>2. \A i \in 1..Len(Tail(buffer[l])) :
              /\ Tail(buffer[l])[i] \in Pushes
              /\ Tail(buffer[l])[i] # Head(buffer[l])
              /\ job[Tail(buffer[l])[i]] = "queued"
              /\ Lane[Tail(buffer[l])[i]] = l
        BY <2>1, <2>2 DEF Consistent, BuffersHoldQueuedJobs
      <4>3. \A i, j \in 1..Len(Tail(buffer[l])) :
              Tail(buffer[l])[i] = Tail(buffer[l])[j] => i = j
        BY <2>1, <2>2 DEF Consistent, BuffersHoldQueuedJobs
      <4>4. \A q \in Pushes : q # Head(buffer[l]) => job'[q] = job[q]
        BY <4>1
      <4>5. \A i \in 1..Len(Tail(buffer[l])) : job'[Tail(buffer[l])[i]] = "queued"
        BY <4>2, <4>4
      <4>6. buffer'[m] = Tail(buffer[l])
        BY <3>2, <4>1
      <4>7. \A i \in 1..Len(buffer'[m]) :
              job'[buffer'[m][i]] = "queued" /\ Lane[buffer'[m][i]] = m
        BY <3>2, <4>2, <4>5, <4>6, Zenon
      <4>8. \A i, j \in 1..Len(buffer'[m]) : buffer'[m][i] = buffer'[m][j] => i = j
        BY <4>3, <4>6, Zenon
      <4> QED
        BY <4>7, <4>8
    <3> QED
      BY <3>1, <3>2
  <2>5. LiveIsInFlight'
    BY <1>7, <2>1, <2>2
       DEF Consistent, Receive, LiveIsInFlight, JobsWereQueued, InFlight, Live
  <2>6. SingleFlight'
    BY <1>7, <2>1, <2>2
       DEF Consistent, Receive, SingleFlight, LiveIsInFlight, JobsWereQueued,
           InFlight, Live
  <2>7. SourceMatchesState'
    BY <1>7, <2>1, <2>2
       DEF Consistent, Receive, SourceMatchesState, LiveIsInFlight, InFlight,
           Live
  <2>8. RecordedSuccessStands'
    BY <1>7, <2>1, <2>2
       DEF Consistent, Receive, RecordedSuccessStands, JobsWereQueued,
           InFlight
  <2>9. WaitersShareKey'
    BY <1>7, <2>1, <2>2 DEF Consistent, Receive, WaitersShareKey
  <2>10. NewCallsAreSilent'
    BY <1>7, <2>1, <2>2 DEF Consistent, Receive, NewCallsAreSilent, Deliver
  <2> QED
    BY <2>3, <2>4, <2>5, <2>6, <2>7, <2>8, <2>9, <2>10 DEF Consistent
<1>8. ASSUME NEW p \in Pushes, Spawn(p) PROVE Consistent'
  <2>1. JobsWereQueued'
    BY <1>8 DEF Consistent, Spawn, JobsWereQueued
  <2>2. BuffersHoldQueuedJobs'
    BY <1>8, BuffersUntouched DEF Consistent, Spawn, lanes
  <2>3. LiveIsInFlight'
    BY <1>8
       DEF Consistent, Spawn, LiveIsInFlight, JobsWereQueued, InFlight, Live
  <2>4. SingleFlight'
    BY <1>8
       DEF Consistent, Spawn, SingleFlight, LiveIsInFlight, JobsWereQueued,
           InFlight, Live
  <2>5. SourceMatchesState'
    BY <1>8
       DEF Consistent, Spawn, SourceMatchesState, LiveIsInFlight, InFlight,
           Live
  <2>6. RecordedSuccessStands'
    BY <1>8
       DEF Consistent, Spawn, RecordedSuccessStands, JobsWereQueued, InFlight
  <2>7. WaitersShareKey'
    BY <1>8 DEF Consistent, Spawn, WaitersShareKey
  <2>8. NewCallsAreSilent'
    BY <1>8 DEF Consistent, Spawn, NewCallsAreSilent, Deliver
  <2> QED
    BY <2>1, <2>2, <2>3, <2>4, <2>5, <2>6, <2>7, <2>8 DEF Consistent
<1>9. ASSUME NEW p \in Pushes, Start(p) PROVE Consistent'
  <2>1. /\ Live(p)
        /\ \A q \in Pushes :
              /\ Live(q) /\ q # p => Key[q] # Key[p]
              /\ job[q] = "recorded" /\ result[q] = "ok" => Key[q] # Key[p]
    BY <1>9, LiveKeyIsAlone DEF Live, Start
  <2>2. JobsWereQueued'
    BY <1>9, <2>1 DEF Consistent, Start, JobsWereQueued
  <2>3. BuffersHoldQueuedJobs'
    BY <1>9, BuffersUntouched DEF Consistent, Start, lanes
  <2>4. LiveIsInFlight'
    BY <1>9, <2>1
       DEF Consistent, Start, LiveIsInFlight, JobsWereQueued, InFlight, Live
  <2>5. SingleFlight'
    BY <1>9, <2>1
       DEF Consistent, Start, SingleFlight, LiveIsInFlight, JobsWereQueued,
           InFlight, Live
  <2>6. SourceMatchesState'
    <3>1. source' = source /\ state[Key[p]] # "completed" /\ state'[Key[p]] # "completed"
      BY <1>9, <2>1 DEF Consistent, LiveIsInFlight, InFlight, Start
    <3>2. \A k \in Keys : k # Key[p] => state'[k] = state[k]
      BY <1>9 DEF Start
    <3> QED
      BY <3>1, <3>2 DEF Consistent, SourceMatchesState
  <2>7. RecordedSuccessStands'
    BY <1>9, <2>1
       DEF Consistent, Start, RecordedSuccessStands, JobsWereQueued, InFlight
  <2>8. WaitersShareKey'
    BY <1>9, <2>1 DEF Consistent, Start, WaitersShareKey
  <2>9. NewCallsAreSilent'
    BY <1>9, <2>1 DEF Consistent, Start, NewCallsAreSilent, Deliver
  <2> QED
    BY <2>2, <2>3, <2>4, <2>5, <2>6, <2>7, <2>8, <2>9 DEF Consistent
<1>10. ASSUME NEW p \in Pushes, NEW r \in Results, Finish(p, r) PROVE Consistent'
  <2>1. /\ Live(p)
        /\ \A q \in Pushes :
              /\ Live(q) /\ q # p => Key[q] # Key[p]
              /\ job[q] = "recorded" /\ result[q] = "ok" => Key[q] # Key[p]
    BY <1>10, LiveKeyIsAlone DEF Live, Finish
  <2>2. JobsWereQueued'
    BY <1>10, <2>1 DEF Consistent, Finish, Record, JobsWereQueued
  <2>3. BuffersHoldQueuedJobs'
    BY <1>10, BuffersUntouched DEF Consistent, Finish, Record, lanes
  <2>4. LiveIsInFlight'
    <3> SUFFICES ASSUME NEW q \in Pushes, Live(q)' PROVE InFlight(Key[q])'
      BY DEF LiveIsInFlight
    <3>1. q # p /\ Live(q)
      BY <1>10 DEF Consistent, JobsWereQueued, Live, Finish, Record
    <3>2. InFlight(Key[q]) /\ Key[q] # Key[p]
      BY <3>1, <2>1 DEF Consistent, LiveIsInFlight
    <3> QED
      BY <1>10, <3>2 DEF InFlight, Finish, Record
  <2>5. SingleFlight'
    BY <1>10, <2>1
       DEF Consistent, Finish, Record, SingleFlight, LiveIsInFlight,
           JobsWereQueued, InFlight, Live
  <2>6. SourceMatchesState'
    BY <1>10, <2>1
       DEF Consistent, Finish, Record, SourceMatchesState, LiveIsInFlight,
           InFlight, Live
  <2>7. RecordedSuccessStands'
    BY <1>10, <2>1
       DEF Consistent, Finish, Record, RecordedSuccessStands, JobsWereQueued,
           InFlight
  <2>8. WaitersShareKey'
    BY <1>10, <2>1 DEF Consistent, Finish, Record, WaitersShareKey
  <2>9. NewCallsAreSilent'
    BY <1>10, <2>1 DEF Consistent, Finish, Record, NewCallsAreSilent, Deliver
  <2> QED
    BY <2>2, <2>3, <2>4, <2>5, <2>6, <2>7, <2>8, <2>9 DEF Consistent
<1>11. ASSUME NEW p \in Pushes, Notify(p) PROVE Consistent'
  <2>1. JobsWereQueued'
    BY <1>11 DEF Consistent, Notify, JobsWereQueued
  <2>2. BuffersHoldQueuedJobs'
    BY <1>11, BuffersUntouched DEF Consistent, Notify, lanes
  <2>3. LiveIsInFlight'
    BY <1>11
       DEF Consistent, Notify, LiveIsInFlight, JobsWereQueued, InFlight, Live
  <2>4. SingleFlight'
    BY <1>11
       DEF Consistent, Notify, SingleFlight, LiveIsInFlight, JobsWereQueued,
           InFlight, Live
  <2>5. SourceMatchesState'
    BY <1>11
       DEF Consistent, Notify, SourceMatchesState, LiveIsInFlight, InFlight,
           Live
  <2>6. RecordedSuccessStands'
    BY <1>11
       DEF Consistent, Notify, RecordedSuccessStands, JobsWereQueued, InFlight
  <2>7. WaitersShareKey'
    BY <1>11 DEF Consistent, Notify, WaitersShareKey
  <2>8. NewCallsAreSilent'
    BY <1>11 DEF Consistent, Notify, NewCallsAreSilent, Deliver
  <2> QED
    BY <2>1, <2>2, <2>3, <2>4, <2>5, <2>6, <2>7, <2>8 DEF Consistent
<1>12. ASSUME NEW p \in Pushes, Release(p) PROVE Consistent'
  <2>1. JobsWereQueued'
    BY <1>12 DEF Consistent, Release, JobsWereQueued
  <2>2. BuffersHoldQueuedJobs'
    BY <1>12, BuffersUntouched DEF Consistent, Release, lanes
  <2>3. LiveIsInFlight'
    BY <1>12
       DEF Consistent, Release, LiveIsInFlight, JobsWereQueued, InFlight, Live
  <2>4. SingleFlight'
    BY <1>12
       DEF Consistent, Release, SingleFlight, LiveIsInFlight, JobsWereQueued,
           InFlight, Live
  <2>5. SourceMatchesState'
    BY <1>12
       DEF Consistent, Release, SourceMatchesState, LiveIsInFlight, InFlight,
           Live
  <2>6. RecordedSuccessStands'
    BY <1>12
       DEF Consistent, Release, RecordedSuccessStands, JobsWereQueued,
           InFlight
  <2>7. WaitersShareKey'
    BY <1>12 DEF Consistent, Release, WaitersShareKey
  <2>8. NewCallsAreSilent'
    BY <1>12 DEF Consistent, Release, NewCallsAreSilent, Deliver
  <2> QED
    BY <2>1, <2>2, <2>3, <2>4, <2>5, <2>6, <2>7, <2>8 DEF Consistent
<1>13. ASSUME NEW l \in Lanes, DropWorker(l) PROVE Consistent'
  <2>1. JobsWereQueued'
    BY <1>13 DEF Consistent, DropWorker, JobsWereQueued
  <2>2. BuffersHoldQueuedJobs'
    BY <1>13 DEF Consistent, DropWorker, BuffersHoldQueuedJobs, JobsWereQueued
  <2>3. LiveIsInFlight'
    BY <1>13
       DEF Consistent, DropWorker, LiveIsInFlight, JobsWereQueued, InFlight,
           Live
  <2>4. SingleFlight'
    BY <1>13
       DEF Consistent, DropWorker, SingleFlight, LiveIsInFlight,
           JobsWereQueued, InFlight, Live
  <2>5. SourceMatchesState'
    BY <1>13
       DEF Consistent, DropWorker, SourceMatchesState, LiveIsInFlight,
           InFlight, Live
  <2>6. RecordedSuccessStands'
    BY <1>13
       DEF Consistent, DropWorker, RecordedSuccessStands, JobsWereQueued,
           InFlight
  <2>7. WaitersShareKey'
    BY <1>13 DEF Consistent, DropWorker, WaitersShareKey
  <2>8. NewCallsAreSilent'
    BY <1>13 DEF Consistent, DropWorker, NewCallsAreSilent, Deliver
  <2> QED
    BY <2>1, <2>2, <2>3, <2>4, <2>5, <2>6, <2>7, <2>8 DEF Consistent
<1>14. ASSUME NEW p \in Pushes, DropTask(p) PROVE Consistent'
  <2>1. JobsWereQueued'
    BY <1>14 DEF Consistent, DropTask, JobsWereQueued
  <2>2. BuffersHoldQueuedJobs'
    BY <1>14, BuffersUntouched DEF Consistent, DropTask, lanes
  <2>3. LiveIsInFlight'
    BY <1>14
       DEF Consistent, DropTask, LiveIsInFlight, JobsWereQueued, InFlight,
           Live
  <2>4. SingleFlight'
    BY <1>14
       DEF Consistent, DropTask, SingleFlight, LiveIsInFlight, JobsWereQueued,
           InFlight, Live
  <2>5. SourceMatchesState'
    BY <1>14
       DEF Consistent, DropTask, SourceMatchesState, LiveIsInFlight, InFlight,
           Live
  <2>6. RecordedSuccessStands'
    BY <1>14
       DEF Consistent, DropTask, RecordedSuccessStands, JobsWereQueued,
           InFlight
  <2>7. WaitersShareKey'
    BY <1>14 DEF Consistent, DropTask, WaitersShareKey
  <2>8. NewCallsAreSilent'
    BY <1>14 DEF Consistent, DropTask, NewCallsAreSilent, Deliver
  <2> QED
    BY <2>1, <2>2, <2>3, <2>4, <2>5, <2>6, <2>7, <2>8 DEF Consistent
<1>15. ASSUME NEW p \in Pushes, AbortBody(p) PROVE Consistent'
  <2>1. /\ Live(p)
        /\ \A q \in Pushes :
              /\ Live(q) /\ q # p => Key[q] # Key[p]
              /\ job[q] = "recorded" /\ result[q] = "ok" => Key[q] # Key[p]
    BY <1>15, LiveKeyIsAlone DEF Live, AbortBody
  <2>2. JobsWereQueued'
    BY <1>15, <2>1 DEF Consistent, AbortBody, Record, JobsWereQueued
  <2>3. BuffersHoldQueuedJobs'
    BY <1>15, BuffersUntouched DEF Consistent, AbortBody, Record, lanes
  <2>4. LiveIsInFlight'
    <3> SUFFICES ASSUME NEW q \in Pushes, Live(q)' PROVE InFlight(Key[q])'
      BY DEF LiveIsInFlight
    <3>1. q # p /\ Live(q)
      BY <1>15 DEF Consistent, JobsWereQueued, Live, AbortBody, Record
    <3>2. InFlight(Key[q]) /\ Key[q] # Key[p]
      BY <3>1, <2>1 DEF Consistent, LiveIsInFlight
    <3> QED
      BY <1>15, <3>2 DEF InFlight, AbortBody, Record
  <2>5. SingleFlight'
    BY <1>15, <2>1
       DEF Consistent, AbortBody, Record, SingleFlight, LiveIsInFlight,
           JobsWereQueued, InFlight, Live
  <2>6. SourceMatchesState'
    BY <1>15, <2>1
       DEF Consistent, AbortBody, Record, SourceMatchesState, LiveIsInFlight,
           InFlight, Live
  <2>7. RecordedSuccessStands'
    BY <1>15, <2>1
       DEF Consistent, AbortBody, Record, RecordedSuccessStands,
           JobsWereQueued, InFlight
  <2>8. WaitersShareKey'
    BY <1>15, <2>1 DEF Consistent, AbortBody, Record, WaitersShareKey
  <2>9. NewCallsAreSilent'
    BY <1>15, <2>1
       DEF Consistent, AbortBody, Record, NewCallsAreSilent, Deliver
  <2> QED
    BY <2>2, <2>3, <2>4, <2>5, <2>6, <2>7, <2>8, <2>9 DEF Consistent
<1>16. ASSUME UNCHANGED <<maps, calls, jobs, buffer>> \/ FreeMaps
      PROVE  Consistent'
  BY <1>16 DEF FreeMaps, WaitersShareKey, NewCallsAreSilent, Deliver, Consistent,
     JobsWereQueued, BuffersHoldQueuedJobs, LiveIsInFlight, SingleFlight, SourceMatchesState, RecordedSuccessStands,
     InFlight, Live
<1> QED
  BY <1>1, <1>2, <1>3, <1>4, <1>5, <1>6, <1>7, <1>8, <1>9, <1>10, <1>11,
     <1>12, <1>13, <1>14, <1>15, <1>16
     DEF Next, Idle, DropQueue, WorkerExits, Shutdown, vars

\* Lanes, jobs, calls and the two maps agree in every reachable state, for every
\* number of callers, keys and lanes: queue.rs:33-98, worker.rs:17-26, state.rs:41-82.
THEOREM ConsistentAlways == Spec => []Consistent
<1>1. Init => Consistent
  BY DEF Init, Consistent, WaitersShareKey, NewCallsAreSilent, JobsWereQueued,
     BuffersHoldQueuedJobs, LiveIsInFlight, SingleFlight, SourceMatchesState, RecordedSuccessStands,
     Live
<1> QED
  BY <1>1, TypeCorrect, ConsistentStep, PTL DEF Spec

\* No two jobs of one key are ever on their way together: queue.rs:33-68.
THEOREM OneJobPerKey == Spec => []SingleFlight
<1>1. Consistent => SingleFlight
  BY DEF Consistent
<1> QED
  BY <1>1, ConsistentAlways, PTL

\* Once a key has an output, nothing of that key is queued or run: queue.rs:43-47.
THEOREM SuccessIsNotRepeated == Spec => []NoRunAfterSuccess
<1>1. Consistent => NoRunAfterSuccess
  BY QueueAssumption DEF Consistent, NoRunAfterSuccess, LiveIsInFlight,
     SourceMatchesState, InFlight
<1> QED
  BY <1>1, ConsistentAlways, PTL

\* A completed key is given up by no step.
LEMMA CompletedStep ==
    ASSUME TypeOK, Consistent, [Next]_vars,
           NEW k \in Keys, state[k] = "completed"
    PROVE  state'[k] = "completed" /\ source'[k] = source[k]
<1> USE QueueAssumption DEF TypeOK
<1>1. \A p \in Pushes : Live(p) => Key[p] # k
  BY DEF Consistent, LiveIsInFlight, InFlight
<1>2. ASSUME NEW p \in Pushes, PushClaim(p) PROVE state'[k] = "completed" /\ source' = source
  BY <1>2 DEF PushClaim, Claimable
<1>3. ASSUME NEW p \in Pushes, EnqueueFails(p) \/ Cancel(p)
      PROVE  state'[k] = "completed" /\ source' = source
  BY <1>1, <1>3 DEF EnqueueFails, Cancel, GiveUp, Live
<1>4. ASSUME NEW p \in Pushes, Start(p) PROVE state'[k] = "completed" /\ source' = source
  BY <1>1, <1>4 DEF Start, Live
<1>5. ASSUME NEW p \in Pushes, NEW r \in Results, job[p] = "running", Record(p, r)
      PROVE  state'[k] = "completed" /\ source'[k] = source[k]
  BY <1>1, <1>5 DEF Record, Live
<1>6. CASE UNCHANGED <<state, source>>
  BY <1>6
<1> QED
  BY <1>2, <1>3, <1>4, <1>5, <1>6
     DEF Next, vars, Finish, AbortBody, PushCached, PushJoin, Enqueue, Receive,
         Spawn, Notify, Release, DropQueue, WorkerExits, Shutdown, DropWorker,
         DropTask, FreeMaps, Idle, Results

\* A completed key keeps its output: state.rs:47-50, queue.rs:43-47.
THEOREM SuccessIsFinal == Spec => CompletedIsFinal
<1>1. TypeOK /\ Consistent /\ [Next]_vars =>
          [\A k \in Keys : state[k] = "completed" =>
              state'[k] = "completed" /\ source'[k] = source[k]]_vars
  BY CompletedStep
<1> QED
  BY <1>1, TypeCorrect, ConsistentAlways, PTL DEF Spec, CompletedIsFinal

LEMMA AnswersStep ==
    TypeOK /\ Consistent /\ AnswersAgree /\ [Next]_vars => AnswersAgree'
<1> USE QueueAssumption DEF TypeOK
<1> SUFFICES ASSUME TypeOK, Consistent, AnswersAgree, [Next]_vars,
                    NEW q \in Pushes, slot'[q].kind = "ok"
             PROVE  state'[Key[q]] = "completed" /\ slot'[q].by = source'[Key[q]]
  BY DEF AnswersAgree
<1>1. CASE slot'[q] = slot[q]
  BY <1>1, CompletedStep DEF AnswersAgree
<1>2. ASSUME NEW p \in Pushes, PushCached(p), slot'[q] # slot[q]
      PROVE  state'[Key[q]] = "completed" /\ slot'[q].by = source'[Key[q]]
  BY <1>2 DEF PushCached
<1>3. ASSUME NEW p \in Pushes, Notify(p), slot'[q] # slot[q]
      PROVE  state'[Key[q]] = "completed" /\ slot'[q].by = source'[Key[q]]
  <2>1. q \in waiters[Key[p]] /\ slot'[q] = Told(p)
    BY <1>3 DEF Notify, Deliver
  <2>2. Key[q] = Key[p]
    BY <2>1 DEF Consistent, WaitersShareKey
  <2>3. result[p] = "ok" /\ slot'[q].by = p
    BY <2>1 DEF Told
  <2> QED
    BY <1>3, <2>2, <2>3 DEF Notify, Consistent, RecordedSuccessStands
<1>4. ASSUME NEW W, slot' = Deliver(W, JobLost) PROVE slot'[q] = slot[q]
  BY <1>4 DEF Deliver, JobLost
<1> QED
  BY <1>1, <1>2, <1>3, <1>4
     DEF Next, vars, Finish, AbortBody, Record, PushJoin, PushClaim, Enqueue,
         EnqueueFails, Cancel, GiveUp, Receive, Spawn, Start, Release, DropQueue,
         WorkerExits, Shutdown, DropWorker, DropTask, FreeMaps, Idle, Results

\* Whoever is told Ok is told the output the state map keeps: state.rs:47-59.
THEOREM OkIsTheOutput == Spec => []AnswersAgree
<1>1. Init => AnswersAgree
  BY DEF Init, AnswersAgree, NoAnswer
<1> QED
  BY <1>1, TypeCorrect, ConsistentAlways, AnswersStep, PTL DEF Spec

LEMMA OwnedStep ==
    TypeOK /\ Consistent /\ ClaimsAreOwned /\ [Next]_vars => ClaimsAreOwned'
<1> USE QueueAssumption DEF TypeOK
<1> SUFFICES ASSUME TypeOK, Consistent, ClaimsAreOwned, [Next]_vars,
                    NEW k \in Keys, InFlight(k)', runtime' # "down"
             PROVE  \E q \in Pushes : Key[q] = k /\ Live(q)'
  BY DEF ClaimsAreOwned
<1>0. /\ runtime # "down"
      /\ InFlight(k) => \E q \in Pushes : Key[q] = k /\ Live(q)
  BY DEF ClaimsAreOwned, Next, vars, PushCached, PushJoin, PushClaim, Enqueue,
         EnqueueFails, Cancel, Receive, Spawn, Start, Finish, AbortBody, Record,
         Notify, Release, DropQueue, WorkerExits, Shutdown, DropWorker,
         DropTask, FreeMaps, Idle
<1>1. ASSUME NEW p \in Pushes, PushClaim(p) PROVE \E q \in Pushes : Key[q] = k /\ Live(q)'
  BY <1>0, <1>1 DEF PushClaim, CallerReady, InFlight, Live
<1>2. ASSUME NEW p \in Pushes, PushCached(p) \/ PushJoin(p) \/ Enqueue(p)
      PROVE \E q \in Pushes : Key[q] = k /\ Live(q)'
  BY <1>0, <1>2 DEF PushCached, PushJoin, Enqueue, CallerReady, InFlight, Live
<1>3. ASSUME NEW p \in Pushes, EnqueueFails(p) \/ Cancel(p)
      PROVE \E q \in Pushes : Key[q] = k /\ Live(q)'
  <2>1. k # Key[p] /\ InFlight(k)
    BY <1>3 DEF EnqueueFails, Cancel, GiveUp, InFlight
  <2> QED
    BY <1>0, <1>3, <2>1 DEF EnqueueFails, Cancel, GiveUp, Live
<1>4. ASSUME NEW l \in Lanes, Receive(l) PROVE \E q \in Pushes : Key[q] = k /\ Live(q)'
  BY <1>0, <1>4 DEF Receive, InFlight, Live
<1>5. ASSUME NEW p \in Pushes, Spawn(p) \/ Notify(p) \/ Release(p)
      PROVE \E q \in Pushes : Key[q] = k /\ Live(q)'
  BY <1>0, <1>5 DEF Spawn, Notify, Release, InFlight, Live
<1>6. ASSUME NEW p \in Pushes, Start(p) PROVE \E q \in Pushes : Key[q] = k /\ Live(q)'
  <2>1. InFlight(Key[p]) /\ InFlight(k)
    BY <1>6 DEF Start, InFlight, Live, Consistent, LiveIsInFlight
  <2> QED
    BY <1>0, <1>6, <2>1 DEF Start, Live
<1>7. ASSUME NEW p \in Pushes, NEW r \in Results, Finish(p, r)
      PROVE \E q \in Pushes : Key[q] = k /\ Live(q)'
  <2>1. k # Key[p] /\ InFlight(k)
    BY <1>7 DEF Finish, Record, InFlight
  <2> QED
    BY <1>0, <1>7, <2>1 DEF Finish, Record, Live
<1>8. CASE UNCHANGED <<state, call, job>>
  BY <1>0, <1>8 DEF InFlight, Live
<1> QED
  BY <1>0, <1>1, <1>2, <1>3, <1>4, <1>5, <1>6, <1>7, <1>8
     DEF Next, vars, DropQueue, WorkerExits, Shutdown, DropWorker, DropTask,
         AbortBody, FreeMaps, Idle

\* No key is left in flight with nobody to settle it: state.rs:70-81.
THEOREM NoKeyIsStuck == Spec => []ClaimsAreOwned
<1>1. Init => ClaimsAreOwned
  BY DEF Init, ClaimsAreOwned, InFlight
<1> QED
  BY <1>1, TypeCorrect, ConsistentAlways, OwnedStep, PTL DEF Spec

LEMMA WaitersStep ==
    TypeOK /\ Consistent /\ NoWaiterLeftBehind /\ [Next]_vars => NoWaiterLeftBehind'
<1> USE QueueAssumption DEF TypeOK
<1> SUFFICES ASSUME TypeOK, Consistent, NoWaiterLeftBehind, [Next]_vars,
                    NEW k \in Keys, waiters'[k] # {}
             PROVE  \/ InFlight(k)'
                    \/ \E p \in Pushes : Key[p] = k /\ job'[p] = "recorded"
  BY DEF NoWaiterLeftBehind
<1> DEFINE Kept == \/ InFlight(k)'
                   \/ \E p \in Pushes : Key[p] = k /\ job'[p] = "recorded"
           Was == \/ InFlight(k)
                  \/ \E p \in Pushes : Key[p] = k /\ job[p] = "recorded"
<1>0. waiters[k] # {} => Was
  BY DEF NoWaiterLeftBehind
<1>1. ASSUME NEW p \in Pushes, PushJoin(p) \/ PushClaim(p) PROVE Kept
  BY <1>0, <1>1 DEF PushJoin, PushClaim, InFlight
<1>2. ASSUME NEW p \in Pushes, EnqueueFails(p) \/ Cancel(p) PROVE Kept
  <2>1. k # Key[p] /\ waiters[k] # {}
    BY <1>2 DEF EnqueueFails, Cancel, GiveUp
  <2> QED
    BY <1>0, <1>2, <2>1 DEF EnqueueFails, Cancel, GiveUp, InFlight
<1>3. ASSUME NEW p \in Pushes, Start(p) PROVE Kept
  BY <1>0, <1>3 DEF Start, InFlight
<1>4. ASSUME NEW p \in Pushes, NEW r \in Results, job[p] = "running", Record(p, r)
      PROVE  Kept
  <2>1. job' = [job EXCEPT ![p] = "recorded"] /\ waiters' = waiters
    BY <1>4 DEF Record
  <2>2. CASE k = Key[p]
    BY <2>1, <2>2
  <2>3. CASE k # Key[p]
    BY <1>0, <1>4, <2>1, <2>3 DEF Record, InFlight
  <2> QED
    BY <2>2, <2>3
<1>5. ASSUME NEW p \in Pushes, Notify(p) PROVE Kept
  <2>1. k # Key[p] /\ waiters[k] # {}
    BY <1>5 DEF Notify
  <2> QED
    BY <1>0, <1>5, <2>1 DEF Notify, InFlight
<1>6. CASE FreeMaps
  BY <1>6 DEF FreeMaps
<1>7. ASSUME UNCHANGED <<state, waiters>>,
             \A p \in Pushes : job[p] = "recorded" => job'[p] = "recorded"
      PROVE  Kept
  BY <1>0, <1>7 DEF InFlight
<1>8. ASSUME NEW p \in Pushes, PushCached(p) \/ Enqueue(p) \/ Spawn(p) \/
                               Release(p) \/ DropTask(p)
      PROVE  Kept
  <2>1. Enqueue(p) => job[p] = "none"
    BY DEF Enqueue, Consistent, JobsWereQueued
  <2> QED
    BY <1>7, <1>8, <2>1 DEF PushCached, Enqueue, Spawn, Release, DropTask
<1>9. ASSUME NEW l \in Lanes, Receive(l) PROVE Kept
  <2>1. 1 \in 1..Len(buffer[l]) /\ Head(buffer[l]) = buffer[l][1]
    BY <1>9 DEF Receive
  <2>2. job[Head(buffer[l])] = "queued"
    BY <2>1 DEF Consistent, BuffersHoldQueuedJobs
  <2> QED
    BY <1>7, <1>9, <2>2 DEF Receive
<1>10. ASSUME NEW l \in Lanes, DropWorker(l) PROVE Kept
  BY <1>7, <1>10 DEF DropWorker
<1>11. ASSUME UNCHANGED <<maps, calls, jobs, buffer>> PROVE Kept
  BY <1>7, <1>11
<1> QED
  BY <1>1, <1>2, <1>3, <1>4, <1>5, <1>6, <1>8, <1>9, <1>10, <1>11
     DEF Next, vars, Finish, AbortBody, DropQueue, WorkerExits, Shutdown, Idle,
         Results

\* A registered waiter always has somebody left to answer it: state.rs:47-59.
THEOREM WaitersAreAnswered == Spec => []NoWaiterLeftBehind
<1>1. Init => NoWaiterLeftBehind
  BY DEF Init, NoWaiterLeftBehind
<1> QED
  BY <1>1, TypeCorrect, ConsistentAlways, WaitersStep, PTL DEF Spec

(***************************************************************************)
(* Permits.  That the bodies that run fit the permits is not inductive: a  *)
(* task owns its permit from the spawn to its end, and it is the tasks     *)
(* that own one which are counted when the next is spawned.                *)
(***************************************************************************)

PermitsFit ==
    \A l \in Lanes :
        /\ IsFiniteSet(PermitsInUse(l))
        /\ Cardinality(PermitsInUse(l)) <= Permits[l]

LEMMA FewerPermits ==
    ASSUME PermitsFit, \A l \in Lanes : PermitsInUse(l)' \subseteq PermitsInUse(l)
    PROVE  PermitsFit'
<1> SUFFICES ASSUME NEW l \in Lanes
             PROVE  /\ IsFiniteSet(PermitsInUse(l)')
                    /\ Cardinality(PermitsInUse(l)') <= Permits[l]
  BY DEF PermitsFit
<1>1. IsFiniteSet(PermitsInUse(l)) /\ Cardinality(PermitsInUse(l)) <= Permits[l]
  BY DEF PermitsFit
<1>2. /\ IsFiniteSet(PermitsInUse(l)')
      /\ Cardinality(PermitsInUse(l)') <= Cardinality(PermitsInUse(l))
  BY <1>1, FS_Subset
<1>3. /\ Cardinality(PermitsInUse(l)) \in Nat /\ Cardinality(PermitsInUse(l)') \in Nat
      /\ Permits[l] \in Nat
  BY <1>1, <1>2, FS_CardinalityType, QueueAssumption
<1> QED BY <1>1, <1>2, <1>3

\* The worker takes a permit before it spawns a task, and the task keeps it to its
\* end (worker.rs:18-25).
LEMMA PermitsStep == TypeOK /\ Consistent /\ PermitsFit /\ [Next]_vars => PermitsFit'
<1> SUFFICES ASSUME TypeOK, Consistent, PermitsFit, [Next]_vars PROVE PermitsFit'
  OBVIOUS
<1> DEFINE owns == {"spawned", "running", "recorded", "notified"}
<1>1. ASSUME NEW p \in Pushes, Spawn(p) PROVE PermitsFit'
  <2> SUFFICES ASSUME NEW l \in Lanes
               PROVE  /\ IsFiniteSet(PermitsInUse(l)')
                      /\ Cardinality(PermitsInUse(l)') <= Permits[l]
    BY DEF PermitsFit
  <2>1. IsFiniteSet(PermitsInUse(l)) /\ Cardinality(PermitsInUse(l)) <= Permits[l]
    BY DEF PermitsFit
  <2>2. Cardinality(PermitsInUse(l)) \in Nat /\ Permits[l] \in Nat
    BY <2>1, FS_CardinalityType, QueueAssumption
  <2>3. CASE l = Lane[p]
    <3>1. Cardinality(PermitsInUse(l)) < Permits[l]
      BY <1>1, <2>3 DEF Spawn
    <3>2. PermitsInUse(l)' = PermitsInUse(l) \union {p}
      BY <1>1, <2>3 DEF Spawn, PermitsInUse, TypeOK
    <3>3. /\ IsFiniteSet(PermitsInUse(l) \union {p})
          /\ Cardinality(PermitsInUse(l) \union {p}) <= Cardinality(PermitsInUse(l)) + 1
      <4>1. /\ IsFiniteSet(PermitsInUse(l) \union {p})
            /\ Cardinality(PermitsInUse(l) \union {p}) =
                  IF p \in PermitsInUse(l) THEN Cardinality(PermitsInUse(l))
                                           ELSE Cardinality(PermitsInUse(l)) + 1
        BY <2>1, FS_AddElement, Zenon
      <4> QED BY <2>2, <4>1
    <3> QED BY <2>2, <3>1, <3>2, <3>3, FS_CardinalityType
  <2>4. CASE l # Lane[p]
    <3>1. PermitsInUse(l)' = PermitsInUse(l)
      BY <1>1, <2>4 DEF Spawn, PermitsInUse, TypeOK
    <3> QED BY <2>1, <3>1
  <2> QED BY <2>3, <2>4
<1>2. ASSUME \A q \in Pushes : job'[q] \in owns => job[q] \in owns PROVE PermitsFit'
  <2>1. \A l \in Lanes : PermitsInUse(l)' \subseteq PermitsInUse(l)
    BY <1>2 DEF PermitsInUse
  <2> QED BY <2>1, FewerPermits
<1>3. ASSUME NEW p \in Pushes,
             \/ Enqueue(p) \/ Start(p) \/ Notify(p) \/ Release(p) \/ DropTask(p)
             \/ AbortBody(p) \/ \E r \in Results : Finish(p, r)
      PROVE  PermitsFit'
  <2>1. \A q \in Pushes : job'[q] \in owns => job[q] \in owns
    BY <1>3 DEF Enqueue, Start, Notify, Release, DropTask, AbortBody, Finish, Record, TypeOK
  <2> QED BY <1>2, <2>1
<1>4. ASSUME NEW l \in Lanes, Receive(l) \/ DropWorker(l) PROVE PermitsFit'
  <2>1. \A q \in Pushes : job'[q] \in owns => job[q] \in owns
    BY <1>4 DEF Receive, DropWorker, TypeOK
  <2> QED BY <1>2, <2>1
<1>5. CASE UNCHANGED job
  BY <1>2, <1>5
<1> QED
  BY <1>1, <1>3, <1>4, <1>5
     DEF Next, vars, PushCached, PushJoin, PushClaim, EnqueueFails, Cancel, DropQueue,
         WorkerExits, Shutdown, FreeMaps, Idle

\* No more bodies of a lane run together than it has permits, for any number of jobs
\* and any way in which earlier ones ended: worker.rs:18-25.
THEOREM LanesAreBounded == Spec => []PermitsRespected
<1>1. Init => PermitsFit
  <2> SUFFICES ASSUME Init PROVE PermitsFit
    OBVIOUS
  <2>1. \A l \in Lanes : PermitsInUse(l) = {}
    BY DEF Init, PermitsInUse
  <2>2. \A l \in Lanes : Permits[l] \in Nat /\ 0 <= Permits[l]
    BY QueueAssumption
  <2>3. IsFiniteSet({}) /\ Cardinality({}) = 0
    BY FS_EmptySet
  <2> QED BY <2>1, <2>2, <2>3 DEF PermitsFit
<1>2. PermitsFit => PermitsRespected
  <2> SUFFICES ASSUME PermitsFit, NEW l \in Lanes
               PROVE  Cardinality({p \in Pushes : Lane[p] = l /\ job[p] = "running"})
                          <= Permits[l]
    BY DEF PermitsRespected
  <2> DEFINE running == {p \in Pushes : Lane[p] = l /\ job[p] = "running"}
  <2>1. IsFiniteSet(PermitsInUse(l)) /\ Cardinality(PermitsInUse(l)) <= Permits[l]
    BY DEF PermitsFit
  <2>2. running \in SUBSET PermitsInUse(l)
    BY DEF PermitsInUse
  <2>3. IsFiniteSet(running) /\ Cardinality(running) <= Cardinality(PermitsInUse(l))
    <3> HIDE DEF running
    <3> QED BY <2>1, <2>2, FS_Subset
  <2>4. /\ Cardinality(running) \in Nat /\ Cardinality(PermitsInUse(l)) \in Nat
        /\ Permits[l] \in Nat
    <3> HIDE DEF running
    <3> QED BY <2>1, <2>3, FS_CardinalityType, QueueAssumption
  <2> QED BY <2>1, <2>3, <2>4
<1> QED
  BY <1>1, <1>2, TypeCorrect, ConsistentAlways, PermitsStep, PTL DEF Spec

(***************************************************************************)
(* JobLost.  The last holder of the waiter map drops what is still         *)
(* registered in it.  Nothing is, unless the runtime went down: until then *)
(* a waiter has a job or a guard to answer it, and no push is under way    *)
(* once the queue is dropped.                                              *)
(***************************************************************************)

NoPushOutlivesQueue == queue = "dropped" => \A p \in Pushes : call[p] # "sending"

CausesKnown == NoPushOutlivesQueue /\ JobLostHasCause

LEMMA CausesStep ==
    /\ TypeOK /\ Consistent /\ ClaimsAreOwned /\ NoWaiterLeftBehind
    /\ CausesKnown /\ [Next]_vars
    => CausesKnown'
<1> SUFFICES ASSUME TypeOK, Consistent, ClaimsAreOwned, NoWaiterLeftBehind,
                    CausesKnown, [Next]_vars
             PROVE  CausesKnown'
  OBVIOUS
<1> USE QueueAssumption DEF TypeOK
<1> DEFINE Final == {"cancelled", "rejected"}
           Cause(k) == \/ \E q \in Pushes : Key[q] = k /\ call[q] \in Final
                       \/ runtime = "down"
<1>1. NoPushOutlivesQueue'
  BY DEF CausesKnown, NoPushOutlivesQueue, Next, vars, PushCached, PushJoin, PushClaim,
         CallerReady, Enqueue, EnqueueFails, Cancel, GiveUp, Receive, Spawn, Start, Finish,
         Record, Notify, Release, DropQueue, WorkerExits, Shutdown, DropWorker, DropTask,
         AbortBody, FreeMaps, Idle
<1>2. \A k \in Keys : Cause(k) => Cause(k)'
  BY DEF Next, vars, PushCached, PushJoin, PushClaim,
         CallerReady, Enqueue, EnqueueFails, Cancel, GiveUp, Receive, Spawn, Start, Finish,
         Record, Notify, Release, DropQueue, WorkerExits, Shutdown, DropWorker, DropTask,
         AbortBody, FreeMaps, Idle
<1>3. \A p \in Pushes : slot[p].kind = "lost" => Cause(Key[p])
  BY DEF CausesKnown, JobLostHasCause
<1> HIDE DEF Cause
<1>4. ASSUME \A p \in Pushes : slot'[p].kind = "lost" =>
                                  slot[p].kind = "lost" \/ Cause(Key[p])'
      PROVE  JobLostHasCause'
  <2>1. \A p \in Pushes : slot'[p].kind = "lost" => Cause(Key[p])'
    BY <1>2, <1>3, <1>4
  <2> QED BY <2>1 DEF JobLostHasCause, Cause
<1>5. ASSUME NEW p \in Pushes, EnqueueFails(p) \/ Cancel(p) PROVE JobLostHasCause'
  <2>1. Cause(Key[p])'
    BY <1>5 DEF EnqueueFails, Cancel, GiveUp, Cause
  <2>2. \A q \in waiters[Key[p]] : Key[q] = Key[p]
    BY DEF Consistent, WaitersShareKey
  <2>3. slot' = Deliver(waiters[Key[p]], JobLost)
    BY <1>5 DEF EnqueueFails, Cancel, GiveUp
  <2>4. \A q \in Pushes : slot'[q] = slot[q] \/ Key[q] = Key[p]
    BY <2>2, <2>3 DEF Deliver
  <2> QED BY <1>4, <2>1, <2>4
<1>6. ASSUME FreeMaps PROVE JobLostHasCause'
  <2>1. \A k \in Keys : waiters[k] # {} => InFlight(k)
    BY <1>6 DEF FreeMaps, NoWaiterLeftBehind
  <2>2. \A p \in Pushes : ~ Live(p)
    BY <1>6 DEF FreeMaps, Live, CausesKnown, NoPushOutlivesQueue
  <2>3. \A k \in Keys : waiters[k] # {} => runtime = "down"
    BY <2>1, <2>2 DEF ClaimsAreOwned
  <2>4. runtime' = "down"
    BY <1>6, <2>3 DEF FreeMaps
  <2>5. \A p \in Pushes : Cause(Key[p])'
    BY <2>4 DEF Cause
  <2> QED BY <1>4, <2>5
<1>7. ASSUME NEW p \in Pushes, PushCached(p) PROVE JobLostHasCause'
  <2>1. \A q \in Pushes : slot'[q].kind = "lost" => slot[q].kind = "lost"
    BY <1>7 DEF PushCached
  <2> QED BY <1>4, <2>1
<1>8. ASSUME NEW p \in Pushes, Notify(p) PROVE JobLostHasCause'
  <2>1. \A q \in Pushes : slot'[q] = slot[q] \/ slot'[q] = Told(p)
    BY <1>8 DEF Notify, Deliver
  <2>2. Told(p).kind # "lost"
    BY DEF Told
  <2> QED BY <1>4, <2>1, <2>2
<1>9. ASSUME UNCHANGED slot PROVE JobLostHasCause'
  <2>1. \A p \in Pushes : slot'[p].kind = "lost" => slot[p].kind = "lost"
    BY <1>9
  <2> QED BY <1>4, <2>1
<1>10. JobLostHasCause'
  <2> HIDE DEF TypeOK
  <2> QED BY <1>5, <1>6, <1>7, <1>8, <1>9
     DEF Next, vars, PushJoin, PushClaim, Enqueue, Receive, Spawn, Start, Finish, Record,
         Release, DropQueue, WorkerExits, Shutdown, DropWorker, DropTask, AbortBody, Idle
<1> QED BY <1>1, <1>10 DEF CausesKnown

\* A handle is lost only when a push of its key was abandoned or refused or the
\* runtime went down, for every schedule: state.rs:43-82.
THEOREM LossesAreExplained == Spec => []JobLostHasCause
<1>1. Init => CausesKnown
  BY DEF Init, CausesKnown, NoPushOutlivesQueue, JobLostHasCause, NoAnswer
<1>2. CausesKnown => JobLostHasCause
  BY DEF CausesKnown
<1> QED
  BY <1>1, <1>2, TypeCorrect, ConsistentAlways, NoKeyIsStuck, WaitersAreAnswered,
     CausesStep, PTL DEF Spec
=============================================================================
