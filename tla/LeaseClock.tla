----------------------------- MODULE LeaseClock -----------------------------
(***************************************************************************)
(* A step's lease in time: the expiry that claim_step and renew_lease      *)
(* write (src/store/sqlite.rs), the two places that compare it with the    *)
(* clock, and the tick by which the engine renews it (src/engine.rs).      *)
(* StepStore has one bit, fresh, instead; Store below is the mapping.      *)
(*                                                                         *)
(* Time counts in whole units, PerSecond of them in a second.  What a call *)
(* does with the step but hold its lease is left to WorkflowEngine.        *)
(***************************************************************************)
EXTENDS Integers, Sequences, FiniteSets

CONSTANTS
    Workers,
    Nobody,
    Ttl,            \* lease_ttl
    PerSecond,      \* units in a second
    Fallback,       \* a millisecond, in units
    Slack,          \* how late the engine may come to a tick that is due
    MaxTime         \* bound on the clock

\* A lease is renewed three times in its life; when a third of it is no time at all,
\* every millisecond.
Interval == IF Ttl \div 3 = 0 THEN Fallback ELSE Ttl \div 3

ASSUME ClockAssumption ==
    /\ Nobody \notin Workers
    /\ Ttl \in Nat /\ PerSecond \in Nat \ {0} /\ Fallback \in Nat \ {0}
    /\ Slack \in Nat /\ MaxTime \in Nat
    /\ Interval + Slack < Ttl

VARIABLES
    now,        \* the clock, which all workers share
    row,        \* the row of the step
    phase,      \* phase[w]: "idle", "push" once it has claimed the step, "await"
                \* when it has the handle, "renew" after its first tick
    due,        \* due[w]: the time of its next renewal tick
    seen        \* seen[w]: it is recovering, and expired_leases returned the row

lease == <<now, row, phase, due, seen>>

Secs(t) == t \div PerSecond

\* Slip: the whole time where its part is meant.
Nanos_Whole(t) == t

Nanos(t) == t % PerSecond

Free == [status |-> "absent", holder |-> Nobody, secs |-> 0, nanos |-> 0]

LeaseInit ==
    /\ now = 0
    /\ row = Free
    /\ phase = [w \in Workers |-> "idle"]
    /\ due = [w \in Workers |-> 0]
    /\ seen = [w \in Workers |-> FALSE]

LeaseTypeOK ==
    /\ now \in Nat
    /\ row \in [status : {"absent", "pending", "leased", "completed", "failed", "waiting"},
                holder : Workers \union {Nobody}, secs : Nat, nanos : 0..(PerSecond - 1)]
    /\ phase \in [Workers -> {"idle", "push", "await", "renew"}]
    /\ due \in [Workers -> Nat]
    /\ seen \in [Workers -> BOOLEAN]

\* expires_at > now, on times put together from their parts
Expiry == row.secs * PerSecond + row.nanos

Unexpired == Expiry > now

\* Slip: a lease that expires in this very unit is passed over.
Expired_Strictly == \/ row.secs < Secs(now)
                    \/ row.secs = Secs(now) /\ row.nanos < Nanos(now)

\* The comparison in the query of expired_leases, on the parts
Expired == \/ row.secs < Secs(now)
           \/ row.secs = Secs(now) /\ row.nanos <= Nanos(now)

LeasedTo(w) == [status |-> "leased", holder |-> w,
                secs |-> Secs(now + Ttl), nanos |-> Nanos(now + Ttl)]

\* claim_step: HeldByOther leaves everything as it is, and so do the answers of a
\* step that is done or waits.
Claim(w) ==
    /\ phase[w] = "idle"
    /\ row.status \notin {"completed", "waiting"}
    /\ ~ (row.status = "leased" /\ row.holder # w /\ Unexpired)
    /\ row' = LeasedTo(w)
    /\ phase' = [phase EXCEPT ![w] = "push"]
    /\ UNCHANGED <<now, due, seen>>

\* The handle is there: the first tick of the interval is due at once.
Await(w) ==
    /\ phase[w] = "push"
    /\ phase' = [phase EXCEPT ![w] = "await"]
    /\ due' = [due EXCEPT ![w] = now]
    /\ UNCHANGED <<now, row, seen>>

\* Slip: the next tick is a whole life of the lease away.
NextTick_Ttl(w) == now + Ttl

\* MissedTickBehavior::Skip: the next tick is the next multiple of the interval.
NextTick(w) == now + Interval - ((now - due[w]) % Interval)

\* Slip: whoever has a tick takes the lease.
RenewLease_TakesOver(w) == IF row.status = "leased" THEN row' = LeasedTo(w) ELSE UNCHANGED row

\* renew_lease: an error, which is only logged, for anybody but the holder.
RenewLease(w) ==
    IF row.status = "leased" /\ row.holder = w THEN row' = LeasedTo(w) ELSE UNCHANGED row

Renew(w) ==
    /\ phase[w] \in {"await", "renew"} /\ due[w] <= now
    /\ RenewLease(w)
    /\ phase' = [phase EXCEPT ![w] = "renew"]
    /\ due' = [due EXCEPT ![w] = NextTick(w)]
    /\ UNCHANGED <<now, seen>>

\* The attempt ends, with an event whose projection clears the row, whoever holds it
\* (before there is a handle only when the queue has the result already); or the call
\* dies or fails, and the row stays as it is.
Ends(w) ==
    /\ phase[w] # "idle"
    /\ phase' = [phase EXCEPT ![w] = "idle"]
    /\ \/ \E st \in {"completed", "failed", "waiting"} :
              /\ phase[w] = "push" => st = "completed"
              /\ row' = [Free EXCEPT !.status = st]
       \/ UNCHANGED row
    /\ UNCHANGED <<now, due, seen>>

\* StepResumed and RetryScheduled make the row pending.
Reopen ==
    /\ row.status \in {"waiting", "failed"}
    /\ row' = [Free EXCEPT !.status = "pending"]
    /\ UNCHANGED <<now, phase, due, seen>>

\* expired_leases, whatever another call on the same engine is doing
Look(w) ==
    /\ ~ seen[w]
    /\ row.status = "leased" /\ Expired
    /\ seen' = [seen EXCEPT ![w] = TRUE]
    /\ UNCHANGED <<now, row, phase, due>>

\* WorkerRecovered, some time after the look.
Readmit(w) ==
    /\ seen[w]
    /\ seen' = [seen EXCEPT ![w] = FALSE]
    /\ row' = [Free EXCEPT !.status = "pending"]
    /\ UNCHANGED <<now, phase, due>>

\* Time passes, but not past the moment by which an engine has come to its tick.
Pass ==
    /\ now < MaxTime
    /\ \A w \in Workers : phase[w] \in {"await", "renew"} => now < due[w] + Slack
    /\ now' = now + 1
    /\ UNCHANGED <<row, phase, due, seen>>

\* The step is done and nobody is at work on it.
Rest ==
    /\ row.status = "completed"
    /\ \A w \in Workers : phase[w] = "idle" /\ ~ seen[w]
    /\ UNCHANGED lease

LeaseNext ==
    \/ \E w \in Workers : Claim(w)
    \/ \E w \in Workers : Await(w)
    \/ \E w \in Workers : Renew(w)
    \/ \E w \in Workers : Ends(w)
    \/ \E w \in Workers : Look(w)
    \/ \E w \in Workers : Readmit(w)
    \/ Reopen
    \/ Pass
    \/ Rest

LeaseSpec == LeaseInit /\ [][LeaseNext]_lease

(***************************************************************************)
(* Properties                                                              *)
(***************************************************************************)

\* At every moment a lease either keeps other workers out or is found by a recovery:
\* the comparison of whole times in claim_step_tx and that of their parts in the query
\* of expired_leases never both say yes and never both say no
\* (sqlite.rs:268-277, 202-208).
NoLeaseInLimbo == row.status = "leased" => (Unexpired <=> ~ Expired)

\* While an engine awaits the outcome of a step its own lease does not run out,
\* once the first tick has been served: the interval and the slack together are
\* shorter than the lease (engine.rs:458-475, 499-513).
LeaseOutlivesInterval ==
    \A w \in Workers :
        phase[w] = "renew" /\ row.status = "leased" /\ row.holder = w => Unexpired

(***************************************************************************)
(* The inductive invariant behind LeaseOutlivesInterval                    *)
(***************************************************************************)

\* An engine that waits is at most Slack late, and its own lease was written no more
\* than one interval before the next tick.
RenewalsInTime ==
    \A w \in Workers :
        /\ phase[w] \in {"await", "renew"} => now <= due[w] + Slack
        /\ (phase[w] = "renew" /\ row.status = "leased" /\ row.holder = w)
              => Expiry + Interval >= due[w] + Ttl

(***************************************************************************)
(* Refinement                                                              *)
(***************************************************************************)

\* The row as StepStore has it.  The log and the attempts play no part.
RowWithFresh == [s \in {0} |-> [status |-> row.status, holder |-> row.holder,
                                fresh |-> row.status = "leased" /\ Unexpired,
                                attempt |-> 0]]

Store == INSTANCE StepStore WITH
    NumSteps <- 1,
    MaxAttempts <- 0,
    Calls <- Workers,
    log <- <<>>,
    rows <- RowWithFresh

\* Some event of the step, projected on its row.
Projection ==
    \E type \in Store!StepEvents :
        RowWithFresh' = [RowWithFresh EXCEPT
            ![0] = Store!Projected(@, [type |-> type, attempt |-> 0])]

\* Every step is one of StepStore's operations on the row, or none: leases in time
\* behave as the leases with one bit that WorkflowEngine is built on.
LeasesImplementStore ==
    [][\/ \E w \in Workers : Store!ClaimStep(0, w) \/ Store!RenewLease(0, w)
       \/ Store!ExpireLease(0)
       \/ Projection]_RowWithFresh
=============================================================================
