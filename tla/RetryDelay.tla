----------------------------- MODULE RetryDelay -----------------------------
(***************************************************************************)
(* backoff_duration (src/engine.rs): the sleep before the next attempt of  *)
(* a step, on durations of limited width.                                  *)
(***************************************************************************)
EXTENDS Integers

CONSTANT DurationMax    \* Duration::MAX

ASSUME DelayAssumption == DurationMax \in Nat

Lesser(a, b) == IF a <= b THEN a ELSE b

\* Slip: the multiplication wraps around.
SaturatingDouble_Wraps(d) == (2 * d) % (DurationMax + 1)

SaturatingDouble(d) == Lesser(2 * d, DurationMax)

\* base after n doublings; the loop leaves as soon as one reaches max.
Doubled(base) ==
    LET d[n \in Nat] == IF n = 0 THEN base ELSE SaturatingDouble(d[n - 1])
    IN  d

BackoffDuration(policy, failed_attempt) ==
    IF policy.type = "fixed" THEN policy.base
    ELSE IF \E n \in 1..failed_attempt : Doubled(policy.base)[n] >= policy.max
         THEN policy.max
         ELSE Lesser(Doubled(policy.base)[failed_attempt], policy.max)
=============================================================================
