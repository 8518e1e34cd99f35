--------------------------- MODULE StoreFunctions ---------------------------
(***************************************************************************)
(* What the functions of EventCodec and RetryDelay promise, as properties  *)
(* of a machine that applies them to one input after the other.            *)
(***************************************************************************)
EXTENDS EventCodec, RetryDelay

CONSTANTS
    SomeEvents,     \* events to encode and decode
    SomeErrors,     \* errors of step bodies
    SomePolicies,   \* exponential retry policies
    SomeAttempts    \* numbers of failed attempts

ASSUME FunctionsAssumption ==
    /\ \A e \in SomeEvents : IsEvent(e)
    /\ SomeErrors \subseteq BodyErrors(Text)
    /\ SomePolicies \subseteq [type : {"exponential"}, base : 0..DurationMax, max : 0..DurationMax]
    /\ SomeAttempts \subseteq Nat

VARIABLE input      \* what the functions are applied to, or NoInput

NoInput == [of |-> "nothing"]

Inputs ==
    [of : {"codec"}, event : SomeEvents]
        \union [of : {"marker"}, error : SomeErrors]
        \union [of : {"delay"}, policy : SomePolicies, failed_attempt : SomeAttempts]

FunctionsInit == input = NoInput

FunctionsNext == input' \in IF input = NoInput THEN Inputs ELSE {NoInput}

FunctionsSpec == FunctionsInit /\ [][FunctionsNext]_input

\* decode_event undoes encode_event for every event, whatever backslashes and line
\* breaks its texts hold (sqlite.rs:524-771).
CodecRoundTrip == input.of = "codec" => Decode(Encode(input.event)) = input.event

\* What an error asks for is what is recorded, with its text, except for a plain
\* error whose text begins with a marker: that one, and no other, is mistaken
\* (engine.rs:16-56, 606-648, worker.rs:38-43).
MarkersSurvive ==
    input.of = "marker" =>
        LET err == input.error
            asked == [kind   |-> IF err.type = "WaitForInput" THEN "StepWaiting" ELSE "StepFailed",
                      reason |-> err.text,
                      retry  |-> err.type = "plain"]
            marked == err.text # <<>> /\ \E m \in Markers : Head(err.text) = Prefix[m]
        IN  Recorded(Display(err)) = asked <=> ~ (err.type = "plain" /\ marked)

Power[n \in Nat] == IF n = 0 THEN 1 ELSE 2 * Power[n - 1]

\* The exponential backoff is min(base * 2^n, max), also where the product does not
\* fit a duration (engine.rs:691-705).
BackoffIsCapped ==
    input.of = "delay" =>
        BackoffDuration(input.policy, input.failed_attempt)
            = Lesser(input.policy.base * Power[input.failed_attempt], input.policy.max)
=============================================================================
