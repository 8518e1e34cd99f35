------------------------------ MODULE MCStore ------------------------------
(***************************************************************************)
(* Instances of the modules that look inside the store: EventTable and     *)
(* LeaseClock, which share no variable, and the functions of EventCodec    *)
(* and RetryDelay, on every input up to a bound.                           *)
(***************************************************************************)
EXTENDS EventTable, LeaseClock, StoreFunctions

CONSTANTS c1, c2

MCDecimal == [n \in 0..MaxNumber |-> ToString(n)]

MCSymbols ==
    {"bs", "nl", "n", "x", "agentq:wait:", "agentq:non-retryable:"}
        \union Kinds \union {MCDecimal[n] : n \in 0..MaxNumber}

\* Every piece of text that needs escaping is in one of these.
MCAppendable == {
    Event("StepStarted", <<<<"bs">>, 0, 1>>),
    Event("StepCompleted", <<<<"bs">>, 0, <<"bs", "n", "nl">>>>),
    Event("StepFailed", <<<<"nl", "bs">>, 1, <<"n", "bs">>>>)}

Texts(length) == SeqOf({"bs", "nl", "n", "x"}, length)

\* The event of this kind with these values for its fields.
EventWith(kind, id, text, number) ==
    Event(kind, [i \in DOMAIN Layout[kind] |->
        CASE Layout[kind][i] = "workflow_id" -> id
          [] Layout[kind][i] = "step_index"  -> number
          [] Layout[kind][i] = "attempt"     -> MaxNumber - number
          [] OTHER                           -> text])

MCEvents ==
    {EventWith(k, id, text, n) : k \in Kinds, id \in Texts(1), text \in Texts(3),
                                 n \in 0..MaxNumber}

\* Errors whose text begins with, contains or is a marker.
MCErrors == BodyErrors(SeqOf({"x", "agentq:wait:", "agentq:non-retryable:"}, 3))

MCPolicies == [type : {"exponential"}, base : 0..DurationMax, max : 0..DurationMax]

MCAttempts == 0..6

(***************************************************************************)
(* The three parts.  Interleaving them adds nothing to the states of any,  *)
(* so that one moves only while the others are where they began.           *)
(***************************************************************************)

Init == TableInit /\ LeaseInit /\ FunctionsInit

Untouched == schema = "none" /\ TableInit

Next ==
    \/ LeaseInit /\ FunctionsInit /\ TableNext /\ UNCHANGED <<lease, input>>
    \/ Untouched /\ FunctionsInit /\ LeaseNext /\ UNCHANGED <<table, input>>
    \/ Untouched /\ LeaseInit /\ FunctionsNext /\ UNCHANGED <<table, lease>>

Spec == Init /\ [][Next]_<<table, lease, input>>
=============================================================================
