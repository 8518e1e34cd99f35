-------------------------- MODULE DurableWorkflow --------------------------
(***************************************************************************)
(* What agentq promises of a workflow, whoever drives it and whatever      *)
(* crashes: the executions that its log tells of, with no calls, leases,   *)
(* queues or rows.  An execution is a step and the number of an attempt.   *)
(***************************************************************************)
EXTENDS Integers

CONSTANTS NumSteps, MaxAttempts

VARIABLES
    started,    \* the executions on record as started,
    completed,  \* completed,
    failed,     \* failed,
    waiting,    \* in want of input,
    resumed,    \* resumed,
    scheduled,  \* and scheduled as retries
    ended       \* the ends of the workflow that are on record

executions == <<started, completed, failed, waiting, resumed, scheduled>>
record == <<executions, ended>>

Steps == 0..(NumSteps - 1)
Attempts == 0..MaxAttempts

Done(s) == \E a \in Attempts : <<s, a>> \in completed

Waited(s) == \E a \in Attempts : <<s, a>> \in waiting

Init ==
    /\ started = {} /\ completed = {} /\ failed = {}
    /\ waiting = {} /\ resumed = {} /\ scheduled = {}
    /\ ended = {}

\* Steps go in order, and an attempt but the first has been scheduled.
Start(s, a) ==
    /\ \A t \in Steps : t < s => Done(t)
    /\ a = 0 \/ <<s, a>> \in scheduled
    /\ started' = started \union {<<s, a>>}
    /\ UNCHANGED <<completed, failed, waiting, resumed, scheduled, ended>>

\* Only what was started has an outcome.
Complete(s, a) ==
    /\ <<s, a>> \in started
    /\ completed' = completed \union {<<s, a>>}
    /\ UNCHANGED <<started, failed, waiting, resumed, scheduled, ended>>

Fail(s, a) ==
    /\ <<s, a>> \in started
    /\ failed' = failed \union {<<s, a>>}
    /\ UNCHANGED <<started, completed, waiting, resumed, scheduled, ended>>

AskForInput(s, a) ==
    /\ <<s, a>> \in started
    /\ waiting' = waiting \union {<<s, a>>}
    /\ UNCHANGED <<started, completed, failed, resumed, scheduled, ended>>

\* Only a step that has asked for input is given some.
Resume(s, a) ==
    /\ Waited(s)
    /\ resumed' = resumed \union {<<s, a>>}
    /\ UNCHANGED <<started, completed, failed, waiting, scheduled, ended>>

\* A retry follows the failure of the attempt before it, within the policy.
Schedule(s, a) ==
    /\ a < MaxAttempts /\ <<s, a - 1>> \in failed
    /\ scheduled' = scheduled \union {<<s, a>>}
    /\ UNCHANGED <<started, completed, failed, waiting, resumed, ended>>

\* A workflow completes when every step has, fails when one has, and may be
\* cancelled at any time.
End(type) ==
    /\ type = "WorkflowCompleted" => \A s \in Steps : Done(s)
    /\ type = "WorkflowFailed" => failed # {}
    /\ ended' = ended \union {type}
    /\ UNCHANGED executions

Next ==
    \/ \E s \in Steps, a \in Attempts :
          \/ Start(s, a) \/ Complete(s, a) \/ Fail(s, a) \/ AskForInput(s, a)
          \/ Resume(s, a) \/ Schedule(s, a)
    \/ \E type \in {"WorkflowCompleted", "WorkflowFailed", "WorkflowCancelled"} : End(type)

Spec == Init /\ [][Next]_record

\* An attempt has started only if all attempts before it have failed
\* (engine.rs:640-661).
RetriesFollowFailures ==
    \A s \in Steps, a, b \in Attempts :
        <<s, a>> \in started /\ b < a => <<s, b>> \in failed
=============================================================================
